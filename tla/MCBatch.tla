------------------------------- MODULE MCBatch -------------------------------
(***************************************************************************)
(* The names and records of MCStore: batches in conflict with each other   *)
(* and with a local command that writes two names.                         *)
(***************************************************************************)
EXTENDS Batch, MCStore

MCSet == Put(<<Ip1(300)>>, "lb")
MCAppend == Add(<<Ip2(300)>>, "random")
MCAppendAlias == Add(<<Alias>>, NoMode)
MCRemove == Del("a.test.", "A", IntoRecord(Ip1(300)))
MCUnknown == Add(<<In("a.test.", "ANY", 60, "ip1")>>, NoMode)

MCLocalJobs == {Put(<<Ip1(60), Echo>>, NoMode)}
MCItems == {MCSet, MCAppend, MCAppendAlias, MCRemove, MCUnknown} \cup MCLocalJobs

MCBatches == {
  <<MCSet, Get, MCAppend>>,
  <<MCRemove, MCAppendAlias, MCUnknown>>}
=============================================================================
