------------------------------- MODULE MCStore -------------------------------
(***************************************************************************)
(* A small instance of the store: one ordinary name, one pattern with one  *)
(* capture group, and jobs that meet every rule of a write.                *)
(***************************************************************************)
EXTENDS Store, TLC

MCOwners == {"a.test."}
MCPatterns == {"*.test."}
MCCanonical ==
  "a.test." :> "a.test." @@ "A.Test" :> "a.test." @@ "*.Test" :> "*.test." @@ "(" :> Invalid
MCSpellings == DOMAIN MCCanonical
MCCaptures == [p \in MCPatterns |-> 1]
MCKinds == {"A", "CNAME", "TXT"}
MCPseudo == {"ANY"}
MCTTLs == {60, 300}
MCFamily == "ip1" :> "A" @@ "ip2" :> "A"
MCRData == {"ip1", "ip2", "host", "{0}"}
MCTexts == {"ip1", "ip2", "host", "{0}", "{1}"}
MCParse == [kt \in MCKinds \X MCTexts |->
  CASE kt[1] = "A" /\ kt[2] \in {"ip1", "ip2"} -> kt[2]
    [] kt[1] = "CNAME" /\ kt[2] = "host"       -> kt[2]
    [] kt[1] = "TXT" /\ kt[2] = "{0}"          -> kt[2]
    [] OTHER                                   -> Invalid]
MCPlaceholders == [t \in MCTexts |->
  CASE t = "{0}" -> {0} [] t = "{1}" -> {1} [] OTHER -> {}]

MCLegacy == {[format |-> "text", lines |-> {[ttl |-> 300, ip |-> "ip1"]}]}

In(name, kind, ttl, text) == [name |-> name, kind |-> kind, ttl |-> ttl, text |-> text]
Put(batch, mode) == [op |-> "write", batch |-> batch, replace |-> TRUE, mode |-> mode]
Add(batch, mode) == [op |-> "write", batch |-> batch, replace |-> FALSE, mode |-> mode]
Del(name, kind, data) == [op |-> "delete", name |-> name, kind |-> kind, data |-> data]

Ip1(ttl) == In("a.test.", "A", ttl, "ip1")
Ip2(ttl) == In("A.Test", "A", ttl, "ip2")
Alias == In("A.Test", "CNAME", 60, "host")
Echo == In("*.Test", "A", 60, "{0}")

MCJobs == {
  Put(<<Ip1(60)>>, NoMode),
  Put(<<Ip2(300), Echo>>, "lb"),
  Put(<<Alias>>, NoMode),
  Put(<<In("a.test.", "TXT", 60, "{0}")>>, "geo"),
  Put(<<Echo>>, "geo"),
  Put(<<>>, "lb"),
  Add(<<Ip2(60)>>, NoMode),
  Add(<<Ip1(300)>>, NoMode),
  Add(<<Echo, In("*.Test", "A", 60, "ip1"), Ip1(60)>>, NoMode),
  Add(<<Alias>>, NoMode),
  Add(<<In("a.test.", "TXT", 300, "{0}"), In("a.test.", "TXT", 300, "{0}")>>, NoMode),
  Add(<<Ip1(60)>>, "random"),
  Add(<<In("*.Test", "A", 60, "{1}")>>, NoMode),
  Add(<<In("a.test.", "ANY", 60, "ip1")>>, NoMode),
  Del("A.Test", AnyKind, NoData),
  Del("a.test.", "A", NoData),
  Del("a.test.", "A", IntoRecord(Ip1(300))),
  Del("*.Test", "A", IntoRecord(Echo)),
  Del("(", AnyKind, NoData)}
=============================================================================
