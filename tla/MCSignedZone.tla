----------------------------- MODULE MCSignedZone -----------------------------
(***************************************************************************)
(* A zone with one name below its apex, which a pattern matches too.       *)
(***************************************************************************)
EXTENDS SignedZone, TLC

MCOwners == {"z.", "a.z."}
MCPatterns == {"*.z."}
MCSpellings == MCOwners \cup MCPatterns
MCCanonical == [s \in MCSpellings |-> s]
MCCaptures == [p \in MCPatterns |-> 1]
MCMatches == [p \in MCPatterns |-> {"a.z."}]
MCRank == [p \in MCPatterns |-> 1]
MCKinds == {"SOA", "NS", "A"}
MCPseudo == {"ANY"}
MCTTLs == {60}
MCFamily == [ip \in {"ip1"} |-> "A"]
MCRData == {"soa", "soa2", "ns1", "ip1"}
MCTexts == MCRData \cup {"{0}"}
MCParse == [kt \in MCKinds \X MCTexts |->
  IF kt \in {<<"SOA", "soa">>, <<"SOA", "soa2">>, <<"NS", "ns1">>, <<"A", "ip1">>}
  THEN kt[2] ELSE Invalid]
\* The serial wraps at the first or second revision.
MCStoredSerial == [d \in MCRData |-> IF d = "soa" THEN 6 ELSE IF d = "soa2" THEN 7 ELSE 0]
MCPlaceholders == [t \in MCTexts |-> IF t = "{0}" THEN {0} ELSE {}]
MCExpand == [x \in MCPatterns \X MCKinds \X MCTexts \X (MCOwners \cup MCPatterns) |-> "ip1"]
MCTarget == [d \in MCRData |-> "a.z."]

In(name, kind, text) == [name |-> name, kind |-> kind, ttl |-> 60, text |-> text]
Put(in) == [op |-> "write", replace |-> TRUE, mode |-> NoMode, batch |-> <<in>>]
Del(name, kind, data) == [op |-> "delete", name |-> name, kind |-> kind, data |-> data]

MCStarts ==
  LET apex == {IntoRecord(In("z.", "SOA", "soa")), IntoRecord(In("z.", "NS", "ns1"))}
      host == {IntoRecord(In("a.z.", "A", "ip1"))}
      made == {IntoRecord(In("*.z.", "A", "{0}"))}
  IN  {[k \in Keys |-> IF k = "z." THEN apex ELSE IF k = "a.z." THEN host ELSE made]}

MCJobs == {
  Put(In("a.z.", "A", "ip1")),
  Put(In("z.", "SOA", "soa2")),
  Del("a.z.", AnyKind, NoData),
  Del("*.z.", "A", NoData),
  Del("z.", "A", NoData),
  Del("z.", "NS", IntoRecord(In("z.", "NS", "ns1"))),
  Del("z.", AnyKind, NoData)}

Symmetry == Permutations(Askers)

MCAsked == [name : {"a.z."}, kind : {"A"}] \cup [name : {"z."}, kind : {"NS"}]
=============================================================================
