------------------------------ MODULE MCListing ------------------------------
(***************************************************************************)
(* Three names, of which one is a pattern, that come and go, and whose     *)
(* RRsets get, change and lose a policy.                                   *)
(***************************************************************************)
EXTENDS Listing

MCOwners == {"a.t.", "b.t."}
MCPatterns == {"*.t."}
MCCanonical == [s \in MCOwners \cup MCPatterns \cup {"("} |-> IF s = "(" THEN Invalid ELSE s]
MCSpellings == DOMAIN MCCanonical
MCCaptures == [p \in MCPatterns |-> 1]
MCRank == [k \in Keys |-> IF k = "*.t." THEN 1 ELSE IF k = "a.t." THEN 2 ELSE 3]
MCPrefixes == {"", "a"}
MCHasPrefix == [p \in MCPrefixes |-> IF p = "" THEN Keys ELSE {"a.t."}]
MCListedKinds == {AnyKind, "A", "ANY", "nonsense"}
MCKinds == {"A", "TXT"}
MCPseudo == {"ANY"}
MCTTLs == {60}
MCFamily == [ip \in {"ip1", "ip2"} |-> "A"]
MCRData == {"ip1", "ip2", "text"}
MCTexts == MCRData
MCParse == [kt \in MCKinds \X MCTexts |->
  IF (kt[1] = "TXT") = (kt[2] = "text") THEN kt[2] ELSE Invalid]
MCPlaceholders == [t \in MCTexts |-> {}]
MCLegacy == {[format |-> "text", lines |-> {[ttl |-> 60, ip |-> "ip1"]}]}

In(name, kind, text) == [name |-> name, kind |-> kind, ttl |-> 60, text |-> text]
Put(batch, mode) == [op |-> "write", replace |-> TRUE, mode |-> mode, batch |-> batch]
Del(name, kind) == [op |-> "delete", name |-> name, kind |-> kind, data |-> NoData]

MCJobs == {
  Put(<<In("a.t.", "A", "ip2")>>, "lb"),
  Put(<<In("a.t.", "A", "ip1"), In("a.t.", "TXT", "text")>>, "random"),
  Put(<<In("b.t.", "A", "ip1"), In("*.t.", "A", "ip1")>>, NoMode),
  Del("a.t.", "A"), Del("a.t.", AnyKind), Del("b.t.", AnyKind), Del("*.t.", AnyKind)}
=============================================================================
