------------------------------ MODULE MCOrdering ------------------------------
(***************************************************************************)
(* A chain of aliases: two names a pattern makes, and a name of its own or *)
(* of that pattern. One policy may govern both made aliases.               *)
(***************************************************************************)
EXTENDS Ordering

MCOwners == {"a.t.", "b.t.", "c.t."}
MCPatterns == {"*.t."}
MCSpellings == MCOwners \cup MCPatterns
MCCanonical == [s \in MCSpellings |-> s]
MCCaptures == [p \in MCPatterns |-> 1]
MCMatches == [p \in MCPatterns |-> MCOwners]
MCRank == [p \in MCPatterns |-> 1]
MCKinds == {"A", "CNAME"}
MCPseudo == {"ANY"}
MCTTLs == {60}
MCFamily == [ip \in {"ip1", "ip2"} |-> "A"]
MCRData == {"ip1", "ip2", "b.t.", "c.t."}
MCTexts == MCRData \cup {"{0}"}
MCParse == [kt \in MCKinds \X MCTexts |->
  IF kt[2] \in (IF kt[1] = "A" THEN {"ip1", "ip2"} ELSE {"b.t.", "c.t."})
  THEN kt[2] ELSE Invalid]
MCPlaceholders == [t \in MCTexts |-> IF t = "{0}" THEN {0} ELSE {}]
MCExpand == [x \in MCPatterns \X MCKinds \X MCTexts \X (MCOwners \cup MCPatterns) |->
  IF x[2] = "A" THEN "ip1" ELSE IF x[4] = "a.t." THEN "b.t." ELSE "c.t."]
MCTarget == [d \in MCRData |-> IF d = "b.t." THEN "b.t." ELSE "c.t."]
MCCountry == [d \in MCRData |-> IF d = "ip2" THEN "XX" ELSE Unknown]

In(name, kind, text) == [name |-> name, kind |-> kind, ttl |-> 60, text |-> text]
Put(batch, mode) == [op |-> "write", replace |-> TRUE, mode |-> mode, batch |-> batch]
Del(name) == [op |-> "delete", name |-> name, kind |-> AnyKind, data |-> NoData]
Pair(name) == <<In(name, "A", "ip1"), In(name, "A", "ip2")>>

MCLegacy == {[format |-> "text", lines |-> {[ttl |-> 60, ip |-> ip] : ip \in {"ip1", "ip2"}}]}

MCJobs == {
  Put(Pair("c.t."), "lb"), Put(Pair("c.t."), "geo"), Put(Pair("c.t."), "random"),
  Put(<<In("*.t.", "CNAME", "{0}")>>, "lb"), Put(Pair("*.t."), "lb"),
  Del("c.t.")}

MCAsked == {[name |-> n, kind |-> "A"] : n \in {"a.t.", "c.t."}}

Symmetry == Permutations(Responders)
=============================================================================
