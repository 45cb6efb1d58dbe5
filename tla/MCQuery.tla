------------------------------- MODULE MCQuery -------------------------------
(***************************************************************************)
(* Three names, aliases of each other in a chain of all three or a loop,   *)
(* and two patterns that match them all; a template that does not expand   *)
(* for the first of the names.                                             *)
(***************************************************************************)
EXTENDS Query

MCOwners == {"a.t.", "b.t.", "c.t."}
MCPatterns == {"*.t.", "(.+)."}
MCSpellings == MCOwners \cup MCPatterns \cup {"("}
MCCanonical == [s \in MCSpellings |-> IF s = "(" THEN Invalid ELSE s]
MCCaptures == [p \in MCPatterns |-> 1]
MCMatches == [p \in MCPatterns |-> MCOwners \cup {"*.t."}]
MCFixed == [p \in MCPatterns |-> IF p = "*.t." THEN 1 ELSE 0]
MCAlphabetic == [p \in MCPatterns |-> IF p = "*.t." THEN 2 ELSE 1]
MCKinds == {"A", "CNAME"}
MCPseudo == {"ANY"}
MCTTLs == {60}
MCFamily == [ip \in {"ip1"} |-> "A"]
MCRData == {"ip1", "ip2", "a.t.", "b.t.", "c.t."}
MCTexts == MCRData \cup {"{0}"}
MCParse == [kt \in MCKinds \X MCTexts |->
  IF kt[2] \in (IF kt[1] = "A" THEN {"ip1", "ip2"} ELSE MCOwners)
  THEN kt[2] ELSE Invalid]
MCPlaceholders == [t \in MCTexts |-> IF t = "{0}" THEN {0} ELSE {}]
MCExpand == [x \in MCPatterns \X MCKinds \X MCTexts \X (MCOwners \cup MCPatterns) |->
  IF x[4] \in {"b.t.", "c.t."} THEN "ip2" ELSE Invalid]
MCTarget == [d \in MCRData |-> IF d \in MCOwners THEN d ELSE "("]
MCLegacy == {[format |-> "text", lines |-> {[ttl |-> 60, ip |-> "ip1"]}]}

In(name, kind, text) == [name |-> name, kind |-> kind, ttl |-> 60, text |-> text]
PutAll(batch) == [op |-> "write", replace |-> TRUE, mode |-> NoMode, batch |-> batch]
Put(name, kind, text) == PutAll(<<In(name, kind, text)>>)
Del(name) == [op |-> "delete", name |-> name, kind |-> AnyKind, data |-> NoData]

MCJobs == {
  PutAll(<<In("a.t.", "CNAME", "b.t."), In("*.t.", "A", "{0}")>>),
  Put("b.t.", "CNAME", "a.t."), Put("b.t.", "CNAME", "c.t."),
  Put("(.+).", "A", "ip1"),
  Put("(.+).", "CNAME", "a.t."),
  Del("a.t."), Del("b.t."), Del("*.t.")}

MCAsked == {[name |-> "a.t.", kind |-> "A"], [name |-> "a.t.", kind |-> "ANY"],
            [name |-> "(", kind |-> "ANY"]}

\* The literal name of a pattern, as a question.
MCAskedLiteral == {[name |-> "*.t.", kind |-> "A"], [name |-> "a.t.", kind |-> "A"]}
=============================================================================
