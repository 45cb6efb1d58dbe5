----------------------------- MODULE Resolution -----------------------------
(***************************************************************************)
(* The answer a content of the store gives to a question, as a definition: *)
(* which key answers for a name, the records it answers with, the chain of *)
(* names a question is passed along, and what is collected on the way. The *)
(* lookup of the code, which walks the chain hop by hop and keeps compiled *)
(* patterns between lookups, is module Query.                              *)
(***************************************************************************)
EXTENDS Records

CONSTANTS
  Matches,    \* the names a pattern matches
  Fixed,      \* how many of a pattern's labels are literal
  Alphabetic, \* the rank of a pattern among the keys in byte order
  Expand,     \* RDATA of a template expanded for a name it matched, or Invalid
  Target,     \* the name in CNAME RDATA, as spelled there
  MaxHops,    \* 16 in the code
  Root,       \* the root name, the owner under which patterns are stored
  NoName

ASSUME ResolutionAssumption ==
  /\ Matches \in [Patterns -> SUBSET Keys]
  /\ Fixed \in [Patterns -> Nat] /\ Alphabetic \in [Patterns -> Nat]
  /\ \A p, q \in Patterns : p # q => Alphabetic[p] # Alphabetic[q]
  /\ Expand \in [Patterns \X Kinds \X Texts \X Keys -> RData \cup {Invalid}]
  /\ Target \in [RData -> Spellings]
  /\ MaxHops \in Nat \ {0}
  /\ Root \notin Keys /\ NoName \notin Keys \cup {Invalid}

\* The elements of a finite set from the first to the last.
Sorted(S, Comes(_, _)) ==
  CHOOSE seq \in [1..Cardinality(S) -> S] :
    \A i, j \in DOMAIN seq : i < j => Comes(seq[i], seq[j])

Questions == [name : Spellings, kind : Kinds \cup {"ANY"}]

\* A pattern with more literal labels comes first, then the smaller key.
Precedes(p, q) ==
  Fixed[p] > Fixed[q] \/ (Fixed[p] = Fixed[q] /\ Alphabetic[p] < Alphabetic[q])

\* Faulty variant: the key alone orders the patterns.
AlphabeticOrder(seen) == Sorted(seen, LAMBDA p, q : Alphabetic[p] < Alphabetic[q])

InOrder(seen) == Sorted(seen, Precedes)

StoredPatterns(recs) == {p \in Patterns : recs[p] # {}}

\* The key that answers for a name: the name itself, or the first pattern.
Source(recs, name) ==
  LET matching == {p \in StoredPatterns(recs) : name \in Matches[p]} IN
  IF recs[name] # {} THEN name
  ELSE IF matching = {} THEN NoName
       ELSE CHOOSE p \in matching : \A q \in matching \ {p} : Precedes(p, q)

-----------------------------------------------------------------------------
(***************************************************************************)
(* Answer records: a stored record with the owner it is answered under.    *)
(***************************************************************************)
Owned(r, owner, data) == [owner |-> owner, kind |-> r.kind, ttl |-> r.ttl, data |-> data]

\* Records under a pattern are stored with the root as their owner.
StoredOwner(key) == IF key \in Patterns THEN Root ELSE key
Verbatim(recs, key) == {Owned(r, StoredOwner(key), r.data) : r \in recs[key]}

Expansion(p, r, name) ==
  IF r.template = NoTemplate THEN r.data ELSE Expand[<<p, r.kind, r.template, name>>]
Materialized(recs, p, name) == {Owned(r, name, Expansion(p, r, name)) : r \in recs[p]}

Values(recs, name) ==
  LET key == Source(recs, name) IN
  IF key = NoName THEN {}
  ELSE IF key = name THEN Verbatim(recs, key) ELSE Materialized(recs, key, name)

\* A template that does not expand spoils the name for every question.
Spoilt(recs, name) == \E v \in Values(recs, name) : v.data = Invalid

Matching(values, kind) == {v \in values : kind \in {v.kind, "ANY"}}

\* A template of type CNAME that is read verbatim has no target.
Aliases(values) == {v \in values : v.kind = "CNAME" /\ v.data \in RData}
TargetOf(values) == Canonical[Target[(CHOOSE v \in Aliases(values) : TRUE).data]]

\* The name a question goes on to from a name, if it does.
Onward(recs, name, kind) ==
  LET values == Values(recs, name) IN
  IF Spoilt(recs, name) \/ Matching(values, kind) # {} \/ Aliases(values) = {}
  THEN NoName ELSE TargetOf(values)

\* The names a question visits, one after the other, and NoName after the last one;
\* no further than where the code gives up, and Invalid after an alias whose target
\* is no name the store could hold.
Visits(recs, name, kind) ==
  LET visit[n \in 1..MaxHops + 1] ==
        IF n = 1 THEN name
        ELSE LET last == visit[n - 1] IN
             IF last \in {NoName, Invalid} THEN NoName ELSE Onward(recs, last, kind)
  IN  visit

Chain(recs, name, kind) ==
  LET visit == Visits(recs, name, kind)
  IN  [n \in {m \in DOMAIN visit : visit[m] # NoName} |-> visit[n]]

Outcome(status, answers, synthesized) ==
  [status |-> status, answers |-> answers, synthesized |-> synthesized]
Failure == Outcome("error", {}, {})

\* All records synthesized from patterns on the way, of every type.
Synthesized(recs, names) ==
  UNION {IF Source(recs, n) \in {n, NoName} THEN {} ELSE Values(recs, n) : n \in names}

\* The aliases on the way, and what the last name has of the type asked for.
Collected(recs, names, last, kind) ==
  (UNION {Aliases(Values(recs, n)) : n \in names \ {last}})
    \cup Matching(Values(recs, last), kind)

Resolve(recs, question) ==
  LET name    == Canonical[question.name]
      chain   == Chain(recs, name, question.kind)
      names   == {chain[i] : i \in DOMAIN chain}
      last    == chain[Len(chain)]
      answers == Collected(recs, names, last, question.kind)
  IN
  IF name = Invalid \/ Len(chain) > MaxHops \/ last = Invalid \/ Spoilt(recs, last)
  THEN Failure
  ELSE Outcome(IF answers = {} /\ Source(recs, last) = NoName
               THEN "nxdomain" ELSE "answered",
               answers, Synthesized(recs, names))
=============================================================================
