----------------------------- MODULE QueryProofs -----------------------------
(***************************************************************************)
(* Proofs about Query, for any names, patterns and jobs and any number of  *)
(* readers: the compiled patterns are those of their revision, and every   *)
(* lookup answers what the content it began on answers.                    *)
(***************************************************************************)
EXTENDS Query, StateProofs

-----------------------------------------------------------------------------
(***************************************************************************)
(* The compiled patterns.                                                  *)
(***************************************************************************)
\* Only one element can come before all the others.
LEMMA FirstIsUnique ==
  ASSUME NEW set \in SUBSET Patterns, NEW p \in set, NEW q \in set,
         \A o \in set \ {p} : Precedes(p, o), \A o \in set \ {q} : Precedes(q, o)
  PROVE  p = q
<1> SUFFICES ASSUME p # q PROVE FALSE
  OBVIOUS
<1>1. Precedes(p, q) /\ Precedes(q, p)
  OBVIOUS
<1>2. Fixed[p] \in Nat /\ Fixed[q] \in Nat /\ Alphabetic[p] \in Nat /\ Alphabetic[q] \in Nat
  BY ResolutionAssumption
<1> QED
  BY <1>1, <1>2 DEF Precedes

\* Where in a list the first pattern is that matches a name, or 0.
FirstHit(list, name) == SelectInSeq(list, LAMBDA p : name \in Matches[p])

\* The first compiled pattern that matches a name is its source.
LEMMA FirstMatchIsSource ==
  ASSUME NEW recs, IsFiniteSet(StoredPatterns(recs)), NEW name, recs[name] = {}
  PROVE  LET list == InOrder(StoredPatterns(recs))
             i == FirstHit(list, name)
         IN  /\ Source(recs, name) = IF i = 0 THEN NoName ELSE list[i]
             /\ i # 0 => list[i] \in Patterns /\ recs[list[i]] # {}
<1> DEFINE seen == StoredPatterns(recs)
           list == InOrder(seen)
           hits == {i \in 1..Len(list) : name \in Matches[list[i]]}
           first == FirstHit(list, name)
           matching == {p \in seen : name \in Matches[p]}
<1>1. seen \in SUBSET Patterns
  BY DEF StoredPatterns
<1>2. /\ list \in Seq(seen)
      /\ \A i, j \in DOMAIN list : i < j => Precedes(list[i], list[j])
      /\ \A p \in seen : \E i \in DOMAIN list : list[i] = p
  BY <1>1, InOrderSorts
<1>3. first = IF hits # {} THEN Min(hits) ELSE 0
  BY DEF FirstHit, SelectInSeq
<1>4. Source(recs, name) =
        IF matching = {} THEN NoName
        ELSE CHOOSE p \in matching : \A q \in matching \ {p} : Precedes(p, q)
  BY DEF Source
<1>5. \A p \in seen : p \in Patterns /\ recs[p] # {}
  BY DEF StoredPatterns
<1> HIDE DEF list, first, seen
<1>6. DOMAIN list = 1..Len(list) /\ Len(list) \in Nat /\ \A i \in 1..Len(list) : list[i] \in seen
  BY <1>2
<1>7. CASE hits = {}
  <2>1. matching = {}
    BY <1>2, <1>6, <1>7
  <2> QED
    BY <1>3, <1>4, <1>7, <2>1 DEF first, list, seen
<1>8. CASE hits # {}
  <2>1. hits \in SUBSET Nat
    BY <1>6
  <2>2. \E i \in hits : \A j \in hits : i <= j
    <3> HIDE DEF hits
    <3> QED
      BY <1>8, <2>1, LeastExists
  <2>3. first \in hits /\ \A j \in hits : first <= j
    <3> HIDE DEF hits
    <3> QED
      BY <1>3, <1>8, <2>2 DEF Min
  <2>4. list[first] \in matching /\ first # 0
    BY <1>6, <2>3
  <2>5. \A q \in matching \ {list[first]} : Precedes(list[first], q)
    <3> SUFFICES ASSUME NEW q \in matching, q # list[first] PROVE Precedes(list[first], q)
      OBVIOUS
    <3>1. PICK i \in DOMAIN list : list[i] = q
      BY <1>2
    <3>2. i \in hits /\ first \in DOMAIN list /\ i # first
      BY <1>6, <2>3, <3>1
    <3>3. first < i
      BY <1>6, <2>3, <3>2
    <3> QED
      BY <1>2, <3>1, <3>2, <3>3
  <2>6. Source(recs, name) = list[first]
    <3>1. matching \in SUBSET Patterns
      BY <1>1
    <3> HIDE DEF matching
    <3> DEFINE source == CHOOSE p \in matching : \A q \in matching \ {p} : Precedes(p, q)
    <3>2. source \in matching /\ \A q \in matching \ {source} : Precedes(source, q)
      BY <2>4, <2>5
    <3>3. Source(recs, name) = source
      BY <1>4, <2>4
    <3> HIDE DEF source
    <3> QED
      BY <2>4, <2>5, <3>1, <3>2, <3>3, FirstIsUnique
  <2> QED
    BY <1>5, <2>4, <2>6 DEF first, list, seen
<1> QED
  BY <1>7, <1>8

-----------------------------------------------------------------------------
(***************************************************************************)
(* The inductive invariant. The history has what every open transaction    *)
(* reads; the compiled patterns are those of a revision in it; and a lookup*)
(* has visited the names that Resolve visits, and collected what is there. *)
(***************************************************************************)
VersionsKept ==
  /\ DOMAIN versions = 0..revision
  /\ versions[revision] = records
  /\ \A n \in 0..revision : IsFiniteSet(StoredPatterns(versions[n]))

PatternsKept ==
  patterns # None =>
    /\ patterns.revision \in 0..revision
    /\ patterns.list = InOrder(StoredPatterns(versions[patterns.revision]))

ReaderTypes ==
  /\ phase \in [Readers -> {"idle", "walking", "done"}]
  /\ question \in [Readers -> Asked]
  /\ snapshot \in [Readers -> 0..revision]
  /\ key \in [Readers -> Keys \cup {NoName}]
  /\ hops \in [Readers -> 0..MaxHops - 1]
  /\ DOMAIN answers = Readers /\ DOMAIN synthesized = Readers /\ DOMAIN outcome = Readers

Seen(r) == versions[snapshot[r]]
Visited(r) == Visits(Seen(r), Canonical[question[r].name], question[r].kind)

\* What a lookup has collected when it has gone on from the first n names.
Aliased(recs, visit, n) == UNION {Aliases(Values(recs, visit[i])) : i \in 1..n}
NamesOf(visit, n) == {visit[i] : i \in 1..n}

OnItsWay(r) ==
  /\ \A i \in 1..hops[r] + 1 : Visited(r)[i] \in Keys
  /\ Visited(r)[hops[r] + 1] = key[r]
  /\ answers[r] = Aliased(Seen(r), Visited(r), hops[r])
  /\ synthesized[r] = Synthesized(Seen(r), NamesOf(Visited(r), hops[r]))

Fresh(r) == hops[r] = 0 /\ answers[r] = {} /\ synthesized[r] = {}

ReadersKept ==
  \A r \in Readers :
    /\ phase[r] = "walking" => OnItsWay(r)
    /\ phase[r] # "walking" => Fresh(r)

Inv ==
  /\ StateTypeOK /\ IsFinite(records) /\ VersionsKept /\ PatternsKept
  /\ ReaderTypes /\ ReadersKept /\ AnswersSnapshot

-----------------------------------------------------------------------------
(***************************************************************************)
(* What Resolve answers, from how far a question has come.                 *)
(***************************************************************************)
\* What one more name adds.
LEMMA OneMore ==
  ASSUME NEW recs, NEW visit, NEW h \in Nat
  PROVE  LET name == visit[h + 1] IN
         /\ NamesOf(visit, h + 1) = NamesOf(visit, h) \cup {name}
         /\ Aliased(recs, visit, h + 1) = Aliased(recs, visit, h) \cup Aliases(Values(recs, name))
         /\ Synthesized(recs, NamesOf(visit, h + 1))
              = Synthesized(recs, NamesOf(visit, h)) \cup
                  IF Source(recs, name) \in {name, NoName} THEN {} ELSE Values(recs, name)
<1>1. 1..h + 1 = (1..h) \cup {h + 1}
  OBVIOUS
<1>2. NamesOf(visit, h + 1) = NamesOf(visit, h) \cup {visit[h + 1]}
  BY <1>1 DEF NamesOf
<1>3. Aliased(recs, visit, h + 1)
        = Aliased(recs, visit, h) \cup Aliases(Values(recs, visit[h + 1]))
  BY <1>1 DEF Aliased
<1> QED
  BY <1>2, <1>3 DEF Synthesized

\* The last name is none of those the question went on from, also in a loop: they
\* have a next one.
LEMMA ResolveEnds ==
  ASSUME NEW recs, NEW q, Canonical[q.name] # Invalid, NEW h \in 0..MaxHops - 1,
         NEW visit, visit = Visits(recs, Canonical[q.name], q.kind),
         \A i \in 1..h + 1 : visit[i] \in Keys,
         After(recs, visit[h + 1], q.kind) = NoName
  PROVE  LET last == visit[h + 1]
             all == Aliased(recs, visit, h) \cup Matching(Values(recs, last), q.kind)
         IN  Resolve(recs, q) =
               IF Spoilt(recs, last) THEN Failure
               ELSE Outcome(IF all = {} /\ Source(recs, last) = NoName
                            THEN "nxdomain" ELSE "answered",
                            all,
                            Synthesized(recs, NamesOf(visit, h)) \cup
                              IF Source(recs, last) \in {last, NoName} THEN {}
                              ELSE Values(recs, last))
<1> DEFINE name == Canonical[q.name]
           last == visit[h + 1]
           chain == Chain(recs, name, q.kind)
<1>1. /\ MaxHops \in Nat /\ h \in Nat /\ h + 1 \in 1..MaxHops
      /\ \A i \in 1..h : i \in 1..MaxHops /\ i \in 1..h + 1 /\ i + 1 \in 1..h + 1
  BY ResolutionAssumption
<1>2. \A i \in 1..h + 1 : visit[i] # NoName /\ visit[i] # Invalid
  BY ResolutionAssumption, NamesAssumption
<1>3. /\ \A n \in 1..MaxHops : visit[n + 1] = After(recs, visit[n], q.kind)
      /\ visit[(h + 1) + 1] = NoName
  BY <1>1, VisitsStep
<1>4. /\ chain = [i \in 1..h + 1 |-> visit[i]]
      /\ Len(chain) = h + 1
  <2>1. h + 1 \in 1..MaxHops + 1
    BY <1>1
  <2> QED
    BY <1>2, <1>3, <2>1, ChainEnds
<1>5. chain[Len(chain)] = last /\ ~(Len(chain) > MaxHops)
  BY <1>1, <1>4
<1>6. {chain[i] : i \in DOMAIN chain} = NamesOf(visit, h + 1)
  BY <1>4 DEF NamesOf
<1>7. \A i \in 1..h : visit[i] # last
  <2> SUFFICES ASSUME NEW i \in 1..h, visit[i] = last PROVE FALSE
    OBVIOUS
  <2>1. visit[i + 1] = NoName
    BY <1>1, <1>3
  <2> QED
    BY <1>1, <1>2, <2>1
<1>8. NamesOf(visit, h + 1) = NamesOf(visit, h) \cup {last} /\ last \notin NamesOf(visit, h)
  BY <1>1, <1>7, OneMore DEF NamesOf
<1>9. UNION {Aliases(Values(recs, n)) : n \in NamesOf(visit, h + 1) \ {last}}
        = Aliased(recs, visit, h)
  <2>1. NamesOf(visit, h + 1) \ {last} = NamesOf(visit, h)
    BY <1>8
  <2> QED
    BY <2>1 DEF Aliased, NamesOf
<1>10. Synthesized(recs, NamesOf(visit, h + 1))
         = Synthesized(recs, NamesOf(visit, h)) \cup
             IF Source(recs, last) \in {last, NoName} THEN {} ELSE Values(recs, last)
  BY <1>1, OneMore
<1>11. name # Invalid /\ last # Invalid
  BY <1>1, <1>2
<1> DEFINE names == {chain[i] : i \in DOMAIN chain}
           end == chain[Len(chain)]
           all == Collected(recs, names, end, q.kind)
           made == Synthesized(recs, names)
<1>12. Resolve(recs, q) =
         IF name = Invalid \/ Len(chain) > MaxHops \/ end = Invalid \/ Spoilt(recs, end)
         THEN Failure
         ELSE Outcome(IF all = {} /\ Source(recs, end) = NoName
                      THEN "nxdomain" ELSE "answered", all, made)
  BY DEF Resolve
<1>13. end = last /\ names = NamesOf(visit, h + 1)
  BY <1>5, <1>6
<1> HIDE DEF name, last, chain, end, names
<1>14. all = Aliased(recs, visit, h) \cup Matching(Values(recs, last), q.kind)
  BY <1>9, <1>13 DEF Collected
<1>15. made = Synthesized(recs, NamesOf(visit, h)) \cup
                IF Source(recs, last) \in {last, NoName} THEN {} ELSE Values(recs, last)
  BY <1>10, <1>13
<1> HIDE DEF all, made
<1>16. ~(name = Invalid \/ Len(chain) > MaxHops \/ end = Invalid)
  BY <1>5, <1>11, <1>13
<1> QED
  BY <1>12, <1>13, <1>14, <1>15, <1>16 DEF last

\* A question that is passed on to no name, or too often, fails.
LEMMA ResolveFails ==
  ASSUME NEW recs, NEW q, Canonical[q.name] \in Keys, NEW h \in 0..MaxHops - 1,
         NEW visit, visit = Visits(recs, Canonical[q.name], q.kind),
         \A i \in 1..h + 1 : visit[i] \in Keys,
         visit[h + 2] # NoName,
         visit[h + 2] = Invalid \/ h + 1 = MaxHops
  PROVE  Resolve(recs, q) = Failure
<1> DEFINE name == Canonical[q.name]
           chain == Chain(recs, name, q.kind)
<1>1. /\ MaxHops \in Nat /\ h \in Nat /\ h + 2 \in 1..MaxHops + 1
      /\ \A i \in 1..h + 2 : i = h + 2 \/ i \in 1..h + 1
  BY ResolutionAssumption
<1>2. \A i \in 1..h + 2 : visit[i] # NoName
  BY <1>1, ResolutionAssumption
<1>3. h + 2 <= MaxHops => visit[(h + 2) + 1] = NoName
  <2> SUFFICES ASSUME h + 2 <= MaxHops PROVE visit[(h + 2) + 1] = NoName
    OBVIOUS
  <2>1. visit[h + 2] = Invalid /\ h + 2 \in 1..MaxHops
    BY <1>1
  <2> QED
    BY <2>1, VisitsStep DEF After
<1>4. chain = [i \in 1..h + 2 |-> visit[i]] /\ Len(chain) = h + 2
  BY <1>1, <1>2, <1>3, ChainEnds
<1>5. chain[Len(chain)] = Invalid \/ Len(chain) > MaxHops
  BY <1>1, <1>4
<1> QED
  BY <1>5 DEF Resolve

-----------------------------------------------------------------------------
(***************************************************************************)
(* One hop: what source_in and the compiled patterns find is what the      *)
(* content the lookup reads has for the name.                              *)
(***************************************************************************)
LEMMA CompiledList ==
  ASSUME Inv, NEW rev \in 0..revision
  PROVE  /\ Compiled(rev).list = InOrder(StoredPatterns(versions[rev]))
         /\ Compiled(rev).revision = rev
BY DEF Inv, PatternsKept, Compiled, IsStale

LEMMA HopFinds ==
  ASSUME Inv, NEW r \in Readers, phase[r] = "walking"
  PROVE  LET recs == Seen(r)
             name == key[r]
         IN  /\ SourceIn(r) = Source(recs, name)
             /\ SourceIn(r) = NoName => Values(recs, name) = {}
             /\ SourceIn(r) # NoName => Found(r) = Values(recs, name)
             /\ SourceIn(r) # NoName => Made(r) = synthesized[r] \cup
                  IF Source(recs, name) \in {name, NoName} THEN {} ELSE Values(recs, name)
<1> DEFINE recs == Seen(r)
           name == key[r]
           list == InOrder(StoredPatterns(recs))
           first == FirstHit(list, name)
<1>1. name \in Keys /\ name # NoName
  <2>1. hops[r] + 1 \in 1..hops[r] + 1
    BY ResolutionAssumption DEF Inv, ReaderTypes
  <2> QED
    BY <2>1, ResolutionAssumption DEF Inv, ReadersKept, OnItsWay
<1>2. snapshot[r] \in 0..revision /\ IsFiniteSet(StoredPatterns(recs))
  BY DEF Inv, ReaderTypes, VersionsKept, Seen
<1>3. FirstMatch(r) = IF first = 0 THEN NoName ELSE list[first]
  BY <1>2, CompiledList DEF FirstMatch, FirstHit, Seen
<1>4. CASE recs[name] # {}
  BY <1>1, <1>4 DEF SourceIn, IsExact, Seen, Source, Values, Found, Made
<1>5. CASE recs[name] = {}
  <2>1. /\ Source(recs, name) = FirstMatch(r)
        /\ FirstMatch(r) # NoName => recs[FirstMatch(r)] # {}
    <3>1. /\ Source(recs, name) = IF first = 0 THEN NoName ELSE list[first]
          /\ first # 0 => recs[list[first]] # {}
      <4> HIDE DEF recs, name
      <4> QED
        BY <1>2, <1>5, FirstMatchIsSource
    <3> HIDE DEF list, first
    <3> QED
      BY <1>3, <3>1
  <2>2. FirstMatch(r) # name
    BY <1>1, <1>5, <2>1
  <2> HIDE DEF list, first
  <2> QED
    BY <1>1, <1>5, <2>1, <2>2 DEF SourceIn, IsExact, Seen, Values, Found, Made
<1> QED
  BY <1>4, <1>5

LEMMA ConsultKeeps ==
  ASSUME Inv, NEW r \in Readers, Consult(r), UNCHANGED <<revision, versions>>
  PROVE  PatternsKept'
<1>1. snapshot[r] \in 0..revision
  BY DEF Inv, ReaderTypes
<1>2. Compiled(snapshot[r]).list = InOrder(StoredPatterns(versions[snapshot[r]]))
      /\ Compiled(snapshot[r]).revision = snapshot[r]
  BY <1>1, CompiledList
<1> QED
  BY <1>1, <1>2 DEF Inv, Consult, PatternsKept

\* Where a lookup stands among the names of its question.
LEMMA Stands ==
  ASSUME Inv, NEW r \in Readers, phase[r] = "walking"
  PROVE  LET visit == Visited(r)
             kind  == question[r].kind
             next  == Onward(Seen(r), key[r], kind)
         IN  /\ hops[r] \in 0..MaxHops - 1
             /\ \A i \in 1..hops[r] + 1 : visit[i] \in Keys
             /\ Canonical[question[r].name] \in Keys
             /\ visit[hops[r] + 1] = key[r] /\ key[r] \in Keys
             /\ After(Seen(r), key[r], kind) = next /\ visit[hops[r] + 2] = next
<1> DEFINE visit == Visited(r)
<1>1. OnItsWay(r) /\ hops[r] \in 0..MaxHops - 1
  BY DEF Inv, ReadersKept, ReaderTypes
<1>2. MaxHops \in Nat /\ 1 \in 1..hops[r] + 1 /\ hops[r] + 1 \in 1..hops[r] + 1
      /\ hops[r] + 1 \in 1..MaxHops /\ (hops[r] + 1) + 1 = hops[r] + 2
  BY <1>1, ResolutionAssumption
<1>3. visit[1] = Canonical[question[r].name]
  BY VisitsStep DEF Visited
<1>4. key[r] \in Keys /\ visit[1] \in Keys /\ visit[hops[r] + 1] = key[r]
  BY <1>1, <1>2 DEF OnItsWay
<1>5. After(Seen(r), key[r], question[r].kind) = Onward(Seen(r), key[r], question[r].kind)
  BY <1>4, ResolutionAssumption, NamesAssumption DEF After
<1>6. visit[(hops[r] + 1) + 1] = After(Seen(r), key[r], question[r].kind)
  BY <1>2, <1>4, VisitsStep DEF Visited
<1> QED
  BY <1>1, <1>2, <1>3, <1>4, <1>5, <1>6 DEF OnItsWay

-----------------------------------------------------------------------------
(***************************************************************************)
(* The invariant holds at first, and every step keeps it.                  *)
(***************************************************************************)
LEMMA InitInv == Init => Inv
<1> SUFFICES ASSUME Init PROVE Inv
  OBVIOUS
<1>1. StateTypeOK /\ IsFinite(records)
  BY StateInitType, StateInitFinite DEF Init
<1>2. revision = 0 /\ 0..0 = {0} /\ 0 \in 0..MaxHops - 1
  BY ResolutionAssumption DEF Init, StateInit
<1>3. VersionsKept
  BY <1>1, <1>2 DEF Init, VersionsKept, IsFinite
<1>4. PatternsKept
  BY DEF Init, PatternsKept
<1>5. ReaderTypes
  <2>1. (CHOOSE q \in Asked : TRUE) \in Asked
    BY AskedAssumption
  <2> QED
    BY <1>2, <2>1 DEF Init, ReaderTypes
<1>6. ReadersKept /\ AnswersSnapshot
  BY DEF Init, ReadersKept, Fresh, AnswersSnapshot
<1> QED
  BY <1>1, <1>3, <1>4, <1>5, <1>6 DEF Inv

\* A commit changes no revision that a lookup reads.
LEMMA WriteInv ==
  ASSUME Inv, NEW j \in Jobs, Write(j)
  PROVE  Inv'
<1>1. /\ Accepts(j) /\ Take(j)
      /\ records' = RecordsAfter(j) /\ revision' = revision + 1 /\ revision \in Nat
  BY DEF Inv, Write, Take, StateTypeOK
<1>2. StateTypeOK' /\ IsFinite(records)'
  BY <1>1, TakeType, TakeFinite DEF Inv
<1>3. /\ \A n \in 0..revision : n \in 0..revision' /\ n # revision'
      /\ revision' \in 0..revision'
      /\ \A n \in 0..revision' : n = revision' \/ n \in 0..revision
  BY <1>1
<1>4. /\ DOMAIN versions' = 0..revision'
      /\ versions'[revision'] = records'
      /\ \A n \in 0..revision : versions'[n] = versions[n]
  BY <1>3 DEF Write
<1>5. VersionsKept'
  BY <1>2, <1>3, <1>4 DEF VersionsKept, Inv, IsFinite
<1>6. PatternsKept'
  BY <1>3, <1>4 DEF PatternsKept, Inv, Write
<1>7. ReaderTypes'
  BY <1>3 DEF ReaderTypes, Inv, Write, walk
<1>8. ASSUME NEW r \in Readers PROVE Seen(r)' = Seen(r)
  <2>1. snapshot[r] \in 0..revision /\ snapshot' = snapshot
    BY DEF Inv, ReaderTypes, Write
  <2> QED
    BY <1>4, <2>1 DEF Seen
<1>9. ReadersKept'
  BY <1>8 DEF ReadersKept, OnItsWay, Fresh, Visited, Inv, Write, walk
<1>10. AnswersSnapshot'
  BY <1>8 DEF AnswersSnapshot, Seen, Inv, Write
<1> QED
  BY <1>2, <1>5, <1>6, <1>7, <1>9, <1>10 DEF Inv

\* What a step of one lookup leaves as it is for the others.
LEMMA OthersKept ==
  ASSUME Inv, NEW r \in Readers, NEW s \in Readers, s # r,
         versions' = versions,
         phase'[s] = phase[s], question'[s] = question[s], snapshot'[s] = snapshot[s],
         key'[s] = key[s], hops'[s] = hops[s], answers'[s] = answers[s],
         synthesized'[s] = synthesized[s], outcome'[s] = outcome[s]
  PROVE  /\ (phase[s] = "walking" => OnItsWay(s))'
         /\ (phase[s] # "walking" => Fresh(s))'
         /\ (phase[s] = "done" => outcome[s] = Resolve(versions[snapshot[s]], question[s]))'
<1>1. Seen(s)' = Seen(s) /\ Visited(s)' = Visited(s)
  BY DEF Seen, Visited
<1>2. /\ phase[s] = "walking" => OnItsWay(s)
      /\ phase[s] # "walking" => Fresh(s)
      /\ phase[s] = "done" => outcome[s] = Resolve(versions[snapshot[s]], question[s])
  BY DEF Inv, ReadersKept, AnswersSnapshot
<1>3. (phase[s] = "walking" => OnItsWay(s))'
  BY <1>1, <1>2 DEF OnItsWay
<1>4. (phase[s] # "walking" => Fresh(s))'
  BY <1>2 DEF Fresh
<1> QED
  BY <1>2, <1>3, <1>4

LEMMA FinishInv ==
  ASSUME Inv, NEW r \in Readers, Consult(r), NEW status, NEW all, NEW made,
         Finish(r, status, all, made), UNCHANGED <<state, versions, question, snapshot>>,
         Resolve(Seen(r), question[r]) =
           IF status = "error" THEN Failure ELSE Outcome(status, all, made)
  PROVE  Inv'
<1>1. StateTypeOK' /\ IsFinite(records)' /\ VersionsKept'
  BY DEF Inv, state, StateTypeOK, IsFinite, StoredPatterns, VersionsKept
<1>2. PatternsKept'
  BY ConsultKeeps DEF state
<1>3. ReaderTypes'
  BY ResolutionAssumption DEF Inv, ReaderTypes, Finish, state
<1>4. /\ phase'[r] = "done" /\ Fresh(r)'
      /\ outcome'[r] = Resolve(versions'[snapshot'[r]], question'[r])
  BY DEF Finish, Fresh, Inv, ReaderTypes, Seen
<1>5. ReadersKept' /\ AnswersSnapshot'
  <2>1. ASSUME NEW s \in Readers
        PROVE  /\ (phase[s] = "walking" => OnItsWay(s))'
               /\ (phase[s] # "walking" => Fresh(s))'
               /\ (phase[s] = "done" =>
                     outcome[s] = Resolve(versions[snapshot[s]], question[s]))'
    <3>1. CASE s = r
      BY <1>4, <3>1
    <3>2. CASE s # r
      BY <3>2, OthersKept DEF Finish, Inv, ReaderTypes
    <3> QED
      BY <3>1, <3>2
  <2> QED
    BY <2>1 DEF ReadersKept, AnswersSnapshot
<1> QED
  BY <1>1, <1>2, <1>3, <1>5 DEF Inv

LEMMA AskInv ==
  ASSUME Inv, NEW r \in Readers, NEW q \in Asked, Ask(r, q)
  PROVE  Inv'
<1>1. /\ StateTypeOK' /\ IsFinite(records)' /\ VersionsKept' /\ PatternsKept'
      /\ UNCHANGED <<state, versions, patterns>>
  BY DEF Inv, Ask, state, StateTypeOK, IsFinite, StoredPatterns, VersionsKept, PatternsKept
<1>2. /\ question' = [question EXCEPT ![r] = q]
      /\ snapshot' = [snapshot EXCEPT ![r] = revision]
      /\ q.name \in Spellings /\ revision \in 0..revision
  BY <1>1, AskedAssumption DEF Ask, Questions, Inv, StateTypeOK
<1>3. Canonical[q.name] \in Keys \cup {Invalid}
  BY <1>2, NamesAssumption
<1>4. Fresh(r) /\ question'[r] = q
  BY <1>2 DEF Inv, ReadersKept, ReaderTypes, Ask
<1>5. ASSUME NEW s \in Readers
      PROVE  /\ (phase[s] = "walking" => OnItsWay(s))'
             /\ (phase[s] # "walking" => Fresh(s))'
             /\ (phase[s] = "done" =>
                   outcome[s] = Resolve(versions[snapshot[s]], question[s]))'
  <2>1. CASE s # r
    BY <2>1, <1>2, OthersKept DEF Ask, Finish, Inv, ReaderTypes
  <2>2. CASE s = r /\ Canonical[q.name] = Invalid
    <3>1. phase'[r] = "done" /\ outcome'[r] = Failure /\ Fresh(r)'
      BY <2>2 DEF Ask, Finish, Fresh, Inv, ReaderTypes
    <3>2. Resolve(versions'[snapshot'[r]], q) = Failure
      BY <2>2 DEF Resolve
    <3> QED
      BY <1>4, <2>2, <3>1, <3>2
  <2>3. CASE s = r /\ Canonical[q.name] # Invalid
    <3>1. phase'[r] = "walking" /\ key'[r] = Canonical[q.name] /\ key'[r] \in Keys
          /\ hops'[r] = 0 /\ answers'[r] = {} /\ synthesized'[r] = {}
      BY <1>3, <1>4, <2>3 DEF Ask, Fresh, Inv, ReaderTypes
    <3>2. Visited(r)'[1] = key'[r]
      BY <1>4, <3>1, VisitsStep DEF Visited
    <3>3. OnItsWay(r)'
      BY <3>1, <3>2 DEF OnItsWay, Aliased, Synthesized, NamesOf
    <3> QED
      BY <2>3, <3>1, <3>3
  <2> QED
    BY <1>3, <2>1, <2>2, <2>3
<1>6. ReadersKept' /\ AnswersSnapshot'
  BY <1>5 DEF ReadersKept, AnswersSnapshot
<1>7. ReaderTypes'
  <2>1. CASE Canonical[q.name] = Invalid
    BY <1>1, <1>2, <2>1, ResolutionAssumption DEF Inv, ReaderTypes, Ask, Finish, state
  <2>2. CASE Canonical[q.name] # Invalid
    BY <1>1, <1>2, <1>3, <2>2 DEF Inv, ReaderTypes, Ask, state
  <2> QED
    BY <2>1, <2>2
<1> QED
  BY <1>1, <1>6, <1>7 DEF Inv

\* What Resolve answers where a lookup stands that goes on to no other name.
LEMMA HopEnds ==
  ASSUME Inv, NEW r \in Readers, phase[r] = "walking",
         Onward(Seen(r), key[r], question[r].kind) = NoName
  PROVE  LET values == Values(Seen(r), key[r])
             source == Source(Seen(r), key[r])
             all == answers[r] \cup Matching(values, question[r].kind)
         IN  Resolve(Seen(r), question[r]) =
               IF Spoilt(Seen(r), key[r]) THEN Failure
               ELSE Outcome(IF all = {} /\ source = NoName THEN "nxdomain" ELSE "answered",
                            all,
                            synthesized[r] \cup
                              IF source \in {key[r], NoName} THEN {} ELSE values)
<1> DEFINE h == hops[r]
           visit == Visited(r)
<1>1. /\ h \in 0..MaxHops - 1 /\ \A i \in 1..h + 1 : visit[i] \in Keys
      /\ Canonical[question[r].name] # Invalid /\ visit[h + 1] = key[r]
      /\ After(Seen(r), visit[h + 1], question[r].kind) = NoName
  BY Stands, NamesAssumption
<1>2. visit = Visits(Seen(r), Canonical[question[r].name], question[r].kind)
  BY DEF Visited
<1>3. /\ answers[r] = Aliased(Seen(r), visit, h)
      /\ synthesized[r] = Synthesized(Seen(r), NamesOf(visit, h))
  BY DEF Inv, ReadersKept, OnItsWay
<1> HIDE DEF h, visit
<1> QED
  BY <1>1, <1>2, <1>3, ResolveEnds

LEMMA MissingInv ==
  ASSUME Inv, NEW r \in Readers, Missing(r)
  PROVE  Inv'
<1>1. phase[r] = "walking" /\ SourceIn(r) = NoName
  BY DEF Missing
<1>2. Source(Seen(r), key[r]) = NoName /\ Values(Seen(r), key[r]) = {}
  BY <1>1, HopFinds
<1>3. /\ ~Spoilt(Seen(r), key[r])
      /\ Matching(Values(Seen(r), key[r]), question[r].kind) = {}
      /\ Onward(Seen(r), key[r], question[r].kind) = NoName
  BY <1>2 DEF Spoilt, Matching, Onward, Aliases
<1>4. Resolve(Seen(r), question[r]) =
        Outcome(IF answers[r] = {} THEN "nxdomain" ELSE "answered",
                answers[r], synthesized[r])
  BY <1>1, <1>2, <1>3, HopEnds
<1> DEFINE status == IF answers[r] = {} THEN "nxdomain" ELSE "answered"
<1>5. /\ Consult(r) /\ Finish(r, status, answers[r], synthesized[r])
      /\ UNCHANGED <<state, versions, question, snapshot>>
  BY DEF Missing
<1>6. status # "error"
  OBVIOUS
<1> HIDE DEF status
<1> QED
  BY <1>4, <1>5, <1>6, FinishInv DEF status

LEMMA FailToExpandInv ==
  ASSUME Inv, NEW r \in Readers, FailToExpand(r)
  PROVE  Inv'
<1>1. phase[r] = "walking" /\ SourceIn(r) # NoName /\ ~Expands(r)
  BY DEF FailToExpand, HasSource
<1>2. Found(r) = Values(Seen(r), key[r])
  BY <1>1, HopFinds
<1>3. Spoilt(Seen(r), key[r])
  BY <1>1, <1>2 DEF Expands, Spoilt
<1>4. Resolve(Seen(r), question[r]) = Failure
  BY <1>1, <1>3, HopEnds DEF Onward
<1> QED
  BY <1>4, FinishInv DEF FailToExpand

LEMMA MatchInv ==
  ASSUME Inv, NEW r \in Readers, Match(r)
  PROVE  Inv'
<1> DEFINE matching == Matching(Found(r), question[r].kind)
<1>1. /\ phase[r] = "walking" /\ SourceIn(r) # NoName /\ Expands(r)
      /\ matching # {} \/ Aliases(Found(r)) = {}
      /\ Consult(r) /\ Finish(r, "answered", answers[r] \cup matching, Made(r))
      /\ UNCHANGED <<state, versions, question, snapshot>>
  BY DEF Match, HasSource
<1>2. /\ Found(r) = Values(Seen(r), key[r]) /\ Source(Seen(r), key[r]) # NoName
      /\ Made(r) = synthesized[r] \cup
           IF Source(Seen(r), key[r]) \in {key[r], NoName} THEN {}
           ELSE Values(Seen(r), key[r])
  BY <1>1, HopFinds
<1>3. ~Spoilt(Seen(r), key[r])
  BY <1>1, <1>2 DEF Expands, Spoilt
<1>4. Onward(Seen(r), key[r], question[r].kind) = NoName
  BY <1>1, <1>2 DEF Onward
<1>5. Resolve(Seen(r), question[r]) = Outcome("answered", answers[r] \cup matching, Made(r))
  BY <1>1, <1>2, <1>3, <1>4, HopEnds
<1> HIDE DEF matching
<1> QED
  BY <1>1, <1>5, FinishInv

\* A question that goes on is one name further, unless it has gone too far.
LEMMA FollowInv ==
  ASSUME Inv, NEW r \in Readers, Follow(r)
  PROVE  Inv'
<1> DEFINE target == TargetOf(Found(r))
           h == hops[r]
           visit == Visited(r)
           recs == Seen(r)
<1>1. /\ phase[r] = "walking" /\ SourceIn(r) # NoName /\ Expands(r)
      /\ Matching(Found(r), question[r].kind) = {} /\ Aliases(Found(r)) # {}
      /\ Consult(r) /\ UNCHANGED <<state, versions, question, snapshot>>
  BY DEF Follow, HasSource
<1>2. /\ Found(r) = Values(recs, key[r])
      /\ Made(r) = synthesized[r] \cup
           IF Source(recs, key[r]) \in {key[r], NoName} THEN {} ELSE Values(recs, key[r])
  BY <1>1, HopFinds
<1>3. Onward(recs, key[r], question[r].kind) = target
  BY <1>1, <1>2 DEF Onward, Spoilt, Expands
<1>4. target \in Keys \cup {Invalid} /\ target # NoName
  BY <1>1, TargetType, ResolutionAssumption
<1>5. /\ h \in 0..MaxHops - 1 /\ \A i \in 1..h + 1 : visit[i] \in Keys
      /\ Canonical[question[r].name] \in Keys
      /\ visit[h + 1] = key[r] /\ visit[h + 2] = target
  BY <1>1, <1>3, Stands
<1>6. MaxHops \in Nat /\ h \in Nat /\ Counted(h) = h + 1 /\ (h + 1) + 1 = h + 2
      /\ \A i \in 1..h + 2 : i \in 1..h + 1 \/ i = h + 2
  BY <1>5, ResolutionAssumption DEF Counted
<1>7. CASE target = Invalid \/ IsLast(Counted(h))
  <2>1. target = Invalid \/ h + 1 = MaxHops
    BY <1>6, <1>7 DEF IsLast
  <2>2. visit = Visits(recs, Canonical[question[r].name], question[r].kind)
    BY DEF Visited
  <2>3. Resolve(recs, question[r]) = Failure
    <3> HIDE DEF recs, visit, h, target
    <3> QED
      BY <1>4, <1>5, <2>1, <2>2, ResolveFails
  <2>4. Finish(r, "error", {}, {})
    BY <1>7 DEF Follow
  <2> QED
    BY <1>1, <2>3, <2>4, FinishInv
<1>8. CASE ~(target = Invalid \/ IsLast(Counted(h)))
  <2>1. /\ key' = [key EXCEPT ![r] = target]
        /\ hops' = [hops EXCEPT ![r] = Counted(h)]
        /\ answers' = [answers EXCEPT ![r] = @ \cup Aliases(Found(r))]
        /\ synthesized' = [synthesized EXCEPT ![r] = Made(r)]
        /\ UNCHANGED <<phase, outcome>>
    BY <1>8 DEF Follow
  <2>2. target \in Keys /\ h + 1 \in 0..MaxHops - 1
    BY <1>4, <1>5, <1>6, <1>8 DEF IsLast
  <2>3. StateTypeOK' /\ IsFinite(records)' /\ VersionsKept'
    BY <1>1 DEF Inv, state, StateTypeOK, IsFinite, StoredPatterns, VersionsKept
  <2>4. PatternsKept'
    BY <1>1, ConsultKeeps DEF state
  <2>5. ReaderTypes'
    BY <1>1, <1>6, <2>1, <2>2 DEF Inv, ReaderTypes, state
  <2>6. OnItsWay(r)'
    <3>1. /\ key'[r] = target /\ hops'[r] = h + 1
          /\ answers'[r] = answers[r] \cup Aliases(Values(recs, key[r]))
          /\ synthesized'[r] = Made(r)
      BY <1>2, <1>6, <2>1 DEF Inv, ReaderTypes
    <3>2. Visited(r)' = visit /\ Seen(r)' = recs
      BY <1>1 DEF Visited, Seen
    <3>3. /\ answers[r] = Aliased(recs, visit, h)
          /\ synthesized[r] = Synthesized(recs, NamesOf(visit, h))
      BY <1>1 DEF Inv, ReadersKept, OnItsWay
    <3> HIDE DEF recs, visit, h, target
    <3>4. /\ answers'[r] = Aliased(recs, visit, h + 1)
          /\ synthesized'[r] = Synthesized(recs, NamesOf(visit, h + 1))
      <4>1. /\ Aliased(recs, visit, h + 1)
                = Aliased(recs, visit, h) \cup Aliases(Values(recs, visit[h + 1]))
            /\ Synthesized(recs, NamesOf(visit, h + 1))
                = Synthesized(recs, NamesOf(visit, h)) \cup
                    IF Source(recs, visit[h + 1]) \in {visit[h + 1], NoName} THEN {}
                    ELSE Values(recs, visit[h + 1])
        BY <1>6, OneMore
      <4> QED
        BY <1>2, <1>5, <3>1, <3>3, <4>1
    <3>5. \A i \in 1..(h + 1) + 1 : visit[i] \in Keys
      BY <1>5, <1>6, <2>2
    <3> QED
      BY <1>5, <1>6, <3>1, <3>2, <3>4, <3>5 DEF OnItsWay
  <2>7. ASSUME NEW s \in Readers
        PROVE  /\ (phase[s] = "walking" => OnItsWay(s))'
               /\ (phase[s] # "walking" => Fresh(s))'
               /\ (phase[s] = "done" =>
                     outcome[s] = Resolve(versions[snapshot[s]], question[s]))'
    <3>1. CASE s = r
      BY <1>1, <2>1, <2>6, <3>1
    <3>2. CASE s # r
      BY <1>1, <2>1, <3>2, OthersKept DEF Inv, ReaderTypes
    <3> QED
      BY <3>1, <3>2
  <2>8. ReadersKept' /\ AnswersSnapshot'
    BY <2>7 DEF ReadersKept, AnswersSnapshot
  <2> QED
    BY <2>3, <2>4, <2>5, <2>8 DEF Inv
<1> QED
  BY <1>7, <1>8

LEMMA NextInv ==
  ASSUME Inv, [Next]_vars
  PROVE  Inv'
<1>1. CASE UNCHANGED vars
  BY <1>1 DEF vars, Inv, StateTypeOK, IsFinite, StoredPatterns, VersionsKept, PatternsKept,
     ReaderTypes, ReadersKept, OnItsWay, Fresh, Seen, Visited, AnswersSnapshot
<1>2. CASE Next
  <2>1. ASSUME NEW j \in Jobs, Write(j) PROVE Inv'
    BY <2>1, WriteInv
  <2>2. ASSUME NEW r \in Readers, NEW q \in Asked, Ask(r, q) PROVE Inv'
    BY <2>2, AskInv
  <2>3. ASSUME NEW r \in Readers, Hop(r) PROVE Inv'
    BY <2>3, MissingInv, FailToExpandInv, MatchInv, FollowInv DEF Hop
  <2> QED
    BY <1>2, <2>1, <2>2, <2>3 DEF Next
<1> QED
  BY <1>1, <1>2

LEMMA Invariance == Spec => []Inv
<1>1. Init /\ [][Next]_vars => []Inv
  BY InitInv, NextInv, PTL
<1>2. Spec => Init /\ [][Next]_vars
  BY DEF Spec
<1> QED
  BY <1>1, <1>2, PTL

-----------------------------------------------------------------------------
(***************************************************************************)
(* Theorems.                                                               *)
(***************************************************************************)
\* The state has its types; above all, a lookup that is at a name is at one that the
\* store could hold, and has gone round its loop fewer than MaxHops times.
THEOREM TypeCorrect == Spec => []TypeOK
<1>1. Inv => TypeOK
  BY DEF Inv, ReaderTypes, VersionsKept, TypeOK
<1> QED
  BY <1>1, Invariance, PTL

\* The compiled patterns that lookups share are always those of the revision they are
\* filed under, all of them, in the order in which they apply, whichever lookups at
\* older and newer revisions took turns at replacing them (source_in).
THEOREM PatternsStayCoherent == Spec => []PatternsCoherent
<1>1. ASSUME Inv PROVE PatternsCoherent
  <2> SUFFICES ASSUME patterns # None
               PROVE  /\ ToSet(patterns.list) = StoredPatterns(versions[patterns.revision])
                      /\ \A i, j \in DOMAIN patterns.list :
                           i < j => Precedes(patterns.list[i], patterns.list[j])
    BY DEF PatternsCoherent
  <2> DEFINE seen == StoredPatterns(versions[patterns.revision])
             list == InOrder(seen)
  <2>1. patterns.list = list /\ IsFiniteSet(seen)
    BY <1>1 DEF Inv, PatternsKept, VersionsKept
  <2>2. seen \in SUBSET Patterns
    BY DEF StoredPatterns
  <2> HIDE DEF seen
  <2>3. /\ list \in Seq(seen)
        /\ \A i, j \in DOMAIN list : i < j => Precedes(list[i], list[j])
        /\ \A p \in seen : \E i \in DOMAIN list : list[i] = p
    BY <2>1, <2>2, InOrderSorts
  <2> HIDE DEF list
  <2>4. ToSet(list) = seen
    BY <2>3 DEF ToSet
  <2> QED
    BY <2>1, <2>3, <2>4 DEF seen
<1> QED
  BY <1>1, Invariance, PTL

\* Every lookup answers what the content it began on answers, hop by hop what Resolve
\* defines in one piece, whatever is committed and whichever other lookups replace
\* the compiled patterns while it runs (Store::lookup).
THEOREM LookupsAnswerSnapshots == Spec => []AnswersSnapshot
<1>1. Inv => AnswersSnapshot
  BY DEF Inv
<1> QED
  BY <1>1, Invariance, PTL
=============================================================================
