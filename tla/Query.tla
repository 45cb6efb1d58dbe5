-------------------------------- MODULE Query --------------------------------
(***************************************************************************)
(* Lookups in the store, concurrent with its writers: Store::lookup and    *)
(* source_in in src/src/dnslogic/store.rs. A lookup reads one snapshot of  *)
(* LMDB for as long as it runs. The compiled patterns are shared by all    *)
(* lookups, whatever snapshot each of them reads, and are those of one     *)
(* revision.                                                               *)
(***************************************************************************)
EXTENDS StoreState, Resolution, SequencesExt

CONSTANTS Readers, Asked, None

ASSUME AskedAssumption == Asked \subseteq Questions /\ Asked # {}

VARIABLES
  versions,    \* the records at every revision so far, as LMDB keeps them for readers
  patterns,    \* the compiled patterns: a revision and its patterns in order, or None
  phase,       \* per reader: idle, walking or done
  question,    \* per reader: what it was asked
  snapshot,    \* per reader: the revision its read transaction sees
  key,         \* per reader: the name its lookup is at
  hops,        \* per reader: how often it went round the loop
  answers, synthesized,   \* per reader: what it collected
  outcome      \* per reader: what it answered

walk == <<key, hops, answers, synthesized>>
vars == <<records, modes, revision, versions, patterns, phase, question, snapshot,
          key, hops, answers, synthesized, outcome>>

Init ==
  /\ StateInit
  /\ versions = [n \in {0} |-> records]
  /\ patterns = None
  /\ phase = [r \in Readers |-> "idle"]
  /\ question = [r \in Readers |-> CHOOSE q \in Asked : TRUE]
  /\ snapshot = [r \in Readers |-> 0]
  /\ key = [r \in Readers |-> NoName]
  /\ hops = [r \in Readers |-> 0]
  /\ answers = [r \in Readers |-> {}]
  /\ synthesized = [r \in Readers |-> {}]
  /\ outcome = [r \in Readers |-> Failure]

\* A writer's commit; a job that changes nothing is no step here.
Write(j) ==
  /\ IsChange(j)
  /\ Take(j)
  /\ versions' = [n \in 0..revision' |-> IF n = revision' THEN records' ELSE versions[n]]
  /\ UNCHANGED <<patterns, phase, question, snapshot, walk, outcome>>

-----------------------------------------------------------------------------
Finish(r, status, all, made) ==
  /\ phase' = [phase EXCEPT ![r] = "done"]
  /\ outcome' = [outcome EXCEPT ![r] =
       IF status = "error" THEN Failure ELSE Outcome(status, all, made)]
  /\ key' = [key EXCEPT ![r] = NoName]
  /\ hops' = [hops EXCEPT ![r] = 0]
  /\ answers' = [answers EXCEPT ![r] = {}]
  /\ synthesized' = [synthesized EXCEPT ![r] = {}]

\* begin_ro_txn, and the first canonical.
Ask(r, q) ==
  /\ phase[r] # "walking"
  /\ question' = [question EXCEPT ![r] = q]
  /\ snapshot' = [snapshot EXCEPT ![r] = revision]
  /\ IF Canonical[q.name] = Invalid
     THEN Finish(r, "error", {}, {})
     ELSE /\ phase' = [phase EXCEPT ![r] = "walking"]
          /\ key' = [key EXCEPT ![r] = Canonical[q.name]]
          /\ outcome' = [outcome EXCEPT ![r] = Failure]
          /\ UNCHANGED <<hops, answers, synthesized>>
  /\ UNCHANGED <<state, versions, patterns>>

\* Faulty variant: compiled patterns are recompiled only for a newer revision.
IsOlder(rev) == IF patterns = None THEN TRUE ELSE patterns.revision < rev

IsStale(rev) == IF patterns = None THEN TRUE ELSE patterns.revision # rev

\* The compiled patterns after a lookup at this revision had them locked.
Compiled(rev) ==
  IF IsStale(rev)
  THEN [revision |-> rev, list |-> InOrder(StoredPatterns(versions[rev]))]
  ELSE patterns

\* source_in finds the name itself in its snapshot, and the patterns stay as
\* they are; else the first compiled pattern that matches answers for it.
IsExact(r) == versions[snapshot[r]][key[r]] # {}
FirstMatch(r) ==
  LET list == Compiled(snapshot[r]).list
      i    == SelectInSeq(list, LAMBDA p : key[r] \in Matches[p])
  IN  IF i = 0 THEN NoName ELSE list[i]

Consult(r) ==
  patterns' = IF IsExact(r) THEN patterns ELSE Compiled(snapshot[r])

SourceIn(r) == IF IsExact(r) THEN key[r] ELSE FirstMatch(r)

\* The records of the source, and all the records synthesized so far.
Found(r) ==
  IF IsExact(r) THEN Verbatim(versions[snapshot[r]], key[r])
  ELSE Materialized(versions[snapshot[r]], FirstMatch(r), key[r])
Made(r) == synthesized[r] \cup IF IsExact(r) THEN {} ELSE Found(r)

-----------------------------------------------------------------------------
\* One round of the loop ends the lookup ...
Missing(r) ==
  /\ phase[r] = "walking"
  /\ SourceIn(r) = NoName
  /\ Consult(r)
  /\ Finish(r, IF answers[r] = {} THEN "nxdomain" ELSE "answered",
            answers[r], synthesized[r])
  /\ UNCHANGED <<state, versions, question, snapshot>>

HasSource(r) == phase[r] = "walking" /\ SourceIn(r) # NoName
Expands(r) == \A v \in Found(r) : v.data # Invalid

FailToExpand(r) ==
  /\ HasSource(r)
  /\ ~Expands(r)
  /\ Consult(r)
  /\ Finish(r, "error", {}, {})
  /\ UNCHANGED <<state, versions, question, snapshot>>

Match(r) ==
  LET matching == Matching(Found(r), question[r].kind) IN
  /\ HasSource(r)
  /\ Expands(r)
  /\ matching # {} \/ Aliases(Found(r)) = {}
  /\ Consult(r)
  /\ Finish(r, "answered", answers[r] \cup matching, Made(r))
  /\ UNCHANGED <<state, versions, question, snapshot>>

\* Faulty variants: the loop forgets to count, or counts one round too many.
Uncounted(n) == n
IsPastLast(n) == n = MaxHops + 1

Counted(n) == n + 1
IsLast(n) == n = MaxHops

\* ... or goes on with the target of a CNAME, unless it was the last round.
Follow(r) ==
  LET target == TargetOf(Found(r)) IN
  /\ HasSource(r)
  /\ Expands(r)
  /\ Matching(Found(r), question[r].kind) = {}
  /\ Aliases(Found(r)) # {}
  /\ Consult(r)
  /\ IF target = Invalid \/ IsLast(Counted(hops[r]))
     THEN Finish(r, "error", {}, {})
     ELSE /\ key' = [key EXCEPT ![r] = target]
          /\ hops' = [hops EXCEPT ![r] = Counted(hops[r])]
          /\ answers' = [answers EXCEPT ![r] = @ \cup Aliases(Found(r))]
          /\ synthesized' = [synthesized EXCEPT ![r] = Made(r)]
          /\ UNCHANGED <<phase, outcome>>
  /\ UNCHANGED <<state, versions, question, snapshot>>

Hop(r) == Missing(r) \/ FailToExpand(r) \/ Match(r) \/ Follow(r)

Next ==
  \/ \E j \in Jobs : Write(j)
  \/ \E r \in Readers : (\E q \in Asked : Ask(r, q)) \/ Hop(r)

\* A lookup runs on a thread of its own and waits for nothing but the mutex of
\* the compiled patterns, which is held within a step.
Fairness == \A r \in Readers : WF_vars(Hop(r))
Spec == Init /\ [][Next]_vars /\ Fairness

-----------------------------------------------------------------------------
\* The types of the state: a lookup goes round its loop MaxHops times at most.
TypeOK ==
  /\ StateTypeOK
  /\ DOMAIN versions = 0..revision
  /\ phase \in [Readers -> {"idle", "walking", "done"}]
  /\ question \in [Readers -> Asked]
  /\ snapshot \in [Readers -> 0..revision]
  /\ key \in [Readers -> Keys \cup {NoName}]
  /\ hops \in [Readers -> 0..MaxHops - 1]

\* The compiled patterns are those of the revision they are filed under, in the
\* order in which they apply, though lookups at older and newer revisions take
\* turns at replacing them.
PatternsCoherent ==
  patterns # None =>
    /\ ToSet(patterns.list) = StoredPatterns(versions[patterns.revision])
    /\ \A i, j \in DOMAIN patterns.list :
         i < j => Precedes(patterns.list[i], patterns.list[j])

\* A lookup answers what the content it started on answers, whatever is written
\* and whichever other lookups replace the compiled patterns while it runs.
AnswersSnapshot ==
  \A r \in Readers : phase[r] = "done" =>
    outcome[r] = Resolve(versions[snapshot[r]], question[r])

\* A lookup ends, in a loop of CNAMEs too.
LookupsEnd == \A r \in Readers : phase[r] = "walking" ~> phase[r] = "done"

\* README.md says of patterns: "pattern values use a root owner placeholder,
\* replaced by the queried name in responses".
OwnersReplaced ==
  \A r \in Readers : \A a \in outcome[r].answers : a.owner # Root
=============================================================================
