----------------------------- MODULE StoreState -----------------------------
(***************************************************************************)
(* The committed content of the record store and what a whole job does to  *)
(* it, all at once: what the readers of the store see of its writers.      *)
(***************************************************************************)
EXTENDS Records

VARIABLES
  records,      \* the records of every key
  modes,        \* the ordering policy of every RRset
  revision      \* the revision of both

state == <<records, modes, revision>>

StateTypeOK ==
  /\ records \in [Keys -> SUBSET Stored]
  /\ modes \in [RRsets -> Modes \cup {NoMode}]
  /\ revision \in 0..MaxRevision

StateInit ==
  /\ records \in [Keys -> {{}} \cup {Decode(v) : v \in Legacy}]
  /\ \A p \in Patterns : records[p] = {}
  /\ modes = [rrset \in RRsets |-> NoMode]
  /\ revision = 0

(***************************************************************************)
(* The effect of a whole job on the records, the policies, and its answer. *)
(***************************************************************************)
Accepts(j) ==
  /\ IsWellFormed(j)
  /\ j.op = "write" => \A k \in BatchKeys(j.batch) :
       Fits(records[k], Incoming(j.batch, k), j.replace, j.mode)

RecordsAfter(j) ==
  [k \in Keys |->
     IF k \notin KeysOf(j) THEN records[k]
     ELSE IF j.op = "write"
          THEN Merge(records[k], Incoming(j.batch, k), j.replace)
          ELSE records[k] \ Doomed(records[k], j)]

ModesAfter(j) ==
  [rrset \in RRsets |->
     LET k == rrset[1] IN
     IF k \notin KeysOf(j) THEN modes[rrset]
     ELSE IF j.op = "write"
          THEN IF j.mode # NoMode /\ rrset[2] \in KindsOf(Incoming(j.batch, k))
               THEN j.mode ELSE modes[rrset]
          ELSE IF rrset[2] \in Dropped(records[k], j) THEN NoMode ELSE modes[rrset]]

\* upsert counts as a change whatever it replaces.
IsChange(j) ==
  \/ j.op = "write" /\ j.replace /\ j.batch # <<>>
  \/ RecordsAfter(j) # records
  \/ ModesAfter(j) # modes

\* upsert answers how many records it was given, add how many of them are new,
\* delete how many it removed.
Count(j) ==
  CASE j.op = "write" /\ j.replace  -> Len(j.batch)
    [] j.op = "write" /\ ~j.replace ->
         Cardinality(UNION {{<<k, r>> : r \in RecordsAfter(j)[k] \ records[k]} : k \in Keys})
    [] j.op = "delete" ->
         Cardinality(UNION {{<<k, r>> : r \in records[k] \ RecordsAfter(j)[k]} : k \in Keys})

Take(j) ==
  /\ Accepts(j)
  /\ IsChange(j) => revision < MaxRevision
  /\ records' = RecordsAfter(j)
  /\ modes' = ModesAfter(j)
  /\ revision' = IF IsChange(j) THEN revision + 1 ELSE revision
=============================================================================
