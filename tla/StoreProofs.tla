----------------------------- MODULE StoreProofs -----------------------------
(***************************************************************************)
(* The record store for any number of writers, names, types and jobs: its  *)
(* types, the consistency of the stored names, the ownership of ordering   *)
(* policies, the revision as a guard of what readers cache, and that its   *)
(* transactions implement the whole jobs of StorePromise. Then the clients *)
(* of module Batch, which run their items on it one by one.                *)
(***************************************************************************)
EXTENDS Batch, RecordsProofs

(***************************************************************************)
(* The inductive invariant. NamesConsistent and PoliciesOwned speak of what*)
(* is committed, and a commit publishes the transaction's view: the view   *)
(* must obey the same rules while a job is half done. Finiteness is what   *)
(* makes the answer of a deletion a number.                                *)
(***************************************************************************)
FiniteNames(values) == \A k \in Keys : IsFiniteSet(Contents(values[k]))
Finite == FiniteNames(db) /\ FiniteNames(txnDb) /\ IsFiniteSet(fresh)

Inv == TypeOK /\ NamesConsistent /\ PoliciesOwned /\ TransactionSound /\ Finite

-----------------------------------------------------------------------------
\* A database a server opens, old values in it included, obeys the rules.
LEMMA InitInv == Init => Inv
<1> SUFFICES ASSUME Init PROVE Inv
  OBVIOUS
<1>1. \A v \in Legacy : v \in Value /\ v # Absent /\ v.format = "text"
  BY LegacyAssumption, AbsentAssumption DEF Value, Text
<1>2. TypeOK
  <2>1. db \in [Keys -> Value \cup {Absent}] /\ txnDb = db
    BY <1>1 DEF Init
  <2>2. NoReply \in Replies
    BY DEF NoReply, Replies, Statuses
  <2>3. revision \in 0..MaxRevision
    BY JobsAssumption DEF Init
  <2> QED BY <2>1, <2>2, <2>3 DEF Init, TypeOK
<1>3. \A v \in Legacy : IsConsistent(Decode(v))
  <2> SUFFICES ASSUME NEW v \in Legacy PROVE IsConsistent(Decode(v))
    OBVIOUS
  <2>1. \A r \in Decode(v) : r.kind \in {"A", "AAAA"}
    BY <1>1, LegacyAssumption, DataAssumption DEF Decode, FromLine, Text, Line
  <2> QED BY <2>1, LegacyAssumption DEF IsConsistent, SoleCname
<1>4. ConsistentNames(db)
  BY <1>1, <1>3, LegacyAssumption DEF Init, ConsistentNames
<1>5. OwnedPolicies(modes, db)
  BY DEF Init, OwnedPolicies, RRsets
<1>6. FiniteNames(db)
  BY <1>1, LegacyAssumption, FS_EmptySet DEF Init, FiniteNames, Contents
<1> QED
  BY <1>2, <1>4, <1>5, <1>6, FS_EmptySet
  DEF Init, Inv, NamesConsistent, PoliciesOwned, TransactionSound, Finite

\* A transaction that is dropped leaves the view of what is committed.
LEMMA DropTxnInv ==
  ASSUME Inv, DropTxn, UNCHANGED committed,
         job' \in [Writers -> Jobs \cup {Idle}], reply' \in [Writers -> Replies]
  PROVE  Inv'
<1>1. TypeOK'
  BY DEF Inv, TypeOK, DropTxn, committed
<1>2. TransactionSound'
  BY DEF Inv, NamesConsistent, PoliciesOwned, TransactionSound, DropTxn, committed,
         ConsistentNames, OwnedPolicies
<1> QED
  BY <1>1, <1>2, FS_EmptySet
  DEF Inv, NamesConsistent, PoliciesOwned, Finite, FiniteNames, DropTxn, committed,
      ConsistentNames, OwnedPolicies

\* A handler that is answered has no job any more.
LEMMA AnswerType ==
  ASSUME TypeOK, NEW w \in Writers, NEW r \in Replies, Answer(w, r)
  PROVE  job' \in [Writers -> Jobs \cup {Idle}] /\ reply' \in [Writers -> Replies]
BY DEF TypeOK, Answer

\* An answer without a count is an answer.
LEMMA RepliedType ==
  ASSUME NEW error \in Statuses
  PROVE  Replied(error) \in Replies
BY DEF Replied, Replies

\* A new job touches neither what is committed nor the open transaction.
LEMMA SubmitInv ==
  ASSUME Inv, NEW w \in Writers, NEW j \in Jobs, Submit(w, j)
  PROVE  Inv'
<1>1. lock # NoWriter => lock # w
  BY DEF Inv, TransactionSound, Submit
<1>2. lock # NoWriter => job'[lock] = job[lock]
  BY <1>1 DEF Inv, TypeOK, Submit
<1>3. TypeOK'
  BY DEF Inv, TypeOK, Submit, committed, txn, NoReply, Replies, Statuses
<1> QED
  BY <1>2, <1>3
  DEF Inv, NamesConsistent, PoliciesOwned, TransactionSound, Finite, FiniteNames,
      ConsistentNames, OwnedPolicies, Submit, committed, txn

\* A job refused before its transaction leaves that of another writer alone.
LEMMA RejectInv ==
  ASSUME Inv, NEW w \in Writers, Reject(w)
  PROVE  Inv'
<1>1. lock # NoWriter => job'[lock] = job[lock]
  BY DEF Inv, TypeOK, Reject, Answer
<1>2. job' \in [Writers -> Jobs \cup {Idle}] /\ reply' \in [Writers -> Replies]
  BY AnswerType, RepliedType DEF Inv, Reject, Statuses
<1>3. TypeOK'
  BY <1>2 DEF Inv, TypeOK, Reject, committed, txn
<1> QED
  BY <1>1, <1>3
  DEF Inv, NamesConsistent, PoliciesOwned, TransactionSound, Finite, FiniteNames,
      ConsistentNames, OwnedPolicies, Reject, committed, txn

-----------------------------------------------------------------------------
(***************************************************************************)
(* What is known of the job of the transaction that is open.               *)
(***************************************************************************)
LEMMA JobKeys ==
  ASSUME NEW j \in Jobs, IsWellFormed(j)
  PROVE  KeysOf(j) \subseteq Keys
<1>1. CASE j.op = "write"
  <2>1. j.batch \in Seq(Inputs) /\ IsDecodable(j.batch)
    BY <1>1, JobsAssumption DEF WriteJob, DeleteJob, IsWellFormed
  <2> QED BY <1>1, <2>1, IncomingType DEF KeysOf
<1>2. CASE j.op # "write"
  <2>1. j.name \in Spellings
    BY <1>2, JobsAssumption DEF WriteJob, DeleteJob
  <2> QED BY <1>2, <2>1, NamesAssumption DEF KeysOf, IsWellFormed
<1> QED BY <1>1, <1>2

\* A transaction starts on what is committed, for a job that is well formed.
LEMMA BeginInv ==
  ASSUME Inv, NEW w \in Writers, Begin(w)
  PROVE  Inv'
<1>1. job[w] \in Jobs /\ IsWellFormed(job[w])
  BY DEF Inv, TypeOK, Begin
<1>2. TypeOK'
  BY <1>1, JobKeys DEF Inv, TypeOK, Begin, committed
<1> QED
  BY <1>1, <1>2, JobsAssumption
  DEF Inv, NamesConsistent, PoliciesOwned, TransactionSound, Finite, FiniteNames,
      ConsistentNames, OwnedPolicies, Begin, committed, IsWellFormed, KeysOf

(***************************************************************************)
(* Staging one name: if its new records are fit to be stored and no policy *)
(* is left without records, the view stays sound. Both kinds of jobs stage *)
(* their names through this lemma.                                         *)
(***************************************************************************)
LEMMA StageSound ==
  ASSUME TypeOK, ConsistentNames(txnDb), OwnedPolicies(txnModes, txnDb),
         FiniteNames(txnDb),
         NEW k \in Keys, NEW new \in SUBSET Stored,
         IsFiniteSet(new), IsConsistent(new),
         txnDb' = [txnDb EXCEPT ![k] = EncodeOrRemove(new)],
         txnModes' \in [RRsets -> Modes \cup {NoMode}],
         \A i \in Keys \ {k}, kind \in Kinds : txnModes'[<<i, kind>>] = txnModes[<<i, kind>>],
         \A kind \in Kinds : txnModes'[<<k, kind>>] # NoMode =>
           kind \in KindsOf(new) /\ (txnModes'[<<k, kind>>] = "geo" => kind \in {"A", "AAAA"})
  PROVE  /\ txnDb' \in [Keys -> Value \cup {Absent}]
         /\ ConsistentNames(txnDb')
         /\ OwnedPolicies(txnModes', txnDb')
         /\ FiniteNames(txnDb')
<1>1. EncodeOrRemove(new) \in Value \cup {Absent} /\ Contents(EncodeOrRemove(new)) = new
  BY CodecRoundTrip, ContentsOfEncode DEF EncodeOrRemove, Contents
<1>2. txnDb' \in [Keys -> Value \cup {Absent}]
  BY <1>1 DEF TypeOK
<1>3. /\ Contents(txnDb'[k]) = new
      /\ \A i \in Keys \ {k} : txnDb'[i] = txnDb[i]
  BY <1>1 DEF TypeOK
<1>4. ConsistentNames(txnDb')
  <2> SUFFICES ASSUME NEW i \in Keys, txnDb'[i] # Absent
               PROVE  Decode(txnDb'[i]) # {} /\ IsConsistent(Decode(txnDb'[i]))
    BY DEF ConsistentNames
  <2>1. CASE i = k
    <3>1. txnDb'[k] = EncodeOrRemove(new)
      BY DEF TypeOK
    <3>2. new # {}
      BY <2>1, <3>1 DEF EncodeOrRemove
    <3>3. Decode(txnDb'[i]) = new
      BY <2>1, <1>3 DEF Contents
    <3> QED BY <3>2, <3>3
  <2>2. CASE i # k
    BY <2>2, <1>3 DEF ConsistentNames
  <2> QED BY <2>1, <2>2
<1>5. OwnedPolicies(txnModes', txnDb')
  <2> SUFFICES ASSUME NEW i \in Keys, NEW kind \in Kinds, txnModes'[<<i, kind>>] # NoMode
               PROVE  /\ kind \in KindsOf(Contents(txnDb'[i]))
                      /\ txnModes'[<<i, kind>>] = "geo" => kind \in {"A", "AAAA"}
    BY DEF OwnedPolicies
  <2>1. CASE i = k
    BY <2>1, <1>3
  <2>2. CASE i # k
    BY <2>2, <1>3 DEF OwnedPolicies
  <2> QED BY <2>1, <2>2
<1>6. FiniteNames(txnDb')
  BY <1>3 DEF FiniteNames
<1> QED BY <1>2, <1>4, <1>5, <1>6

\* The records and policies of a name after one step of an add or upsert.
LEMMA WriteInv ==
  ASSUME Inv, NEW w \in Writers, NEW k \in Keys, Write(w, k)
  PROVE  Inv'
<1> DEFINE j == job[w]
           old == Contents(txnDb[k])
           incoming == Incoming(j.batch, k)
           new == Merge(old, incoming, j.replace)
           puts == j.replace \/ new # old
<1> USE DEF committed
<1>1. /\ lock = w /\ j.op = "write" /\ k \in todo
      /\ Fits(old, incoming, j.replace, j.mode)
      /\ UNCHANGED <<committed, lock, job, reply>>
  BY DEF Write
<1>2. /\ j \in Jobs /\ IsWellFormed(j) /\ k \in BatchKeys(j.batch)
      /\ j.batch \in Seq(Inputs) /\ j.replace \in BOOLEAN
      /\ j.mode \in Modes \cup {NoMode}
  <2>1. lock # NoWriter
    BY <1>1, WriterAssumption
  <2>2. j \in Jobs /\ IsWellFormed(j) /\ todo \subseteq KeysOf(j)
    BY <1>1, <2>1 DEF Inv, TypeOK, TransactionSound
  <2>3. j \in WriteJob
    BY <1>1, <2>2, JobsAssumption DEF DeleteJob
  <2> QED BY <1>1, <2>2, <2>3 DEF KeysOf, WriteJob
<1>3. incoming \subseteq Stored /\ IsFiniteSet(incoming) /\ incoming # {}
  BY <1>1, <1>2, IncomingType DEF IsWellFormed
<1>4. old \subseteq Stored /\ IsFiniteSet(old)
  BY ContentsType DEF Inv, TypeOK, Finite, FiniteNames
<1>5. /\ new \in SUBSET Stored /\ IsFiniteSet(new) /\ new # {}
      /\ incoming \subseteq new
      /\ KindsOf(old) \subseteq KindsOf(new)
  <2>1. new \subseteq old \cup incoming /\ incoming \subseteq new
    BY <1>2 DEF Merge, Retained
  <2>2. IsFiniteSet(new)
    BY <1>3, <1>4, <2>1, FS_Union, FS_Subset
  <2>3. KindsOf(old) \subseteq KindsOf(new)
    BY <1>2 DEF Merge, Retained, KindsOf
  <2> QED BY <1>3, <1>4, <2>1, <2>2, <2>3
<1>6. IsConsistent(new) /\ ModeFits(j.mode, incoming)
  BY <1>1 DEF Fits
<1>7. txnDb' = [txnDb EXCEPT ![k] = IF puts THEN Encode(new) ELSE @]
  BY DEF Write, Inv, TypeOK
<1>8. txnModes' = [rrset \in RRsets |->
        IF j.mode # NoMode /\ rrset[1] = k /\ rrset[2] \in KindsOf(incoming)
        THEN j.mode ELSE txnModes[rrset]]
  BY DEF Write
<1>9. changed' = (changed \/ puts \/ txnModes' # txnModes)
  BY DEF Write, CountsAsChange
<1>10. fresh' = (IF j.replace THEN fresh ELSE fresh \cup {<<k, r>> : r \in new \ old})
  BY DEF Write
<1>11. todo' = todo \ {k}
  BY DEF Write
<1> HIDE DEF old, incoming, new, puts
<1>12. txnModes' \in [RRsets -> Modes \cup {NoMode}]
  BY <1>2, <1>8 DEF Inv, TypeOK
<1>13. \A i \in Keys \ {k}, kind \in Kinds : txnModes'[<<i, kind>>] = txnModes[<<i, kind>>]
  BY <1>8 DEF RRsets
<1>14. ASSUME NEW kind \in Kinds, txnModes'[<<k, kind>>] # NoMode
       PROVE  /\ kind \in KindsOf(new)
              /\ txnModes'[<<k, kind>>] = "geo" => kind \in {"A", "AAAA"}
  <2>1. CASE j.mode # NoMode /\ kind \in KindsOf(incoming)
    <3>1. txnModes'[<<k, kind>>] = j.mode
      BY <1>8, <2>1 DEF RRsets
    <3>2. kind \in KindsOf(new)
      BY <1>5, <2>1 DEF KindsOf
    <3> QED BY <1>6, <2>1, <3>1, <3>2 DEF ModeFits
  <2>2. CASE ~(j.mode # NoMode /\ kind \in KindsOf(incoming))
    <3>1. txnModes'[<<k, kind>>] = txnModes[<<k, kind>>]
      BY <1>8, <2>2 DEF RRsets
    <3> QED BY <1>5, <1>14, <3>1 DEF Inv, TransactionSound, OwnedPolicies, old
  <2> QED BY <2>1, <2>2
<1>15. /\ txnDb' \in [Keys -> Value \cup {Absent}]
       /\ ConsistentNames(txnDb')
       /\ OwnedPolicies(txnModes', txnDb')
       /\ FiniteNames(txnDb')
  <2>1. CASE puts
    <3>1. txnDb' = [txnDb EXCEPT ![k] = EncodeOrRemove(new)]
      BY <1>5, <1>7, <2>1 DEF EncodeOrRemove
    <3> QED
      BY <1>5, <1>6, <1>12, <1>13, <1>14, <3>1, StageSound
      DEF Inv, TransactionSound, Finite
  <2>2. CASE ~puts
    <3>1. txnDb' = txnDb /\ new = old
      BY <1>7, <2>2 DEF puts, Inv, TypeOK
    <3>2. OwnedPolicies(txnModes', txnDb')
      BY <1>13, <1>14, <3>1 DEF Inv, TransactionSound, OwnedPolicies, old
    <3> QED
      BY <3>1, <3>2 DEF Inv, TypeOK, TransactionSound, Finite, FiniteNames, ConsistentNames
  <2> QED BY <2>1, <2>2
<1>16. fresh' \subseteq Keys \X Stored /\ IsFiniteSet(fresh')
  <2> DEFINE added == {<<k, r>> : r \in new \ old}
  <2>1. IsFiniteSet(new \ old)
    BY <1>5, FS_Subset, new \ old \subseteq new
  <2>2. IsFiniteSet(added)
    <3> DEFINE f == [r \in new \ old |-> <<k, r>>]
    <3>1. f \in Surjection(new \ old, added)
      BY DEF Surjection
    <3> QED BY <2>1, <3>1, FS_Surjection
  <2>3. added \subseteq Keys \X Stored
    BY <1>5
  <2>4. IsFiniteSet(fresh \cup added)
    BY <2>2, FS_Union DEF Inv, Finite
  <2> QED BY <1>10, <2>3, <2>4 DEF Inv, TypeOK, Finite
<1>17. ~changed' => txnDb' = db' /\ txnModes' = modes'
  <2> SUFFICES ASSUME ~changed' PROVE txnDb' = db' /\ txnModes' = modes'
    OBVIOUS
  <2>1. ~changed /\ ~puts /\ txnModes' = txnModes
    BY <1>9
  <2>2. txnDb' = txnDb
    BY <1>7, <2>1 DEF Inv, TypeOK
  <2> QED BY <1>1, <2>1, <2>2 DEF Inv, TransactionSound
<1>18. TypeOK'
  BY <1>1, <1>9, <1>11, <1>12, <1>15, <1>16 DEF Inv, TypeOK
<1>19. TransactionSound'
  BY <1>1, <1>11, <1>15, <1>17 DEF Inv, TransactionSound
<1> QED
  BY <1>1, <1>15, <1>16, <1>18, <1>19
  DEF Inv, NamesConsistent, PoliciesOwned, Finite, FiniteNames, ConsistentNames, OwnedPolicies

\* The records and policies of a name after a deletion.
LEMMA DeleteInv ==
  ASSUME Inv, NEW w \in Writers, NEW k \in Keys, Delete(w, k)
  PROVE  Inv'
<1> DEFINE j == job[w]
           old == Contents(txnDb[k])
           gone == Doomed(old, j)
           left == old \ gone
<1> USE DEF committed
<1>1. /\ lock = w /\ k \in todo /\ todo' = todo \ {k}
      /\ UNCHANGED <<committed, lock, job, reply>>
  BY DEF Delete
<1>2. CASE gone = {}
  <2>1. UNCHANGED <<txnDb, txnModes, changed, fresh>>
    BY <1>2 DEF Delete
  <2> QED
    BY <1>1, <2>1
    DEF Inv, TypeOK, NamesConsistent, PoliciesOwned, TransactionSound, Finite,
        FiniteNames, ConsistentNames, OwnedPolicies
<1>3. CASE gone # {}
  <2>1. /\ txnDb' = [txnDb EXCEPT ![k] = EncodeOrRemove(left)]
        /\ txnModes' = [rrset \in RRsets |->
             IF rrset[1] = k /\ rrset[2] \in Dropped(old, j)
             THEN NoMode ELSE txnModes[rrset]]
        /\ changed' = TRUE
        /\ fresh' = {<<k, r>> : r \in gone}
    BY <1>3 DEF Delete
  <2>2. old \subseteq Stored /\ IsFiniteSet(old)
    BY ContentsType DEF Inv, TypeOK, Finite, FiniteNames
  <2>3. gone \subseteq old
    BY DEF Doomed, Considered
  <2>4. left \in SUBSET Stored /\ IsFiniteSet(left) /\ IsFiniteSet(gone)
    BY <2>2, <2>3, FS_Subset, left \subseteq old
  <2>5. IsConsistent(left)
    <3>1. IsConsistent(old)
      BY DEF Inv, TransactionSound, ConsistentNames, Contents, IsConsistent, UniformTTL,
             SoleCname
    <3> QED BY <3>1, ConsistentSubset, left \subseteq old
  <2>6. \A kind \in Kinds :
          kind \in KindsOf(old) /\ kind \notin Dropped(old, j) => kind \in KindsOf(left)
    BY DEF Dropped, Doomed, KindsOf
  <2> HIDE DEF old, gone, left, j
  <2>7. txnModes' \in [RRsets -> Modes \cup {NoMode}]
    BY <2>1 DEF Inv, TypeOK
  <2>8. \A i \in Keys \ {k}, kind \in Kinds :
          txnModes'[<<i, kind>>] = txnModes[<<i, kind>>]
    BY <2>1 DEF RRsets
  <2>9. ASSUME NEW kind \in Kinds, txnModes'[<<k, kind>>] # NoMode
        PROVE  /\ kind \in KindsOf(left)
               /\ txnModes'[<<k, kind>>] = "geo" => kind \in {"A", "AAAA"}
    <3>1. kind \notin Dropped(old, j) /\ txnModes'[<<k, kind>>] = txnModes[<<k, kind>>]
      BY <2>1, <2>9 DEF RRsets
    <3> QED BY <2>6, <2>9, <3>1 DEF Inv, TransactionSound, OwnedPolicies, old
  <2>10. /\ txnDb' \in [Keys -> Value \cup {Absent}]
         /\ ConsistentNames(txnDb')
         /\ OwnedPolicies(txnModes', txnDb')
         /\ FiniteNames(txnDb')
    BY <2>1, <2>4, <2>5, <2>7, <2>8, <2>9, StageSound DEF Inv, TransactionSound, Finite
  <2>11. fresh' \subseteq Keys \X Stored /\ IsFiniteSet(fresh')
    <3> DEFINE f == [r \in gone |-> <<k, r>>]
    <3>1. f \in Surjection(gone, fresh')
      BY <2>1 DEF Surjection
    <3>2. IsFiniteSet(fresh')
      BY <2>4, <3>1, FS_Surjection
    <3> QED BY <2>1, <2>2, <2>3, <3>2
  <2>12. TypeOK'
    BY <1>1, <2>1, <2>7, <2>10, <2>11 DEF Inv, TypeOK
  <2>13. TransactionSound'
    BY <1>1, <2>1, <2>10 DEF Inv, TransactionSound
  <2> QED
    BY <1>1, <2>10, <2>11, <2>12, <2>13
    DEF Inv, NamesConsistent, PoliciesOwned, Finite, FiniteNames, ConsistentNames,
        OwnedPolicies
<1> QED BY <1>2, <1>3

-----------------------------------------------------------------------------
\* A commit publishes a view that is sound already.
LEMMA CommitInv ==
  ASSUME Inv, NEW w \in Writers, Commit(w)
  PROVE  Inv'
<1>1. lock = w /\ lock # NoWriter
  BY WriterAssumption DEF Commit
<1>2. job[w] \in Jobs
  BY <1>1 DEF Inv, TypeOK, TransactionSound
<1>3. ASSUME job[w].op = "write" PROVE Len(job[w].batch) \in Nat
  BY <1>2, <1>3, JobsAssumption DEF WriteJob, DeleteJob
<1>4. Cardinality(fresh) \in Nat
  BY FS_CardinalityType DEF Inv, Finite
<1>5. job' \in [Writers -> Jobs \cup {Idle}] /\ reply' \in [Writers -> Replies]
  <2> DEFINE n == IF job[w].op = "write" /\ job[w].replace
                  THEN Len(job[w].batch) ELSE Cardinality(fresh)
  <2>1. n \in Nat
    BY <1>3, <1>4
  <2>2. Answer(w, [status |-> "ok", count |-> n])
    BY DEF Commit
  <2> HIDE DEF n
  <2>3. [status |-> "ok", count |-> n] \in Replies
    BY <2>1 DEF Replies, Statuses
  <2> QED BY <2>2, <2>3, AnswerType DEF Inv
<1>6. revision' \in 0..MaxRevision
  BY JobsAssumption DEF Commit, HasNextRevision, Inv, TypeOK
<1>7. TypeOK'
  BY <1>5, <1>6 DEF Inv, TypeOK, Commit
<1>8. TransactionSound'
  BY DEF Inv, Commit, TransactionSound, ConsistentNames, OwnedPolicies
<1> QED
  BY <1>7, <1>8, FS_EmptySet
  DEF Inv, Commit, TransactionSound, NamesConsistent, PoliciesOwned, ConsistentNames,
      OwnedPolicies, Finite, FiniteNames

\* The four ways a job ends without an effect.
LEMMA DroppedInv ==
  ASSUME Inv, NEW w \in Writers,
         \/ \E k \in Keys : Refuse(w, k)
         \/ Overflow(w)
         \/ Fault(w)
  PROVE  Inv'
<1>1. DropTxn /\ UNCHANGED committed
      /\ (Answer(w, Replied("refused")) \/ Answer(w, Replied("failed")))
  BY DEF Refuse, Overflow, Fault
<1>2. Replied("refused") \in Replies /\ Replied("failed") \in Replies
  BY RepliedType DEF Statuses
<1>3. job' \in [Writers -> Jobs \cup {Idle}] /\ reply' \in [Writers -> Replies]
  BY <1>1, <1>2, AnswerType DEF Inv
<1> QED BY <1>1, <1>3, DropTxnInv

\* A process that dies takes its open transaction and the waiting jobs with it.
LEMMA CrashInv ==
  ASSUME Inv, Crash
  PROVE  Inv'
<1>1. Replied("lost") \in Replies
  BY RepliedType DEF Statuses
<1>2. job' \in [Writers -> Jobs \cup {Idle}] /\ reply' \in [Writers -> Replies]
  BY <1>1 DEF Crash, Inv, TypeOK
<1> QED BY <1>2, DropTxnInv DEF Crash

\* Every step of the store keeps the inductive invariant.
LEMMA NextInv == Inv /\ [Next]_vars => Inv'
<1> SUFFICES ASSUME Inv, [Next]_vars PROVE Inv'
  OBVIOUS
<1>1. ASSUME NEW w \in Writers, NEW j \in Jobs, Submit(w, j) PROVE Inv'
  BY <1>1, SubmitInv
<1>2. ASSUME NEW w \in Writers, Reject(w) PROVE Inv'
  BY <1>2, RejectInv
<1>3. ASSUME NEW w \in Writers, Begin(w) PROVE Inv'
  BY <1>3, BeginInv
<1>4. ASSUME NEW w \in Writers, Work(w) PROVE Inv'
  BY <1>4, WriteInv, DeleteInv, CommitInv, DroppedInv DEF Work
<1>5. ASSUME NEW w \in Writers, Fault(w) PROVE Inv'
  BY <1>5, DroppedInv
<1>6. CASE Crash
  BY <1>6, CrashInv
<1>7. CASE UNCHANGED vars
  BY <1>7
  DEF Inv, TypeOK, NamesConsistent, PoliciesOwned, TransactionSound, Finite,
      FiniteNames, ConsistentNames, OwnedPolicies, vars
<1> QED BY <1>1, <1>2, <1>3, <1>4, <1>5, <1>6, <1>7 DEF Next

\* The inductive invariant holds in every state of the store.
THEOREM Invariance == Spec => []Inv
BY InitInv, NextInv, PTL DEF Spec

(***************************************************************************)
(* The store's values keep their types; no value is stored that decode     *)
(* could not read, and the revision never wraps round.                     *)
(***************************************************************************)
THEOREM TypeCorrect == Spec => []TypeOK
<1>1. Inv => TypeOK
  BY DEF Inv
<1> QED BY <1>1, Invariance, PTL

(***************************************************************************)
(* The committed records of every name obey the rules of a write, whatever *)
(* batches and deletions met, were refused half way, or died half way.     *)
(***************************************************************************)
THEOREM NamesStayConsistent == Spec => []NamesConsistent
<1>1. Inv => NamesConsistent
  BY DEF Inv
<1> QED BY <1>1, Invariance, PTL

(***************************************************************************)
(* No committed ordering policy is without its RRset.                      *)
(***************************************************************************)
THEOREM PoliciesStayOwned == Spec => []PoliciesOwned
<1>1. Inv => PoliciesOwned
  BY DEF Inv
<1> QED BY <1>1, Invariance, PTL

(***************************************************************************)
(* Only a transaction that bumps the revision differs from what is         *)
(* committed.                                                              *)
(***************************************************************************)
THEOREM TransactionsStaySound == Spec => []TransactionSound
<1>1. Inv => TransactionSound
  BY DEF Inv
<1> QED BY <1>1, Invariance, PTL

(***************************************************************************)
(* Whatever a reader keeps for a revision is never out of date while that  *)
(* is the revision: every committed change moves it.                       *)
(***************************************************************************)
THEOREM RevisionGuardsReaders == Spec => RevisionNamesContent
<1> DEFINE Step == db' # db \/ modes' # modes => revision' = revision + 1
<1>1. Inv /\ [Next]_vars => [Step]_vars
  <2> SUFFICES ASSUME Inv, [Next]_vars, ~UNCHANGED vars, db' # db \/ modes' # modes
               PROVE  revision' = revision + 1
    OBVIOUS
  <2>1. PICK w \in Writers : Commit(w)
    BY DEF Next, Submit, Reject, Begin, Work, Write, Refuse, Delete, Overflow, Fault,
           Crash, committed
  <2>2. changed
    BY <2>1 DEF Commit, Inv, TransactionSound
  <2> QED BY <2>1, <2>2 DEF Commit
<1> QED BY <1>1, Invariance, PTL DEF Spec, RevisionNamesContent

-----------------------------------------------------------------------------
(***************************************************************************)
(* The transactions of Store implement the whole jobs of StorePromise.     *)
(***************************************************************************)
\* What the records of every name are, to the readers of the store.
Committed == [k \in Keys |-> Contents(db[k])]

-----------------------------------------------------------------------------
(***************************************************************************)
(* The abstract store, in terms of this one.                               *)
(***************************************************************************)
LEMMA SameKeys ==
  ASSUME NEW j
  PROVE  Promise!KeysOf(j) = KeysOf(j) /\ Promise!IsWellFormed(j) = IsWellFormed(j)
BY DEF Promise!KeysOf, KeysOf, Promise!BatchKeys, BatchKeys, Promise!IsWellFormed,
       IsWellFormed, Promise!IsDecodable, IsDecodable, Promise!IsAccepted, IsAccepted,
       Promise!IsTemplate, IsTemplate, Promise!Keys, Keys

LEMMA SameIncoming ==
  ASSUME NEW batch, NEW k
  PROVE  Promise!Incoming(batch, k) = Incoming(batch, k)
BY DEF Promise!Incoming, Incoming, Promise!IntoRecord, IntoRecord, Promise!IsTemplate,
       IsTemplate

LEMMA SameRules ==
  ASSUME NEW old, NEW incoming, NEW replace, NEW mode
  PROVE  /\ Promise!Merge(old, incoming, replace) = Merge(old, incoming, replace)
         /\ Promise!Fits(old, incoming, replace, mode) = Fits(old, incoming, replace, mode)
         /\ Promise!KindsOf(old) = KindsOf(old)
BY DEF Promise!Merge, Merge, Promise!Retained, Retained, Promise!KindsOf, KindsOf,
       Promise!Fits, Fits, Promise!ModeFits, ModeFits, Promise!IsConsistent, IsConsistent,
       Promise!UniformTTL, UniformTTL, Promise!SoleCname, SoleCname

LEMMA SameDeletion ==
  ASSUME NEW recs, NEW j
  PROVE  /\ Promise!Doomed(recs, j) = Doomed(recs, j)
         /\ Promise!Dropped(recs, j) = Dropped(recs, j)
BY DEF Promise!Doomed, Doomed, Promise!Considered, Considered, Promise!Dropped, Dropped,
       Promise!KindsOf, KindsOf

\* The records and the policy that a whole job leaves at a name.
RecordsOf(j, k) ==
  IF k \notin KeysOf(j) THEN Contents(db[k])
  ELSE IF j.op = "write" THEN Merge(Contents(db[k]), Incoming(j.batch, k), j.replace)
  ELSE Contents(db[k]) \ Doomed(Contents(db[k]), j)

ModeOf(j, k, kind) ==
  IF k \notin KeysOf(j) THEN modes[<<k, kind>>]
  ELSE IF j.op = "write"
       THEN IF j.mode # NoMode /\ kind \in KindsOf(Incoming(j.batch, k))
            THEN j.mode ELSE modes[<<k, kind>>]
  ELSE IF kind \in Dropped(Contents(db[k]), j) THEN NoMode ELSE modes[<<k, kind>>]

LEMMA SameRecords ==
  ASSUME NEW j
  PROVE  Promise!RecordsAfter(j) = [k \in Keys |-> RecordsOf(j, k)]
<1>1. Promise!Keys = Keys
  BY DEF Promise!Keys, Keys
<1>2. \A k \in Keys : Committed[k] = Contents(db[k])
  BY DEF Committed
<1>3. Promise!RecordsAfter(j) =
        [k \in Keys |->
           IF k \notin Promise!KeysOf(j) THEN Committed[k]
           ELSE IF j.op = "write"
                THEN Promise!Merge(Committed[k], Promise!Incoming(j.batch, k), j.replace)
                ELSE Committed[k] \ Promise!Doomed(Committed[k], j)]
  BY <1>1 DEF Promise!RecordsAfter, Committed
<1>4. ASSUME NEW k \in Keys
      PROVE  (IF k \notin Promise!KeysOf(j) THEN Committed[k]
              ELSE IF j.op = "write"
                   THEN Promise!Merge(Committed[k], Promise!Incoming(j.batch, k), j.replace)
                   ELSE Committed[k] \ Promise!Doomed(Committed[k], j))
             = RecordsOf(j, k)
  BY <1>2, SameKeys, SameIncoming, SameRules, SameDeletion DEF RecordsOf
<1> QED
  BY <1>3, <1>4

LEMMA SameModes ==
  ASSUME NEW j
  PROVE  Promise!ModesAfter(j) = [rrset \in RRsets |-> ModeOf(j, rrset[1], rrset[2])]
<1>1. Promise!RRsets = RRsets /\ \A rrset \in RRsets : rrset[1] \in Keys
      /\ rrset = <<rrset[1], rrset[2]>>
  BY DEF Promise!RRsets, RRsets, Promise!Keys, Keys
<1>2. Promise!ModesAfter(j) =
        [rrset \in RRsets |->
           IF rrset[1] \notin Promise!KeysOf(j) THEN modes[rrset]
           ELSE IF j.op = "write"
                THEN IF j.mode # NoMode
                        /\ rrset[2] \in Promise!KindsOf(Promise!Incoming(j.batch, rrset[1]))
                     THEN j.mode ELSE modes[rrset]
                ELSE IF rrset[2] \in Promise!Dropped(Committed[rrset[1]], j)
                     THEN NoMode ELSE modes[rrset]]
  BY <1>1 DEF Promise!ModesAfter, Committed
<1>3. ASSUME NEW rrset \in RRsets
      PROVE  (IF rrset[1] \notin Promise!KeysOf(j) THEN modes[rrset]
              ELSE IF j.op = "write"
                   THEN IF j.mode # NoMode
                           /\ rrset[2] \in Promise!KindsOf(Promise!Incoming(j.batch, rrset[1]))
                        THEN j.mode ELSE modes[rrset]
                   ELSE IF rrset[2] \in Promise!Dropped(Committed[rrset[1]], j)
                        THEN NoMode ELSE modes[rrset])
             = ModeOf(j, rrset[1], rrset[2])
  BY <1>1, SameKeys, SameIncoming, SameRules, SameDeletion DEF ModeOf, Committed
<1> QED
  BY <1>2, <1>3

LEMMA SameAcceptance ==
  ASSUME NEW j
  PROVE  Promise!Accepts(j) <=>
           /\ IsWellFormed(j)
           /\ j.op = "write" => \A k \in KeysOf(j) :
                Fits(Committed[k], Incoming(j.batch, k), j.replace, j.mode)
<1>1. j.op = "write" => Promise!BatchKeys(j.batch) = KeysOf(j)
  BY DEF Promise!BatchKeys, BatchKeys, KeysOf
<1>2. Promise!Accepts(j) <=>
        /\ Promise!IsWellFormed(j)
        /\ j.op = "write" => \A k \in Promise!BatchKeys(j.batch) :
             Promise!Fits(Committed[k], Promise!Incoming(j.batch, k), j.replace, j.mode)
  BY DEF Promise!Accepts, Committed
<1> QED
  BY <1>1, <1>2, SameKeys, SameIncoming, SameRules

-----------------------------------------------------------------------------
(***************************************************************************)
(* How far a transaction has come: the names still to do are as they are   *)
(* committed, those done are as the whole job leaves them, and changed and *)
(* fresh say how the one differs from the other.                           *)
(***************************************************************************)
IsDone(j, k) ==
  /\ Contents(txnDb[k]) = RecordsOf(j, k)
  /\ \A kind \in Kinds : txnModes[<<k, kind>>] = ModeOf(j, k, kind)
  /\ j.op = "write" =>
       Fits(Contents(db[k]), Incoming(j.batch, k), j.replace, j.mode)

IsUntouched(k) ==
  txnDb[k] = db[k] /\ \A kind \in Kinds : txnModes[<<k, kind>>] = modes[<<k, kind>>]

Differs(k) ==
  \/ Contents(txnDb[k]) # Contents(db[k])
  \/ \E kind \in Kinds : txnModes[<<k, kind>>] # modes[<<k, kind>>]

Added == {x \in Keys \X Stored :
            x[2] \in Contents(txnDb[x[1]]) /\ x[2] \notin Contents(db[x[1]])}
Removed == {x \in Keys \X Stored :
            x[2] \in Contents(db[x[1]]) /\ x[2] \notin Contents(txnDb[x[1]])}

InProgress(j) ==
  /\ \A k \in Keys : IF k \in KeysOf(j) \ todo THEN IsDone(j, k) ELSE IsUntouched(k)
  /\ changed <=> \/ j.op = "write" /\ j.replace /\ todo # KeysOf(j)
                 \/ \E k \in Keys : Differs(k)
  /\ j.op = "write" /\ ~j.replace => fresh = Added
  /\ j.op # "write" => fresh = Removed

Progress ==
  IF lock = NoWriter
  THEN todo = {} /\ changed = FALSE /\ fresh = {} /\ txnDb = db /\ txnModes = modes
  ELSE InProgress(job[lock])

\* Without a transaction the view is what is committed.
LEMMA IdleProgress ==
  ASSUME lock' = NoWriter, todo' = {}, changed' = FALSE, fresh' = {},
         txnDb' = db', txnModes' = modes'
  PROVE  Progress'
BY DEF Progress

LEMMA DroppedProgress == ASSUME DropTxn, UNCHANGED committed PROVE Progress'
BY IdleProgress DEF DropTxn, committed

LEMMA OthersProgress ==
  ASSUME Inv, Progress, UNCHANGED <<committed, lock, txn>>,
         lock # NoWriter => job'[lock] = job[lock]
  PROVE  Progress'
<1>1. UNCHANGED <<db, modes, revision, lock, txnDb, txnModes, todo, changed, fresh>>
  BY DEF committed, txn
<1>2. CASE lock = NoWriter
  BY <1>1, <1>2 DEF Progress
<1>3. CASE lock # NoWriter
  <2>1. InProgress(job[lock]) /\ job'[lock'] = job[lock]
    BY <1>1, <1>3 DEF Progress
  <2>2. InProgress(job[lock])'
    <3>1. \A k \in Keys :
            /\ RecordsOf(job[lock], k)' = RecordsOf(job[lock], k)
            /\ \A kind : ModeOf(job[lock], k, kind)' = ModeOf(job[lock], k, kind)
      BY <1>1, <1>3 DEF RecordsOf, ModeOf
    <3> QED
      BY <1>1, <1>3, <2>1, <3>1 DEF InProgress, IsDone, IsUntouched, Differs, Added, Removed
  <2> QED
    BY <1>1, <1>3, <2>2 DEF Progress
<1> QED
  BY <1>2, <1>3

LEMMA BeginProgress ==
  ASSUME Inv, Progress, NEW w \in Writers, Begin(w)
  PROVE  Progress'
<1> DEFINE j == job[w]
<1>1. /\ lock = NoWriter /\ lock' = w /\ lock' # NoWriter /\ todo' = KeysOf(j)
      /\ UNCHANGED <<db, modes, txnDb, txnModes, changed, fresh, job>>
  BY WriterAssumption DEF Begin, IsFree, committed
<1>2. txnDb = db /\ txnModes = modes /\ changed = FALSE /\ fresh = {}
  BY <1>1 DEF Progress
<1>3. \A k \in Keys : IsUntouched(k)' /\ ~Differs(k)'
  BY <1>1, <1>2 DEF IsUntouched, Differs
<1>4. Added' = {} /\ Removed' = {}
  BY <1>1, <1>2 DEF Added, Removed
<1>5. InProgress(j)'
  BY <1>1, <1>2, <1>3, <1>4 DEF InProgress
<1> QED
  BY <1>1, <1>5 DEF Progress

-----------------------------------------------------------------------------
(***************************************************************************)
(* One name of a job: it was untouched, is done now, and no other changes. *)
(***************************************************************************)
LEMMA StageProgress ==
  ASSUME Inv, Inv', Progress, NEW w \in Writers, NEW k \in Keys, NEW j, j = job[w],
         lock = w, k \in todo, todo' = todo \ {k},
         UNCHANGED <<committed, lock, job>>,
         \A i \in Keys \ {k} : txnDb'[i] = txnDb[i],
         \A i \in Keys \ {k}, kind \in Kinds : txnModes'[<<i, kind>>] = txnModes[<<i, kind>>],
         IsDone(j, k)',
         changed' <=> changed \/ (j.op = "write" /\ j.replace) \/ Differs(k)',
         j.op = "write" /\ ~j.replace =>
           fresh' = fresh \cup {<<k, r>> : r \in Contents(txnDb'[k]) \ Contents(db[k])},
         j.op # "write" =>
           fresh' = fresh \cup {<<k, r>> : r \in Contents(db[k]) \ Contents(txnDb'[k])}
  PROVE  Progress'
<1>1. /\ lock # NoWriter /\ InProgress(j) /\ k \in KeysOf(j) /\ job'[lock'] = j
      /\ todo \subseteq KeysOf(j)
      /\ UNCHANGED <<db, modes, lock>>
  BY WriterAssumption DEF Inv, TransactionSound, Progress, committed
<1>2. IsUntouched(k)
  BY <1>1 DEF InProgress
<1>3. ASSUME NEW i \in Keys \ {k}
      PROVE  /\ IsDone(j, i) => IsDone(j, i)'
             /\ IsUntouched(i) => IsUntouched(i)'
             /\ Differs(i)' <=> Differs(i)
  BY <1>1 DEF IsDone, IsUntouched, Differs, RecordsOf, ModeOf
<1>4. ~Differs(k)
  BY <1>2 DEF IsUntouched, Differs
<1>5. (\A i \in Keys : IF i \in KeysOf(j) \ todo THEN IsDone(j, i) ELSE IsUntouched(i))'
  BY <1>1, <1>3 DEF InProgress
<1>6. (changed <=> \/ j.op = "write" /\ j.replace /\ todo # KeysOf(j)
                  \/ \E i \in Keys : Differs(i))'
  <2>1. (\E i \in Keys : Differs(i)') <=> Differs(k)' \/ (\E i \in Keys : Differs(i))
    BY <1>3, <1>4
  <2>2. todo' # KeysOf(j)
    BY <1>1
  <2> QED
    BY <1>1, <2>1, <2>2 DEF InProgress
<1>7. Contents(txnDb[k]) = Contents(db[k]) /\ Contents(txnDb'[k]) \subseteq Stored
      /\ Contents(db[k]) \subseteq Stored
  BY <1>2, ContentsType DEF IsUntouched, Inv, TypeOK
<1>8. (j.op = "write" /\ ~j.replace => fresh = Added)'
  <2> SUFFICES ASSUME j.op = "write", ~j.replace PROVE fresh' = Added'
    OBVIOUS
  <2>1. fresh = Added
    BY <1>1 DEF InProgress
  <2>2. \A x \in Keys \X Stored : x \in Added' <=> IF x[1] = k
           THEN x[2] \in Contents(txnDb'[k]) \ Contents(db[k]) ELSE x \in Added
    BY <1>1 DEF Added
  <2>3. \A x \in Added : x \in Keys \X Stored /\ x[1] # k
    BY <1>7 DEF Added
  <2>4. \A x : x \in Added' => x \in Keys \X Stored
    BY DEF Added
  <2>5. \A r \in Contents(txnDb'[k]) \ Contents(db[k]) :
          <<k, r>> \in Keys \X Stored /\ <<k, r>>[1] = k /\ <<k, r>>[2] = r
    BY <1>7
  <2>6. \A x \in Keys \X Stored : x = <<x[1], x[2]>>
    OBVIOUS
  <2> QED
    BY <2>1, <2>2, <2>3, <2>4, <2>5, <2>6
<1>9. (j.op # "write" => fresh = Removed)'
  <2> SUFFICES ASSUME j.op # "write" PROVE fresh' = Removed'
    OBVIOUS
  <2>1. fresh = Removed
    BY <1>1 DEF InProgress
  <2>2. \A x \in Keys \X Stored : x \in Removed' <=> IF x[1] = k
           THEN x[2] \in Contents(db[k]) \ Contents(txnDb'[k]) ELSE x \in Removed
    BY <1>1 DEF Removed
  <2>3. \A x \in Removed : x \in Keys \X Stored /\ x[1] # k
    BY <1>7 DEF Removed
  <2>4. \A x : x \in Removed' => x \in Keys \X Stored
    BY DEF Removed
  <2>5. \A r \in Contents(db[k]) \ Contents(txnDb'[k]) :
          <<k, r>> \in Keys \X Stored /\ <<k, r>>[1] = k /\ <<k, r>>[2] = r
    BY <1>7
  <2>6. \A x \in Keys \X Stored : x = <<x[1], x[2]>>
    OBVIOUS
  <2>7. \A r \in Contents(db[k]) \ Contents(txnDb'[k]) : <<k, r>> \in Removed'
    BY <2>2, <2>5
  <2>8. \A x \in Removed : x \in Removed'
    BY <2>2, <2>3
  <2>9. ASSUME NEW x \in Removed', x \notin Removed
        PROVE  x[1] = k /\ x[2] \in Contents(db[k]) \ Contents(txnDb'[k]) /\ x = <<k, x[2]>>
    BY <2>2, <2>4, <2>6, <2>9
  <2>10. fresh' = Removed \cup {<<k, r>> : r \in Contents(db[k]) \ Contents(txnDb'[k])}
    BY <2>1
  <2> QED
    BY <2>7, <2>8, <2>9, <2>10
<1>10. InProgress(j)'
  BY <1>5, <1>6, <1>8, <1>9 DEF InProgress
<1> QED
  BY <1>1, <1>10 DEF Progress

\* An add or upsert stages a name.
LEMMA WriteProgress ==
  ASSUME Inv, Inv', Progress, NEW w \in Writers, NEW k \in Keys,
         NEW j, j = job[w], Write(w, k)
  PROVE  Progress'
<1> DEFINE old == Contents(txnDb[k])
           incoming == Incoming(j.batch, k)
           new == Merge(old, incoming, j.replace)
           puts == j.replace \/ new # old
<1>1. /\ lock = w /\ lock # NoWriter /\ j.op = "write" /\ k \in todo
      /\ Fits(old, incoming, j.replace, j.mode)
      /\ todo' = todo \ {k}
      /\ UNCHANGED <<committed, db, modes, revision, lock, job>>
  BY WriterAssumption DEF Write, committed
<1>2. /\ j \in Jobs /\ IsWellFormed(j) /\ k \in KeysOf(j)
      /\ InProgress(j) /\ IsUntouched(k)
  BY <1>1 DEF Inv, TypeOK, TransactionSound, Progress, InProgress
<1>3. j.batch \in Seq(Inputs) /\ IsDecodable(j.batch) /\ j.replace \in BOOLEAN
  BY <1>1, <1>2, JobsAssumption DEF DeleteJob, WriteJob, IsWellFormed
<1>4. new \in SUBSET Stored /\ incoming # {}
  <2>1. incoming \subseteq Stored /\ incoming # {}
    BY <1>1, <1>2, <1>3, IncomingType DEF KeysOf
  <2>2. old \subseteq Stored
    BY ContentsType DEF Inv, TypeOK
  <2> QED
    BY <2>1, <2>2 DEF Merge, Retained
<1>5. /\ txnDb' = IF puts THEN [txnDb EXCEPT ![k] = Encode(new)] ELSE txnDb
      /\ txnModes' = [rrset \in RRsets |->
           IF j.mode # NoMode /\ rrset[1] = k /\ rrset[2] \in KindsOf(incoming)
           THEN j.mode ELSE txnModes[rrset]]
      /\ changed' = (changed \/ puts \/ txnModes' # txnModes)
      /\ fresh' = IF j.replace THEN fresh ELSE fresh \cup {<<k, r>> : r \in new \ old}
  BY DEF Write, CountsAsChange
<1> HIDE DEF old, incoming, new, puts
<1>6. Contents(txnDb'[k]) = new
  <2>1. CASE puts
    BY <1>4, <1>5, <2>1, ContentsOfEncode DEF Inv, TypeOK
  <2>2. CASE ~puts
    BY <1>5, <2>2 DEF puts, old
  <2> QED
    BY <2>1, <2>2
<1>7. \A i \in Keys \ {k} : txnDb'[i] = txnDb[i]
  BY <1>5 DEF Inv, TypeOK
<1>8. \A i \in Keys \ {k}, kind \in Kinds : txnModes'[<<i, kind>>] = txnModes[<<i, kind>>]
  BY <1>5 DEF RRsets
<1>9. old = Contents(db[k])
  BY <1>2 DEF IsUntouched, old
<1>10. \A kind \in Kinds : txnModes'[<<k, kind>>] = ModeOf(j, k, kind)
  <2>1. \A kind \in Kinds : <<k, kind>> \in RRsets /\ txnModes[<<k, kind>>] = modes[<<k, kind>>]
    BY <1>2 DEF RRsets, IsUntouched
  <2> QED
    BY <1>1, <1>2, <1>5, <2>1 DEF ModeOf, incoming
<1>11. IsDone(j, k)'
  <2>1. RecordsOf(j, k)' = new
    BY <1>1, <1>2, <1>9 DEF RecordsOf, new, incoming
  <2>2. \A kind \in Kinds : ModeOf(j, k, kind)' = ModeOf(j, k, kind)
    BY <1>1 DEF ModeOf
  <2>3. Fits(Contents(db'[k]), Incoming(j.batch, k), j.replace, j.mode)
    BY <1>1, <1>9 DEF incoming
  <2> QED
    BY <1>6, <1>10, <2>1, <2>2, <2>3 DEF IsDone
<1>12. changed' <=> changed \/ (j.op = "write" /\ j.replace) \/ Differs(k)'
  <2>1. txnModes' # txnModes <=>
          \E kind \in Kinds : txnModes'[<<k, kind>>] # txnModes[<<k, kind>>]
    <3> SUFFICES ASSUME txnModes' # txnModes
                 PROVE  \E kind \in Kinds : txnModes'[<<k, kind>>] # txnModes[<<k, kind>>]
      OBVIOUS
    <3>1. txnModes \in [RRsets -> Modes \cup {NoMode}]
          /\ txnModes' \in [RRsets -> Modes \cup {NoMode}]
      BY DEF Inv, TypeOK
    <3>2. PICK rrset \in RRsets : txnModes'[rrset] # txnModes[rrset]
      BY <3>1
    <3>3. rrset = <<rrset[1], rrset[2]>> /\ rrset[1] \in Keys /\ rrset[2] \in Kinds
      BY DEF RRsets
    <3> QED
      BY <1>8, <3>2, <3>3
  <2>2. \A kind \in Kinds : txnModes[<<k, kind>>] = modes[<<k, kind>>]
    BY <1>2 DEF IsUntouched
  <2> QED
    BY <1>1, <1>5, <1>6, <1>9, <2>1, <2>2 DEF Differs, puts
<1>13. ~j.replace => fresh' = fresh \cup {<<k, r>> : r \in Contents(txnDb'[k]) \ Contents(db[k])}
  BY <1>5, <1>6, <1>9
<1> QED
  BY <1>1, <1>7, <1>8, <1>11, <1>12, <1>13, StageProgress

\* A deletion stages its one name.
LEMMA DeleteProgress ==
  ASSUME Inv, Inv', Progress, NEW w \in Writers, NEW k \in Keys,
         NEW j, j = job[w], Delete(w, k)
  PROVE  Progress'
<1> DEFINE old == Contents(txnDb[k])
           gone == Doomed(old, j)
<1>1. /\ lock = w /\ lock # NoWriter /\ j.op # "write" /\ k \in todo
      /\ todo' = todo \ {k}
      /\ UNCHANGED <<committed, db, modes, revision, lock, job>>
  BY WriterAssumption DEF Delete, committed
<1>2. /\ j \in Jobs /\ todo \subseteq KeysOf(j) /\ InProgress(j) /\ IsUntouched(k)
  BY <1>1 DEF Inv, TypeOK, TransactionSound, Progress, InProgress
\* It has no other name, so nothing has been removed yet.
<1>3. ~changed /\ fresh = {}
  <2>1. KeysOf(j) = {k}
    BY <1>1, <1>2 DEF KeysOf
  <2>2. \A i \in Keys : IsUntouched(i)
    BY <1>1, <1>2, <2>1 DEF InProgress
  <2>3. \A i \in Keys : ~Differs(i)
    BY <2>2 DEF IsUntouched, Differs
  <2>4. Removed = {}
    BY <2>2 DEF IsUntouched, Removed
  <2> QED
    BY <1>1, <1>2, <2>3, <2>4 DEF InProgress
<1>4. old \subseteq Stored /\ gone \subseteq old /\ old = Contents(db[k])
  BY <1>2, ContentsType DEF Inv, TypeOK, IsUntouched, Doomed, Considered
<1>5. CASE gone = {}
  <2>1. UNCHANGED <<txnDb, txnModes, changed, fresh>>
    BY <1>5 DEF Delete
  <2>2. Dropped(old, j) = {}
    BY <1>5 DEF Dropped, KindsOf, Considered
  <2>3. IsDone(j, k)'
    BY <1>1, <1>2, <1>4, <1>5, <2>1, <2>2 DEF IsDone, RecordsOf, ModeOf, IsUntouched
  <2>4. ~Differs(k)'
    BY <1>1, <1>2, <2>1 DEF Differs, IsUntouched
  <2>5. fresh' = fresh \cup {<<k, r>> : r \in Contents(db[k]) \ Contents(txnDb'[k])}
    BY <1>4, <2>1
  <2> QED
    BY <1>1, <1>3, <2>1, <2>3, <2>4, <2>5, StageProgress
<1>6. CASE gone # {}
  <2>1. /\ txnDb' = [txnDb EXCEPT ![k] = EncodeOrRemove(old \ gone)]
        /\ txnModes' = [rrset \in RRsets |->
             IF rrset[1] = k /\ rrset[2] \in Dropped(old, j)
             THEN NoMode ELSE txnModes[rrset]]
        /\ changed' = TRUE
        /\ fresh' = {<<k, r>> : r \in gone}
    BY <1>6 DEF Delete
  <2> HIDE DEF old, gone
  <2>2. Contents(txnDb'[k]) = old \ gone
    <3>1. Contents(EncodeOrRemove(old \ gone)) = old \ gone
      BY <1>4, ContentsOfEncode DEF EncodeOrRemove, Contents
    <3> QED
      BY <2>1, <3>1 DEF Inv, TypeOK
  <2>3. \A i \in Keys \ {k} : txnDb'[i] = txnDb[i]
    BY <2>1 DEF Inv, TypeOK
  <2>4. \A i \in Keys \ {k}, kind \in Kinds : txnModes'[<<i, kind>>] = txnModes[<<i, kind>>]
    BY <2>1 DEF RRsets
  <2>5. \A kind \in Kinds : txnModes'[<<k, kind>>] = ModeOf(j, k, kind)
    <3>1. \A kind \in Kinds :
            <<k, kind>> \in RRsets /\ txnModes[<<k, kind>>] = modes[<<k, kind>>]
      BY <1>2 DEF RRsets, IsUntouched
    <3> QED
      BY <1>1, <1>2, <1>4, <2>1, <3>1 DEF ModeOf
  <2>6. IsDone(j, k)'
    <3>1. RecordsOf(j, k)' = old \ gone
      BY <1>1, <1>2, <1>4 DEF RecordsOf, gone
    <3>2. \A kind \in Kinds : ModeOf(j, k, kind)' = ModeOf(j, k, kind)
      BY <1>1 DEF ModeOf
    <3> QED
      BY <1>1, <2>2, <2>5, <3>1, <3>2 DEF IsDone
  <2>7. Differs(k)'
    BY <1>1, <1>4, <1>6, <2>2 DEF Differs
  <2>8. fresh' = fresh \cup {<<k, r>> : r \in Contents(db[k]) \ Contents(txnDb'[k])}
    <3>1. Contents(db[k]) \ Contents(txnDb'[k]) = gone
      BY <1>4, <2>2
    <3> QED
      BY <1>3, <2>1, <3>1
  <2> QED
    BY <1>1, <2>1, <2>3, <2>4, <2>6, <2>7, <2>8, StageProgress
<1> QED
  BY <1>5, <1>6

\* A commit publishes the view, and is the end of the transaction.
LEMMA CommitProgress == ASSUME NEW w \in Writers, Commit(w) PROVE Progress'
BY IdleProgress DEF Commit

\* Every step of the store keeps the view and the job together.
LEMMA NextProgress == Inv /\ Inv' /\ Progress /\ [Next]_vars => Progress'
<1> SUFFICES ASSUME Inv, Inv', Progress, [Next]_vars PROVE Progress'
  OBVIOUS
<1>1. ASSUME NEW w \in Writers, NEW j \in Jobs, Submit(w, j) PROVE Progress'
  <2>1. lock # NoWriter => lock # w /\ job'[lock] = job[lock]
    BY <1>1 DEF Inv, TypeOK, TransactionSound, Submit
  <2> QED
    BY <1>1, <2>1, OthersProgress DEF Submit
<1>2. ASSUME NEW w \in Writers, Reject(w) PROVE Progress'
  <2>1. lock # NoWriter => job'[lock] = job[lock]
    BY <1>2 DEF Inv, TypeOK, Reject, Answer
  <2> QED
    BY <1>2, <2>1, OthersProgress DEF Reject
<1>3. ASSUME NEW w \in Writers, Begin(w) PROVE Progress'
  BY <1>3, BeginProgress
<1>4. ASSUME NEW w \in Writers, Work(w) PROVE Progress'
  <2>1. ASSUME NEW k \in Keys, Write(w, k) PROVE Progress'
    BY <2>1, WriteProgress
  <2>2. ASSUME NEW k \in Keys, Delete(w, k) PROVE Progress'
    BY <2>2, DeleteProgress
  <2>3. ASSUME NEW k \in Keys, Refuse(w, k) PROVE Progress'
    BY <2>3, DroppedProgress DEF Refuse
  <2>4. CASE Commit(w)
    BY <2>4, CommitProgress
  <2>5. CASE Overflow(w)
    BY <2>5, DroppedProgress DEF Overflow
  <2> QED
    BY <1>4, <2>1, <2>2, <2>3, <2>4, <2>5 DEF Work
<1>5. ASSUME NEW w \in Writers, Fault(w) PROVE Progress'
  BY <1>5, DroppedProgress DEF Fault
<1>6. CASE Crash
  BY <1>6, DroppedProgress DEF Crash
<1>7. CASE UNCHANGED vars
  BY <1>7, OthersProgress DEF vars, committed, txn
<1> QED
  BY <1>1, <1>2, <1>3, <1>4, <1>5, <1>6, <1>7 DEF Next

\* The view of a transaction always lies between what is committed and what
\* the whole job makes of it.
LEMMA ProgressInvariance == Spec => []Progress
<1>1. Init => Progress
  BY DEF Init, Progress
<1> QED
  BY <1>1, Invariance, NextProgress, PTL DEF Spec

-----------------------------------------------------------------------------
(***************************************************************************)
(* A commit is the instant at which the whole job takes effect.            *)
(***************************************************************************)
LEMMA CommitTakes ==
  ASSUME Inv, Progress, NEW w \in Writers, NEW j, j = job[w], Commit(w)
  PROVE  /\ j \in Jobs /\ j # Idle
         /\ Promise!Take(j)
         /\ reply' = [reply EXCEPT ![w] = [status |-> "ok", count |-> Promise!Count(j)]]
<1>1. /\ lock = w /\ lock # NoWriter /\ todo = {}
      /\ db' = txnDb /\ modes' = txnModes
      /\ changed => revision < MaxRevision
      /\ revision' = IF changed THEN revision + 1 ELSE revision
      /\ reply' = [reply EXCEPT ![w] =
           [status |-> "ok",
            count |-> IF j.op = "write" /\ j.replace
                      THEN Len(j.batch) ELSE Cardinality(fresh)]]
  BY WriterAssumption DEF Commit, Answer, HasNextRevision
<1>2. j \in Jobs /\ j # Idle /\ IsWellFormed(j) /\ InProgress(j)
  BY <1>1, JobsAssumption DEF Inv, TypeOK, TransactionSound, Progress
<1>3. KeysOf(j) \subseteq Keys
  BY <1>2, JobKeys
<1>4. \A k \in Keys : IF k \in KeysOf(j) THEN IsDone(j, k) ELSE IsUntouched(k)
  BY <1>1, <1>2 DEF InProgress
<1>5. \A k \in Keys : Contents(txnDb[k]) = RecordsOf(j, k)
  BY <1>4 DEF IsDone, IsUntouched, RecordsOf
<1>6. \A k \in Keys, kind \in Kinds : txnModes[<<k, kind>>] = ModeOf(j, k, kind)
  BY <1>4 DEF IsDone, IsUntouched, ModeOf
<1>7. Promise!Accepts(j)
  BY <1>2, <1>3, <1>4, SameAcceptance DEF IsDone, Committed
<1>8. Promise!RecordsAfter(j) = [k \in Keys |-> Contents(txnDb[k])]
  BY <1>5, SameRecords
<1>9. Promise!ModesAfter(j) = txnModes
  <2>1. \A rrset \in RRsets : txnModes[rrset] = ModeOf(j, rrset[1], rrset[2])
    BY <1>6 DEF RRsets
  <2>2. txnModes = [rrset \in RRsets |-> txnModes[rrset]]
    BY DEF Inv, TypeOK
  <2> QED
    BY <2>1, <2>2, SameModes
<1>10. Promise!IsChange(j) <=> changed
  <2>1. j.op = "write" => (j.batch # <<>> <=> KeysOf(j) # {})
    <3> SUFFICES ASSUME j.op = "write" PROVE j.batch # <<>> <=> KeysOf(j) # {}
      OBVIOUS
    <3>1. j.batch \in Seq(Inputs)
      BY <1>2, JobsAssumption DEF DeleteJob, WriteJob
    <3>2. DOMAIN j.batch = 1 .. Len(j.batch) /\ Len(j.batch) \in Nat
      BY <3>1
    <3>3. j.batch = <<>> => DOMAIN j.batch = {}
      BY <3>2
    <3>4. j.batch # <<>> => Len(j.batch) # 0
      BY <3>1
    <3>5. j.batch # <<>> => 1 \in DOMAIN j.batch
      BY <3>2, <3>4
    <3> QED
      BY <3>3, <3>5 DEF KeysOf, BatchKeys
  <2>2. Promise!RecordsAfter(j) # Committed
          <=> \E k \in Keys : Contents(txnDb[k]) # Contents(db[k])
    BY <1>8 DEF Committed
  <2>3. Promise!ModesAfter(j) # modes
          <=> \E k \in Keys, kind \in Kinds : txnModes[<<k, kind>>] # modes[<<k, kind>>]
    <3>1. /\ txnModes \in [RRsets -> Modes \cup {NoMode}]
          /\ modes \in [RRsets -> Modes \cup {NoMode}]
      BY DEF Inv, TypeOK
    <3>2. txnModes # modes <=> \E rrset \in RRsets : txnModes[rrset] # modes[rrset]
      BY <3>1
    <3>3. \A k \in Keys, kind \in Kinds : <<k, kind>> \in RRsets
      BY DEF RRsets
    <3>4. \A rrset \in RRsets : rrset[1] \in Keys /\ rrset[2] \in Kinds
            /\ rrset = <<rrset[1], rrset[2]>>
      BY DEF RRsets
    <3> QED
      BY <1>9, <3>2, <3>3, <3>4
  <2>4. changed <=> \/ j.op = "write" /\ j.replace /\ KeysOf(j) # {}
                    \/ \E k \in Keys : Differs(k)
    BY <1>1, <1>2 DEF InProgress
  <2>5. Promise!IsChange(j) <=> \/ j.op = "write" /\ j.replace /\ j.batch # <<>>
                                \/ Promise!RecordsAfter(j) # Committed
                                \/ Promise!ModesAfter(j) # modes
    BY DEF Promise!IsChange, Committed
  <2> QED
    BY <2>1, <2>2, <2>3, <2>4, <2>5 DEF Differs
<1>11. Promise!Take(j)
  <2>1. [k \in Keys |-> Contents(db[k])]' = Promise!RecordsAfter(j)
    BY <1>1, <1>8
  <2> QED
    BY <1>1, <1>7, <1>9, <1>10, <2>1 DEF Promise!Take
<1>12. Promise!Count(j) = IF j.op = "write" /\ j.replace
                          THEN Len(j.batch) ELSE Cardinality(fresh)
  <2> DEFINE after == Promise!RecordsAfter(j)
  <2>1. \A k \in Keys : /\ after[k] = Contents(txnDb[k]) /\ after[k] \subseteq Stored
                        /\ Committed[k] = Contents(db[k]) /\ Committed[k] \subseteq Stored
    <3>1. \A k \in Keys : Contents(txnDb[k]) \subseteq Stored /\ Contents(db[k]) \subseteq Stored
      BY ContentsType DEF Inv, TypeOK
    <3> QED
      BY <1>8, <3>1 DEF Committed
  <2> HIDE DEF after
  <2>2. UNION {{<<k, r>> : r \in after[k] \ Committed[k]} : k \in Keys} = Added
    BY <2>1 DEF Added
  <2>3. UNION {{<<k, r>> : r \in Committed[k] \ after[k]} : k \in Keys} = Removed
    BY <2>1 DEF Removed
  <2>4. j.op \in {"write", "delete"} /\ (j.op = "write" => j.replace \in BOOLEAN)
    BY <1>2, JobsAssumption DEF WriteJob, DeleteJob
  <2>5. /\ j.op = "write" /\ ~j.replace => fresh = Added
        /\ j.op # "write" => fresh = Removed
    BY <1>2 DEF InProgress
  <2>6. Promise!Count(j) =
          CASE j.op = "write" /\ j.replace  -> Len(j.batch)
            [] j.op = "write" /\ ~j.replace ->
                 Cardinality(UNION {{<<k, r>> : r \in after[k] \ Committed[k]} : k \in Keys})
            [] j.op = "delete" ->
                 Cardinality(UNION {{<<k, r>> : r \in Committed[k] \ after[k]} : k \in Keys})
    BY SameKeys DEF Promise!Count, after, Committed, Promise!Keys, Keys
  <2> QED
    BY <2>2, <2>3, <2>4, <2>5, <2>6
<1> QED
  BY <1>1, <1>2, <1>11, <1>12

-----------------------------------------------------------------------------
(***************************************************************************)
(* Every step of the store is a step of the promise or invisible to it.    *)
(***************************************************************************)
\* The records of an old database are among those the promise starts from.
LEMMA InitPromise == Init => Promise!Init
<1> SUFFICES ASSUME Init PROVE Promise!Init
  OBVIOUS
<1>1. \A v : Promise!Decode(v) = Decode(v)
  BY DEF Promise!Decode, Decode, Promise!FromWire, FromWire, Promise!FromTagged,
         FromTagged, Promise!FromLine, FromLine
<1>2. \A v \in Legacy : v # Absent
  BY LegacyAssumption, AbsentAssumption DEF Value
<1>3. \A k \in Keys : Contents(db[k]) \in {{}} \cup {Decode(v) : v \in Legacy}
  BY <1>2 DEF Init, Contents
<1>4. \A p \in Patterns : p \in Keys /\ Contents(db[p]) = {}
  BY DEF Init, Contents, Keys
<1>5. Promise!StateInit
  <2>1. [k \in Keys |-> Contents(db[k])]
          \in [Promise!Keys -> {{}} \cup {Promise!Decode(v) : v \in Legacy}]
    BY <1>1, <1>3 DEF Promise!Keys, Keys
  <2>2. \A p \in Patterns : [k \in Keys |-> Contents(db[k])][p] = {}
    BY <1>4
  <2>3. modes = [rrset \in Promise!RRsets |-> NoMode] /\ revision = 0
    BY DEF Init, Promise!RRsets, RRsets, Promise!Keys, Keys
  <2> QED
    BY <2>1, <2>2, <2>3 DEF Promise!StateInit
<1> QED
  BY <1>5 DEF Init, Promise!Init, Promise!NoReply, NoReply

\* A transaction that is dropped is a job that had no effect.
LEMMA RefuseRefines ==
  ASSUME Inv, Progress, NEW w \in Writers, NEW k \in Keys, Refuse(w, k)
  PROVE  Promise!Refuse(w)
<1> DEFINE j == job[w]
<1>1. /\ lock = w /\ lock # NoWriter /\ j.op = "write" /\ k \in todo
      /\ ~Fits(Contents(txnDb[k]), Incoming(j.batch, k), j.replace, j.mode)
  BY WriterAssumption DEF Refuse
<1>2. j # Idle /\ k \in KeysOf(j) /\ IsUntouched(k)
  BY <1>1 DEF Inv, TransactionSound, Progress, InProgress
<1>3. ~Promise!Accepts(j)
  BY <1>1, <1>2, SameAcceptance DEF IsUntouched, Committed
<1> QED
  BY <1>2, <1>3 DEF Refuse, Answer, committed, Promise!Refuse, Promise!Answer,
                    Promise!state, Promise!Replied, Replied

LEMMA RejectRefines ==
  ASSUME NEW w \in Writers, Reject(w)
  PROVE  Promise!Refuse(w)
<1>1. ~Promise!Accepts(job[w])
  BY SameAcceptance DEF Reject
<1> QED
  BY <1>1 DEF Reject, Answer, committed, Promise!Refuse, Promise!Answer,
              Promise!state, Promise!Replied, Replied

LEMMA FailRefines ==
  ASSUME Inv, NEW w \in Writers, Overflow(w) \/ Fault(w)
  PROVE  Promise!Fail(w)
<1>1. job[w] # Idle
  BY WriterAssumption DEF Inv, TransactionSound, Overflow, Fault
<1> QED
  BY <1>1 DEF Overflow, Fault, Answer, committed, Promise!Fail, Promise!Answer,
              Promise!state, Promise!Replied, Replied

LEMMA CommitRefines ==
  ASSUME Inv, Progress, NEW w \in Writers, Commit(w)
  PROVE  Promise!Apply(w)
<1>1. /\ job[w] # Idle /\ Promise!Take(job[w])
      /\ reply' = [reply EXCEPT ![w] =
           [status |-> "ok", count |-> Promise!Count(job[w])]]
  BY CommitTakes
<1>2. job' = [job EXCEPT ![w] = Idle]
  BY DEF Commit, Answer
<1> QED
  BY <1>1, <1>2 DEF Promise!Apply, Promise!Answer

LEMMA NextRefines == Inv /\ Progress /\ [Next]_vars => [Promise!Next]_Promise!vars
<1> SUFFICES ASSUME Inv, Progress, [Next]_vars PROVE [Promise!Next]_Promise!vars
  OBVIOUS
<1>1. ASSUME NEW w \in Writers, NEW j \in Jobs, Submit(w, j) PROVE Promise!Next
  BY <1>1 DEF Submit, committed, Promise!Submit, Promise!state, Promise!NoReply, NoReply,
              Promise!Next
<1>2. ASSUME NEW w \in Writers, Reject(w) PROVE Promise!Next
  BY <1>2, RejectRefines DEF Promise!Next
<1>3. ASSUME NEW w \in Writers, Begin(w) PROVE UNCHANGED Promise!vars
  BY <1>3 DEF Begin, committed, Promise!vars
<1>4. ASSUME NEW w \in Writers, NEW k \in Keys, Write(w, k) \/ Delete(w, k)
      PROVE  UNCHANGED Promise!vars
  BY <1>4 DEF Write, Delete, committed, Promise!vars
<1>5. ASSUME NEW w \in Writers, NEW k \in Keys, Refuse(w, k) PROVE Promise!Next
  BY <1>5, RefuseRefines DEF Promise!Next
<1>6. ASSUME NEW w \in Writers, Commit(w) PROVE Promise!Next
  BY <1>6, CommitRefines DEF Promise!Next
<1>7. ASSUME NEW w \in Writers, Overflow(w) \/ Fault(w) PROVE Promise!Next
  BY <1>7, FailRefines DEF Promise!Next
<1>8. CASE Crash
  BY <1>8 DEF Crash, committed, Promise!Crash, Promise!state, Promise!Replied, Replied,
              Promise!Next
<1>9. CASE UNCHANGED vars
  BY <1>9 DEF vars, Promise!vars
<1> QED
  BY <1>1, <1>2, <1>3, <1>4, <1>5, <1>6, <1>7, <1>8, <1>9 DEF Next, Work

(***************************************************************************)
(* The store keeps its promise: a transaction that works name by name on a *)
(* private copy shows what the whole job does, at its commit, or nothing.  *)
(***************************************************************************)
THEOREM StoreKeepsPromise == Spec => KeepsPromise
BY InitPromise, NextRefines, Invariance, ProgressInvariance, PTL
DEF Spec, KeepsPromise, Promise!Spec

-----------------------------------------------------------------------------
(***************************************************************************)
(* An answer is to the job that was waiting for it.                        *)
(***************************************************************************)
Unanswered == \A w \in Writers : job[w] # Idle => reply[w] = NoReply

LEMMA AnsweredOnce == Spec => []Unanswered
<1>1. Init => Unanswered
  BY DEF Init, Unanswered
<1>2. Inv /\ Unanswered /\ [Next]_vars => Unanswered'
  <2> SUFFICES ASSUME Inv, Unanswered, [Next]_vars PROVE Unanswered'
    OBVIOUS
  <2> USE DEF Unanswered
  <2>1. /\ job \in [Writers -> Jobs \cup {Idle}]
        /\ reply \in [Writers -> Replies]
    BY DEF Inv, TypeOK
  <2>2. ASSUME NEW w \in Writers, NEW r, Answer(w, r) PROVE Unanswered'
    BY <2>1, <2>2 DEF Answer
  <2>3. ASSUME NEW w \in Writers, NEW j \in Jobs, Submit(w, j) PROVE Unanswered'
    BY <2>1, <2>3 DEF Submit
  <2>4. CASE Crash
    BY <2>4 DEF Crash
  <2>5. CASE UNCHANGED <<job, reply>>
    BY <2>5
  <2> QED
    BY <2>2, <2>3, <2>4, <2>5 DEF Next, Work, Reject, Begin, Write, Delete, Refuse, Commit,
       Overflow, Fault, vars
<1> QED
  BY <1>1, <1>2, Invariance, PTL DEF Spec

(***************************************************************************)
(* A write that was answered ok left every record it submitted at its name.*)
(***************************************************************************)
THEOREM WritesAreStored == Spec => AcknowledgedStored
<1> DEFINE Step == \A w \in Writers : LET j == job[w] IN
       j # Idle /\ reply'[w].status = "ok" /\ j.op = "write" =>
         \A k \in BatchKeys(j.batch) : Incoming(j.batch, k) \subseteq Contents(db'[k])
<1>1. Inv /\ Progress /\ Unanswered /\ [Next]_vars => [Step]_vars
  <2> SUFFICES ASSUME Inv, Progress, Unanswered, Next, NEW w \in Writers, NEW j, j = job[w],
                      j # Idle, reply'[w].status = "ok", j.op = "write",
                      NEW k \in BatchKeys(j.batch)
               PROVE  Incoming(j.batch, k) \subseteq Contents(db'[k])
    BY DEF vars
  <2>1. reply[w].status # "ok" /\ reply[w] # reply'[w]
    BY DEF Unanswered, NoReply
  <2>2. Commit(w)
    <3>1. reply \in [Writers -> Replies]
      BY DEF Inv, TypeOK
    <3>2. ASSUME NEW v \in Writers, NEW error \in Statuses \ {"ok"},
                 Answer(v, Replied(error))
          PROVE  FALSE
      BY <2>1, <3>1, <3>2 DEF Answer, Replied
    <3>3. ASSUME NEW v \in Writers, Commit(v) PROVE v = w
      BY <2>1, <3>1, <3>3 DEF Commit, Answer
    <3>4. ~Crash /\ \A v \in Writers, i \in Jobs : ~Submit(v, i)
      BY <2>1, <3>1 DEF Crash, Submit, Replied, NoReply
    <3>5. \A v \in Writers : ~Begin(v) /\ \A i \in Keys : ~Write(v, i) /\ ~Delete(v, i)
      BY <2>1 DEF Begin, Write, Delete
    <3>6. \A v \in Writers : ~Reject(v) /\ ~Overflow(v) /\ ~Fault(v)
                             /\ \A i \in Keys : ~Refuse(v, i)
      BY <3>2 DEF Reject, Overflow, Fault, Refuse, Statuses
    <3> QED
      BY <3>3, <3>4, <3>5, <3>6 DEF Next, Work
  <2>3. /\ lock = w /\ lock # NoWriter /\ todo = {} /\ db' = txnDb
        /\ InProgress(j) /\ j \in Jobs /\ IsWellFormed(j)
    BY <2>2, WriterAssumption DEF Commit, Inv, TypeOK, TransactionSound, Progress
  <2>4. k \in KeysOf(j) /\ k \in Keys
    BY <2>3, JobKeys DEF KeysOf
  <2>5. Contents(db'[k]) = Merge(Contents(db[k]), Incoming(j.batch, k), j.replace)
    BY <2>3, <2>4 DEF InProgress, IsDone, RecordsOf
  <2> QED
    BY <2>5 DEF Merge
<1> QED
  BY <1>1, Invariance, ProgressInvariance, AnsweredOnce, PTL DEF Spec, AcknowledgedStored

-----------------------------------------------------------------------------
(***************************************************************************)
(* Clients and local commands. A request that was given up can still take  *)
(* effect; what keeps the effects of a run in order is that a run that has *)
(* failed sends nothing more, so that of each client at most one handler   *)
(* is at work on its run, and on the item the run is at.                   *)
(***************************************************************************)
Did(c) == ToSet(effects[c])

Ascends(seq) == \A i, j \in DOMAIN seq : i < j => seq[i] < seq[j]

ClientTypes ==
  /\ DOMAIN run = Clients /\ DOMAIN effects = Clients
  /\ at \in [Clients -> Nat]
  /\ status \in [Clients -> {"idle", "running", "completed", "failed"}]
  /\ handler \in [Clients -> Writers \cup {Nobody}]
  /\ serves \in [Writers -> (Clients \X Nat) \cup {Nobody}]

\* Where a client is in its run, and which items took effect.
ClientKept(c) ==
  /\ run[c] \in Seq(Jobs \cup {Get})
  /\ effects[c] \in Seq(Nat) /\ Ascends(effects[c])
  /\ status[c] = "idle" => at[c] = 0 /\ run[c] = <<>>
  /\ status[c] \in {"running", "failed"} => at[c] \in 1..Len(run[c])
  /\ status[c] = "completed" => at[c] = Len(run[c]) + 1
  /\ Did(c) \ {at[c]} = Written(c, at[c] - 1)
  /\ at[c] \in Did(c) =>
       /\ status[c] \in {"running", "failed"}
       /\ status[c] = "running" => handler[c] # Nobody

\* A client waits for the handler of the item it is at.
HandlerKept(c) ==
  handler[c] # Nobody =>
    /\ status[c] = "running" /\ serves[handler[c]] = <<c, at[c]>>
    /\ run[c][at[c]] # Get
    /\ job[handler[c]] = Idle => (reply[handler[c]].status = "ok" <=> at[c] \in Did(c))

\* A handler at work for a run works on the item that the run is at, or failed at, and
\* no other one does.
WorksFor(w, c) == job[w] # Idle /\ serves[w] # Nobody /\ serves[w][1] = c

WorkKept(c) ==
  \A w \in Writers : WorksFor(w, c) =>
    /\ serves[w] = <<c, at[c]>>
    /\ status[c] \in {"running", "failed"}
    /\ status[c] = "running" => handler[c] = w
    /\ run[c][at[c]] # Get /\ at[c] \notin Did(c)
    /\ \A v \in Writers : WorksFor(v, c) => v = w

RunKept(c) == ClientKept(c) /\ HandlerKept(c) /\ WorkKept(c)

RunsKept == ClientTypes /\ \A c \in Clients : RunKept(c)

BatchInv == Inv /\ Progress /\ RunsKept

LEMMA BatchInitInv == BatchInit => BatchInv
<1> SUFFICES ASSUME BatchInit PROVE BatchInv
  OBVIOUS
<1> USE DEF BatchInit
<1>1. Inv /\ Progress
  BY InitInv DEF Init, Progress
<1>2. \A c \in Clients : ClientKept(c)
  BY DEF ClientKept, Ascends, Did, Written, ToSet
<1>3. RunsKept
  BY <1>2 DEF RunsKept, RunKept, ClientTypes, HandlerKept, WorkKept, WorksFor
<1> QED
  BY <1>1, <1>3 DEF BatchInv

-----------------------------------------------------------------------------
(***************************************************************************)
(* What the steps of a handler are to the clients.                         *)
(***************************************************************************)
\* A job that is dropped before its transaction leaves that of another writer alone.
LEMMA DropKeeps ==
  ASSUME Inv, Progress, NEW w \in Writers, Drop(w)
  PROVE  Inv' /\ Progress'
<1>1. lock # NoWriter => job'[lock] = job[lock]
  BY DEF Inv, TypeOK, Drop, Answer
<1>2. job' \in [Writers -> Jobs \cup {Idle}] /\ reply' \in [Writers -> Replies]
  BY AnswerType, RepliedType DEF Inv, Drop, Statuses
<1>3. TypeOK'
  BY <1>2 DEF Inv, TypeOK, Drop, committed, txn
<1>4. Inv'
  BY <1>1, <1>3
  DEF Inv, NamesConsistent, PoliciesOwned, TransactionSound, Finite, FiniteNames,
      ConsistentNames, OwnedPolicies, Drop, committed, txn
<1> QED
  BY <1>1, <1>4, OthersProgress DEF Drop

\* A handler answers the job it has, or goes on.
LEMMA HandlerAnswers ==
  ASSUME Inv, NEW w \in Writers, Reject(w) \/ Begin(w) \/ Work(w) \/ Fault(w)
  PROVE  \/ UNCHANGED <<job, reply>>
         \/ job[w] # Idle /\ \E r : Answer(w, r)
<1>1. lock = w => job[w] # Idle
  BY WriterAssumption DEF Inv, TransactionSound
<1> QED
  BY <1>1 DEF Reject, Begin, Work, Write, Delete, Refuse, Commit, Overflow, Fault

\* A run is as before after a step that is neither of its client nor of its handler.
LEMMA RunRests ==
  ASSUME NEW c \in Clients, RunKept(c),
         run'[c] = run[c], at'[c] = at[c], status'[c] = status[c],
         effects'[c] = effects[c], handler'[c] = handler[c],
         \A v \in Writers : WorksFor(v, c)' => WorksFor(v, c) /\ serves'[v] = serves[v],
         handler[c] # Nobody =>
           /\ serves'[handler[c]] = serves[handler[c]]
           /\ job'[handler[c]] = Idle =>
                (reply'[handler[c]].status = "ok" <=> at[c] \in Did(c))
  PROVE  RunKept(c)'
<1>1. Did(c)' = Did(c)
  BY DEF Did
<1>2. ClientKept(c)'
  BY <1>1 DEF RunKept, ClientKept, Ascends, Written
<1>3. HandlerKept(c)'
  BY <1>1 DEF RunKept, HandlerKept
<1>4. WorkKept(c)'
  <2> SUFFICES ASSUME NEW w \in Writers, WorksFor(w, c)'
               PROVE  /\ serves'[w] = <<c, at[c]>>
                      /\ status[c] \in {"running", "failed"}
                      /\ status[c] = "running" => handler[c] = w
                      /\ run[c][at[c]] # Get /\ at[c] \notin Did(c)
                      /\ \A v \in Writers : WorksFor(v, c)' => v = w
    BY <1>1 DEF WorkKept
  <2> QED
    BY DEF RunKept, WorkKept
<1> QED
  BY <1>2, <1>3, <1>4 DEF RunKept

LEMMA AppendSet ==
  ASSUME NEW seq \in Seq(Nat), NEW n \in Nat
  PROVE  ToSet(Append(seq, n)) = ToSet(seq) \cup {n}
<1> DEFINE longer == Append(seq, n)
<1>1. /\ Len(seq) \in Nat /\ DOMAIN seq = 1..Len(seq) /\ DOMAIN longer = 1..Len(seq) + 1
      /\ longer[Len(seq) + 1] = n /\ \A i \in 1..Len(seq) : longer[i] = seq[i]
  OBVIOUS
<1> HIDE DEF longer
<1>2. \A i \in 1..Len(seq) + 1 : i \in 1..Len(seq) \/ i = Len(seq) + 1
  BY <1>1
<1>3. ToSet(longer) = {longer[i] : i \in 1..Len(seq) + 1}
      /\ ToSet(seq) = {seq[i] : i \in 1..Len(seq)}
  BY <1>1 DEF ToSet
<1>4. ASSUME NEW x PROVE x \in ToSet(longer) <=> x \in ToSet(seq) \cup {n}
  <2>1. x \in ToSet(longer) => x \in ToSet(seq) \cup {n}
    BY <1>1, <1>2, <1>3
  <2>2. x \in ToSet(seq) \cup {n} => x \in ToSet(longer)
    <3>1. \A i \in 1..Len(seq) : i \in 1..Len(seq) + 1
      BY <1>1
    <3>2. Len(seq) + 1 \in 1..Len(seq) + 1
      BY <1>1
    <3> QED
      BY <1>1, <1>3, <3>1, <3>2
  <2> QED
    BY <2>1, <2>2
<1> QED
  BY <1>4 DEF longer

\* The run of a handler's client after the handler's answer.
LEMMA AnswerKeeps ==
  ASSUME Inv, RunsKept, NEW w \in Writers, NEW r, job[w] # Idle, Answer(w, r), Account(w)
  PROVE  RunsKept'
<1>1. /\ job' = [job EXCEPT ![w] = Idle] /\ reply' = [reply EXCEPT ![w] = r]
      /\ job'[w] = Idle /\ reply'[w] = r
      /\ \A v \in Writers : v # w => job'[v] = job[v] /\ reply'[v] = reply[v]
  BY DEF Answer, Inv, TypeOK
<1>2. UNCHANGED <<run, at, status, handler, serves>>
  BY DEF Account
<1>3. CASE serves[w] = Nobody
  <2>1. effects' = effects
    BY <1>3 DEF Account
  <2>2. ASSUME NEW d \in Clients PROVE RunKept(d)'
    <3>1. RunKept(d) /\ handler[d] \in Writers \cup {Nobody}
      BY DEF RunsKept, ClientTypes
    <3>2. handler[d] # w
      <4>1. <<d, at[d]>> \in Clients \X Nat /\ w # Nobody
        BY BatchAssumption DEF RunsKept, ClientTypes
      <4>2. <<d, at[d]>> # Nobody
        BY <4>1, BatchAssumption
      <4> QED
        BY <1>3, <3>1, <4>1, <4>2 DEF RunKept, HandlerKept
    <3>3. \A v \in Writers : WorksFor(v, d)' => WorksFor(v, d)
      BY <1>1, <1>2 DEF WorksFor
    <3> QED
      BY <1>1, <1>2, <2>1, <3>1, <3>2, <3>3, RunRests DEF RunKept, HandlerKept
  <2> QED
    BY <1>2, <2>1, <2>2 DEF RunsKept, ClientTypes
<1>4. CASE serves[w] # Nobody
  <2>1. PICK c \in Clients : serves[w][1] = c
    BY <1>4 DEF RunsKept, ClientTypes
  <2>2. RunKept(c) /\ WorksFor(w, c)
    BY <1>4, <2>1 DEF RunsKept, WorksFor
  <2>3. /\ serves[w] = <<c, at[c]>> /\ status[c] \in {"running", "failed"}
        /\ status[c] = "running" => handler[c] = w
        /\ run[c][at[c]] # Get /\ at[c] \notin Did(c)
        /\ \A v \in Writers : WorksFor(v, c) => v = w
    BY <2>2 DEF RunKept, WorkKept
  <2>4. effects' = IF r.status = "ok" THEN [effects EXCEPT ![c] = Append(@, at[c])] ELSE effects
    BY <1>1, <1>4, <2>3 DEF Account
  <2>5. DOMAIN effects = Clients /\ DOMAIN effects' = Clients
        /\ \A d \in Clients : d # c => effects'[d] = effects[d]
    BY <2>4 DEF RunsKept, ClientTypes
  <2>6. ASSUME NEW d \in Clients, d # c PROVE RunKept(d)'
    <3>1. RunKept(d) /\ handler[d] \in Writers \cup {Nobody}
      BY DEF RunsKept, ClientTypes
    <3>2. handler[d] # w
      BY <2>3, <2>6, <3>1, BatchAssumption DEF RunKept, HandlerKept
    <3>3. \A v \in Writers : WorksFor(v, d)' => WorksFor(v, d)
      BY <1>1, <1>2 DEF WorksFor
    <3> QED
      BY <1>1, <1>2, <2>5, <2>6, <3>1, <3>2, <3>3, RunRests DEF RunKept, HandlerKept
  <2>7. /\ effects[c] \in Seq(Nat) /\ Ascends(effects[c])
        /\ Did(c) = Written(c, at[c] - 1) /\ at[c] \in Nat
    <3>1. Did(c) \ {at[c]} = Written(c, at[c] - 1)
      BY <2>2 DEF RunKept, ClientKept
    <3>2. Did(c) = Did(c) \ {at[c]}
      BY <2>3
    <3> QED
      BY <2>2, <3>1, <3>2 DEF RunKept, ClientKept, RunsKept, ClientTypes
  <2>8. /\ effects'[c] \in Seq(Nat) /\ Ascends(effects'[c])
        /\ Did(c)' = IF r.status = "ok" THEN Did(c) \cup {at[c]} ELSE Did(c)
    <3>1. CASE r.status # "ok"
      BY <2>4, <2>7, <3>1 DEF Did
    <3>2. CASE r.status = "ok"
      <4>1. effects'[c] = Append(effects[c], at[c])
        BY <2>4, <2>5, <3>2
      <4>2. \A i \in DOMAIN effects[c] : effects[c][i] < at[c]
        <5>1. \A i \in DOMAIN effects[c] : effects[c][i] \in Did(c)
          BY DEF Did, ToSet
        <5>2. \A i \in Did(c) : i \in 1..at[c] - 1
          BY <2>7 DEF Written
        <5> QED
          BY <2>7, <5>1, <5>2
      <4>3. effects'[c] \in Seq(Nat) /\ Ascends(effects'[c])
        BY <2>7, <4>1, <4>2 DEF Ascends
      <4>4. ToSet(Append(effects[c], at[c])) = ToSet(effects[c]) \cup {at[c]}
        BY <2>7, AppendSet
      <4> QED
        BY <3>2, <4>1, <4>3, <4>4 DEF Did
    <3> QED
      BY <3>1, <3>2
  <2>9. ClientKept(c)'
    <3>1. handler[c] \in Writers \cup {Nobody} /\ w # Nobody
      BY BatchAssumption DEF RunsKept, ClientTypes
    <3>2. Written(c, at[c] - 1)' = Written(c, at[c] - 1)
      BY <1>2 DEF Written
    <3>3. Did(c)' \ {at[c]} = Written(c, at[c] - 1)
      BY <2>3, <2>7, <2>8
    <3> QED
      BY <1>2, <2>2, <2>3, <2>8, <3>1, <3>2, <3>3 DEF RunKept, ClientKept
  <2>10. HandlerKept(c)'
    BY <1>1, <1>2, <2>2, <2>3, <2>8 DEF RunKept, HandlerKept
  <2>11. WorkKept(c)'
    BY <1>1, <1>2, <2>3 DEF WorkKept, WorksFor
  <2> QED
    BY <1>2, <2>5, <2>6, <2>9, <2>10, <2>11 DEF RunsKept, RunKept, ClientTypes
<1> QED
  BY <1>3, <1>4
-----------------------------------------------------------------------------
(***************************************************************************)
(* The steps of the clients.                                               *)
(***************************************************************************)
\* While a client waits for nothing, or for an answer that is there, no handler is at
\* work on its run.
LEMMA NobodyWorks ==
  ASSUME RunsKept, NEW c \in Clients, status[c] # "failed",
         handler[c] = Nobody \/ job[handler[c]] = Idle
  PROVE  \A v \in Writers : ~WorksFor(v, c)
BY BatchAssumption DEF RunsKept, RunKept, WorkKept, WorksFor

\* The runs of the others after a step of a client that touches no handler but its own.
LEMMA OthersRest ==
  ASSUME RunsKept, NEW c \in Clients, NEW d \in Clients, d # c,
         run'[d] = run[d], at'[d] = at[d], status'[d] = status[d],
         effects'[d] = effects[d], handler'[d] = handler[d],
         UNCHANGED <<job, reply>>,
         \A v \in Writers : serves'[v] = serves[v]
                            \/ (serves[v] # Nobody /\ serves[v][1] = c /\ serves'[v] = Nobody)
  PROVE  RunKept(d)'
<1>1. RunKept(d) /\ handler[d] \in Writers \cup {Nobody}
  BY DEF RunsKept, ClientTypes
<1>2. \A v \in Writers : WorksFor(v, d)' => WorksFor(v, d) /\ serves'[v] = serves[v]
  BY DEF WorksFor
<1>3. handler[d] # Nobody => serves'[handler[d]] = serves[handler[d]]
  BY <1>1 DEF RunKept, HandlerKept
<1>4. (handler[d] # Nobody /\ job'[handler[d]] = Idle) =>
        (reply'[handler[d]].status = "ok" <=> at[d] \in Did(d))
  BY <1>1 DEF RunKept, HandlerKept
<1> QED
  BY <1>1, <1>2, <1>3, <1>4, RunRests

LEMMA StartKeeps ==
  ASSUME RunsKept, NEW c \in Clients, NEW items \in Batches, Start(c, items)
  PROVE  RunsKept'
<1>1. /\ status[c] # "running" /\ UNCHANGED <<job, reply, handler>>
      /\ run' = [run EXCEPT ![c] = items] /\ at' = [at EXCEPT ![c] = 1]
      /\ status' = [status EXCEPT ![c] = "running"]
      /\ serves' = [w \in Writers |->
           IF serves[w] # Nobody /\ serves[w][1] = c THEN Nobody ELSE serves[w]]
      /\ effects' = [effects EXCEPT ![c] = <<>>]
  BY DEF Start, vars
<1>2. ClientTypes'
  BY <1>1 DEF RunsKept, ClientTypes
<1>3. /\ run'[c] = items /\ at'[c] = 1 /\ status'[c] = "running" /\ effects'[c] = <<>>
      /\ handler'[c] = Nobody
  BY <1>1 DEF RunsKept, ClientTypes, RunKept, HandlerKept
<1>4. items \in Seq(Jobs \cup {Get}) /\ Len(items) \in Nat /\ 1 \in 1..Len(items)
  BY BatchAssumption
<1>5. Did(c)' = {}
  BY <1>3 DEF Did, ToSet
<1>6. ClientKept(c)'
  <2>1. Written(c, at[c] - 1)' = {}
    BY <1>3 DEF Written
  <2>2. Ascends(<<>>) /\ <<>> \in Seq(Nat)
    BY DEF Ascends
  <2> QED
    BY <1>3, <1>4, <1>5, <2>1, <2>2 DEF ClientKept
<1>7. HandlerKept(c)' /\ WorkKept(c)'
  BY <1>1, <1>3 DEF HandlerKept, WorkKept, WorksFor
<1>8. ASSUME NEW d \in Clients, d # c PROVE RunKept(d)'
  <2>1. /\ run'[d] = run[d] /\ at'[d] = at[d] /\ status'[d] = status[d]
        /\ effects'[d] = effects[d] /\ handler'[d] = handler[d]
    BY <1>1, <1>8 DEF RunsKept, ClientTypes
  <2> QED
    BY <1>1, <1>8, <2>1, OthersRest
<1> QED
  BY <1>2, <1>6, <1>7, <1>8 DEF RunsKept, RunKept

LEMMA SendKeeps ==
  ASSUME Inv, RunsKept, NEW c \in Clients, NEW w \in Writers, Send(c, w)
  PROVE  RunsKept' /\ Item(c) \in Jobs
<1>1. /\ status[c] = "running" /\ handler[c] = Nobody /\ Item(c) # Get
      /\ job[w] = Idle /\ \A d \in Clients : handler[d] # w
      /\ job' = [job EXCEPT ![w] = Item(c)] /\ reply' = [reply EXCEPT ![w] = NoReply]
      /\ handler' = [handler EXCEPT ![c] = w]
      /\ serves' = [serves EXCEPT ![w] = <<c, at[c]>>]
      /\ UNCHANGED <<run, at, status, effects>>
  BY DEF Send, IsWaiting, IsUnused, Submit
<1>2. RunKept(c) /\ at[c] \in 1..Len(run[c]) /\ run[c] \in Seq(Jobs \cup {Get})
  BY <1>1 DEF RunsKept, RunKept, ClientKept
<1>3. Item(c) \in Jobs /\ Item(c) # Idle
  BY <1>1, <1>2, JobsAssumption DEF Item
<1>4. /\ ClientTypes' /\ job'[w] = Item(c) /\ serves'[w] = <<c, at[c]>> /\ handler'[c] = w
      /\ \A v \in Writers : v # w => job'[v] = job[v] /\ reply'[v] = reply[v]
                                    /\ serves'[v] = serves[v]
      /\ \A d \in Clients : d # c => handler'[d] = handler[d]
  BY <1>1 DEF RunsKept, ClientTypes, Inv, TypeOK
<1>5. at[c] \notin Did(c) /\ Did(c)' = Did(c)
  BY <1>1, <1>2 DEF RunKept, ClientKept, Did
<1>6. ClientKept(c)'
  BY <1>1, <1>2, <1>5 DEF RunKept, ClientKept, Ascends, Written
<1>7. HandlerKept(c)'
  BY <1>1, <1>3, <1>4 DEF HandlerKept, Item
<1>8. WorkKept(c)'
  <2>1. \A v \in Writers : WorksFor(v, c)' => v = w
    BY <1>1, <1>4, NobodyWorks DEF WorksFor
  <2> QED
    BY <1>1, <1>4, <1>5, <2>1 DEF WorkKept, Item
<1>9. ASSUME NEW d \in Clients, d # c PROVE RunKept(d)'
  <2>1. RunKept(d) /\ handler[d] \in Writers \cup {Nobody}
    BY DEF RunsKept, ClientTypes
  <2>2. \A v \in Writers : WorksFor(v, d)' => WorksFor(v, d) /\ serves'[v] = serves[v]
    <3> SUFFICES ASSUME NEW v \in Writers, WorksFor(v, d)'
                 PROVE  WorksFor(v, d) /\ serves'[v] = serves[v]
      OBVIOUS
    <3>1. v # w
      BY <1>4, <1>9 DEF WorksFor
    <3> QED
      BY <1>4, <3>1 DEF WorksFor
  <2>3. handler[d] # Nobody =>
          /\ serves'[handler[d]] = serves[handler[d]]
          /\ job'[handler[d]] = Idle => (reply'[handler[d]].status = "ok" <=> at[d] \in Did(d))
    BY <1>1, <1>4, <2>1 DEF RunKept, HandlerKept
  <2> QED
    BY <1>1, <1>4, <1>9, <2>1, <2>2, <2>3, RunRests
<1> QED
  BY <1>3, <1>4, <1>6, <1>7, <1>8, <1>9 DEF RunsKept, RunKept

\* A client goes on to its next item once the one it is at has had its effect, if it
\* is to have one.
LEMMA AdvanceKeeps ==
  ASSUME RunsKept, NEW c \in Clients, status[c] = "running", Advance(c),
         handler' = [handler EXCEPT ![c] = Nobody],
         handler[c] = Nobody \/ job[handler[c]] = Idle,
         at[c] \in Did(c) <=> run[c][at[c]] # Get,
         UNCHANGED <<job, reply, run, serves, effects>>
  PROVE  RunsKept'
<1>1. /\ at' = [at EXCEPT ![c] = at[c] + 1]
      /\ status' = [status EXCEPT ![c] = IF at[c] = Len(run[c]) THEN "completed" ELSE "running"]
  BY DEF Advance
<1>2. /\ RunKept(c) /\ at[c] \in 1..Len(run[c]) /\ run[c] \in Seq(Jobs \cup {Get})
      /\ Len(run[c]) \in Nat /\ Did(c) \ {at[c]} = Written(c, at[c] - 1)
      /\ effects[c] \in Seq(Nat) /\ Ascends(effects[c])
  BY DEF RunsKept, RunKept, ClientKept
<1>3. /\ ClientTypes' /\ at'[c] = at[c] + 1 /\ handler'[c] = Nobody
      /\ status'[c] = IF at[c] = Len(run[c]) THEN "completed" ELSE "running"
  BY <1>1, <1>2 DEF RunsKept, ClientTypes
<1>4. Did(c)' = Did(c) /\ Did(c) = Written(c, at[c])
  <2>1. \A i : i \in Written(c, at[c]) <=>
          i \in Written(c, at[c] - 1) \/ (i = at[c] /\ run[c][at[c]] # Get)
    BY <1>2 DEF Written
  <2>2. \A i : i \in Did(c) <=>
          i \in Written(c, at[c] - 1) \/ (i = at[c] /\ run[c][at[c]] # Get)
    <3> HIDE DEF Did
    <3> QED
      BY <1>2
  <2>3. Did(c) = Written(c, at[c])
    <3> HIDE DEF Did
    <3> QED
      BY <2>1, <2>2
  <2> QED
    BY <2>3 DEF Did
<1>5. ClientKept(c)'
  <2>1. at[c] + 1 \notin Written(c, at[c]) /\ (at[c] + 1) - 1 = at[c]
    BY <1>2 DEF Written
  <2>2. Written(c, at[c] - 1)' = Written(c, at[c])
    BY <1>3, <2>1 DEF Written
  <2>3. Did(c)' \ {at'[c]} = Written(c, at[c] - 1)'
    BY <1>3, <1>4, <2>1, <2>2
  <2> QED
    BY <1>2, <1>3, <1>4, <2>1, <2>3 DEF ClientKept
<1>6. HandlerKept(c)'
  BY <1>3 DEF HandlerKept
<1>7. WorkKept(c)'
  BY NobodyWorks DEF WorkKept, WorksFor
<1>8. ASSUME NEW d \in Clients, d # c PROVE RunKept(d)'
  <2>1. /\ run'[d] = run[d] /\ at'[d] = at[d] /\ status'[d] = status[d]
        /\ effects'[d] = effects[d] /\ handler'[d] = handler[d]
    BY <1>1, <1>8 DEF RunsKept, ClientTypes
  <2> QED
    BY <1>8, <2>1, OthersRest
<1> QED
  BY <1>3, <1>5, <1>6, <1>7, <1>8 DEF RunsKept, RunKept

LEMMA ReadKeeps ==
  ASSUME RunsKept, NEW c \in Clients, Read(c)
  PROVE  RunsKept'
<1>1. /\ status[c] = "running" /\ handler[c] = Nobody /\ run[c][at[c]] = Get /\ Advance(c)
      /\ UNCHANGED <<job, reply, run, handler, serves, effects>>
  BY DEF Read, IsWaiting, Item, vars
<1>2. at[c] \notin Did(c)
  BY <1>1 DEF RunsKept, RunKept, ClientKept
<1>3. handler' = [handler EXCEPT ![c] = Nobody]
  BY <1>1 DEF RunsKept, ClientTypes
<1> QED
  BY <1>1, <1>2, <1>3, AdvanceKeeps

\* A client that gives up: what its handler does yet is an effect of the item that failed.
LEMMA GiveUpKeeps ==
  ASSUME RunsKept, NEW c \in Clients, status[c] = "running",
         status' = [status EXCEPT ![c] = "failed"],
         handler' = [handler EXCEPT ![c] = Nobody],
         UNCHANGED <<job, reply, run, at, serves, effects>>
  PROVE  RunsKept'
<1>1. ClientTypes' /\ status'[c] = "failed" /\ handler'[c] = Nobody
  BY DEF RunsKept, ClientTypes
<1>2. RunKept(c) /\ Did(c)' = Did(c)
  BY DEF RunsKept, Did
<1>3. ClientKept(c)'
  BY <1>1, <1>2 DEF RunKept, ClientKept, Ascends, Written
<1>4. HandlerKept(c)' /\ WorkKept(c)'
  BY <1>1, <1>2 DEF RunKept, HandlerKept, WorkKept, WorksFor
<1>5. ASSUME NEW d \in Clients, d # c PROVE RunKept(d)'
  <2>1. /\ run'[d] = run[d] /\ at'[d] = at[d] /\ status'[d] = status[d]
        /\ effects'[d] = effects[d] /\ handler'[d] = handler[d]
    BY <1>5 DEF RunsKept, ClientTypes
  <2> QED
    BY <1>5, <2>1, OthersRest
<1> QED
  BY <1>1, <1>3, <1>4, <1>5 DEF RunsKept, RunKept

LEMMA ReceiveKeeps ==
  ASSUME RunsKept, NEW c \in Clients, Receive(c)
  PROVE  RunsKept'
<1> DEFINE w == handler[c]
<1>1. /\ w # Nobody /\ job[w] = Idle /\ handler' = [handler EXCEPT ![c] = Nobody]
      /\ IF reply[w].status = "ok" THEN Advance(c)
         ELSE status' = [status EXCEPT ![c] = "failed"] /\ at' = at
      /\ UNCHANGED <<job, reply, run, serves, effects>>
  BY DEF Receive, Succeeded, vars
<1>2. /\ status[c] = "running" /\ run[c][at[c]] # Get
      /\ reply[w].status = "ok" <=> at[c] \in Did(c)
  BY <1>1 DEF RunsKept, RunKept, HandlerKept
<1>3. CASE reply[w].status = "ok"
  BY <1>1, <1>2, <1>3, AdvanceKeeps
<1>4. CASE reply[w].status # "ok"
  BY <1>1, <1>2, <1>4, GiveUpKeeps
<1> QED
  BY <1>3, <1>4

LEMMA FailKeeps ==
  ASSUME RunsKept, NEW c \in Clients, Fail(c)
  PROVE  RunsKept'
<1>1. /\ status[c] = "running" /\ status' = [status EXCEPT ![c] = "failed"]
      /\ handler' = [handler EXCEPT ![c] = Nobody]
      /\ UNCHANGED <<job, reply, run, at, serves, effects>>
  BY DEF Fail, HasTimer, vars
<1> QED
  BY <1>1, GiveUpKeeps

\* A local command is no client's, and has its own process.
LEMMA LocalKeeps ==
  ASSUME Inv, RunsKept, NEW w \in Writers, NEW j \in Jobs, Local(w, j)
  PROVE  RunsKept'
<1>1. /\ job[w] = Idle /\ \A d \in Clients : handler[d] # w
      /\ job' = [job EXCEPT ![w] = j] /\ reply' = [reply EXCEPT ![w] = NoReply]
      /\ serves' = [serves EXCEPT ![w] = Nobody]
      /\ UNCHANGED <<run, at, status, handler, effects>>
  BY DEF Local, IsUnused, Submit
<1>2. /\ ClientTypes' /\ serves'[w] = Nobody
      /\ \A v \in Writers : v # w => job'[v] = job[v] /\ reply'[v] = reply[v]
                                    /\ serves'[v] = serves[v]
  BY <1>1 DEF RunsKept, ClientTypes, Inv, TypeOK
<1>3. ASSUME NEW d \in Clients PROVE RunKept(d)'
  <2>1. RunKept(d) /\ handler[d] \in Writers \cup {Nobody}
    BY DEF RunsKept, ClientTypes
  <2>2. \A v \in Writers : WorksFor(v, d)' => WorksFor(v, d) /\ serves'[v] = serves[v]
    BY <1>2 DEF WorksFor
  <2>3. handler[d] # Nobody =>
          /\ serves'[handler[d]] = serves[handler[d]]
          /\ job'[handler[d]] = Idle => (reply'[handler[d]].status = "ok" <=> at[d] \in Did(d))
    BY <1>1, <1>2, <2>1 DEF RunKept, HandlerKept
  <2> QED
    BY <1>1, <2>1, <2>2, <2>3, RunRests
<1> QED
  BY <1>2, <1>3 DEF RunsKept

\* Clients whose handler dies with the server find no answer.
LEMMA CrashKeeps ==
  ASSUME RunsKept, Crash, UNCHANGED clients
  PROVE  RunsKept'
<1>1. /\ job' = [w \in Writers |-> Idle]
      /\ reply' = [w \in Writers |-> IF job[w] = Idle THEN reply[w] ELSE Replied("lost")]
      /\ UNCHANGED <<run, at, status, handler, serves, effects>>
  BY DEF Crash, clients
<1>2. ASSUME NEW d \in Clients PROVE RunKept(d)'
  <2>1. RunKept(d) /\ handler[d] \in Writers \cup {Nobody}
    BY DEF RunsKept, ClientTypes
  <2>2. \A v \in Writers : ~WorksFor(v, d)'
    BY <1>1 DEF WorksFor
  <2>3. ASSUME handler[d] # Nobody
        PROVE  reply'[handler[d]].status = "ok" <=> at[d] \in Did(d)
    <3>1. CASE job[handler[d]] = Idle
      BY <1>1, <2>1, <2>3, <3>1 DEF RunKept, HandlerKept
    <3>2. CASE job[handler[d]] # Idle
      <4>1. serves[handler[d]] = <<d, at[d]>> /\ <<d, at[d]>> \in Clients \X Nat
        BY <2>1, <2>3 DEF RunKept, HandlerKept, RunsKept, ClientTypes
      <4>2. WorksFor(handler[d], d)
        BY <3>2, <4>1, BatchAssumption DEF WorksFor
      <4>3. at[d] \notin Did(d)
        BY <2>1, <2>3, <4>2 DEF RunKept, WorkKept
      <4>4. reply'[handler[d]].status = "lost"
        BY <1>1, <2>1, <2>3, <3>2 DEF Replied
      <4> QED
        BY <4>3, <4>4
    <3> QED
      BY <3>1, <3>2
  <2> QED
    BY <1>1, <2>1, <2>2, <2>3, RunRests
<1> QED
  BY <1>1, <1>2 DEF RunsKept, ClientTypes

\* A step that neither answers nor takes up a job is none of the clients'.
LEMMA IdleKeeps ==
  ASSUME RunsKept, UNCHANGED <<job, reply, run, at, status, handler, serves, effects>>
  PROVE  RunsKept'
<1>1. ASSUME NEW d \in Clients PROVE RunKept(d)'
  BY RunRests DEF RunsKept, RunKept, HandlerKept, WorksFor
<1> QED
  BY <1>1 DEF RunsKept, ClientTypes

-----------------------------------------------------------------------------
LEMMA BatchNextInv ==
  ASSUME BatchInv, [BatchNext]_allVars
  PROVE  /\ BatchInv'
         /\ [Next]_vars \/ \E w \in Writers : Drop(w)
<1> USE DEF BatchInv
<1>1. ASSUME [Next]_vars PROVE Inv' /\ Progress'
  BY <1>1, NextInv, NextProgress
<1>2. ASSUME NEW c \in Clients, (\E items \in Batches : Start(c, items)) \/ Read(c)
                                \/ Receive(c) \/ Fail(c)
      PROVE  RunsKept' /\ UNCHANGED vars
  BY <1>2, StartKeeps, ReadKeeps, ReceiveKeeps, FailKeeps DEF Start, Read, Receive, Fail
<1>3. ASSUME NEW c \in Clients, NEW w \in Writers, Send(c, w)
      PROVE  RunsKept' /\ Next
  <2>1. RunsKept' /\ Item(c) \in Jobs /\ Submit(w, Item(c))
    BY <1>3, SendKeeps DEF Send
  <2> QED
    BY <2>1 DEF Next
<1>4. ASSUME NEW w \in Writers, Handle(w) PROVE RunsKept' /\ Next
  <2>1. (Reject(w) \/ Begin(w) \/ Work(w) \/ Fault(w)) /\ Account(w)
    BY <1>4 DEF Handle
  <2>2. CASE UNCHANGED <<job, reply>>
    <3>1. effects' = effects
      BY <2>1, <2>2 DEF Account
    <3> QED
      BY <2>1, <2>2, <3>1, IdleKeeps DEF Account, Next
  <2>3. CASE job[w] # Idle /\ \E r : Answer(w, r)
    BY <2>1, <2>3, AnswerKeeps DEF Next
  <2> QED
    BY <2>1, <2>2, <2>3, HandlerAnswers
<1>5. ASSUME NEW w \in Writers, Drop(w) PROVE RunsKept' /\ Inv' /\ Progress'
  <2>1. Answer(w, Replied("lost")) /\ UNCHANGED clients /\ job[w] # Idle
    BY <1>5 DEF Drop
  <2>2. reply'[w].status # "ok"
    BY <2>1 DEF Answer, Replied, Inv, TypeOK
  <2>3. Account(w)
    BY <2>1, <2>2 DEF Account, clients
  <2> QED
    BY <1>5, <2>1, <2>3, AnswerKeeps, DropKeeps
<1>6. ASSUME NEW w \in Writers, NEW j \in LocalJobs, Local(w, j) PROVE RunsKept' /\ Next
  <2>1. j \in Jobs
    BY BatchAssumption
  <2> QED
    BY <1>6, <2>1, LocalKeeps DEF Local, Next
<1>7. ASSUME Crash, UNCHANGED clients PROVE RunsKept' /\ Next
  BY <1>7, CrashKeeps DEF Next
<1>8. ASSUME UNCHANGED allVars PROVE RunsKept' /\ UNCHANGED vars
  <2>1. UNCHANGED vars /\ UNCHANGED <<job, reply, run, at, status, handler, serves, effects>>
    BY <1>8 DEF allVars, clients, vars
  <2> QED
    BY <2>1, IdleKeeps
<1>9. \/ RunsKept' /\ [Next]_vars
      \/ \E w \in Writers : Drop(w) /\ RunsKept' /\ Inv' /\ Progress'
  <2>1. ASSUME NEW c \in Clients, ClientStep(c) \/ \E items \in Batches : Start(c, items)
        PROVE  RunsKept' /\ [Next]_vars
    BY <1>2, <1>3, <2>1 DEF ClientStep
  <2>2. ASSUME NEW w \in Writers, Handle(w) \/ \E j \in LocalJobs : Local(w, j)
        PROVE  RunsKept' /\ [Next]_vars
    BY <1>4, <1>6, <2>2
  <2> QED
    BY <1>5, <1>7, <1>8, <2>1, <2>2 DEF BatchNext
<1> QED
  BY <1>1, <1>9

LEMMA BatchInvariance == BatchSpec => []BatchInv
  BY BatchInitInv, BatchNextInv, PTL DEF BatchSpec

(***************************************************************************)
(* A client hears the answer to the item it is at, or none.                *)
(***************************************************************************)
THEOREM ClientsStayInStep == BatchSpec => []ClientsOK
<1>1. ASSUME BatchInv PROVE ClientsOK
  <2> SUFFICES ASSUME NEW c \in Clients
               PROVE  /\ status[c] \in {"idle", "running", "completed", "failed"}
                      /\ at[c] \in 0..Len(run[c]) + 1
                      /\ handler[c] # Nobody =>
                           status[c] = "running" /\ serves[handler[c]] = <<c, at[c]>>
    BY DEF ClientsOK
  <2>1. ClientTypes /\ RunKept(c)
    BY <1>1 DEF BatchInv, RunsKept
  <2>2. Len(run[c]) \in Nat
    BY <2>1 DEF RunKept, ClientKept
  <2>3. at[c] \in 0..Len(run[c]) + 1
    BY <2>1, <2>2 DEF RunKept, ClientKept, ClientTypes
  <2> QED
    BY <2>1, <2>3 DEF RunKept, HandlerKept, ClientTypes
<1> QED
  BY <1>1, BatchInvariance, PTL

(***************************************************************************)
(* The items of a run take effect in order and once each, whatever times   *)
(* out, is dropped or dies: all of a run that completed, and of one that   *)
(* failed the earlier ones, and perhaps the one it failed at.              *)
(***************************************************************************)
THEOREM RunsStayInOrder == BatchSpec => []RunsInOrder
<1>1. ASSUME BatchInv PROVE RunsInOrder
  <2> SUFFICES ASSUME NEW c \in Clients
               PROVE  LET did == ToSet(effects[c]) IN
                      /\ \A i, j \in DOMAIN effects[c] : i < j => effects[c][i] < effects[c][j]
                      /\ CASE status[c] = "idle"      -> did = {}
                           [] status[c] = "completed" -> did = Written(c, Len(run[c]))
                           [] OTHER -> did \in {Written(c, at[c] - 1),
                                                Written(c, at[c] - 1) \cup {at[c]}}
    BY DEF RunsInOrder
  <2>1. RunKept(c) /\ status[c] \in {"idle", "running", "completed", "failed"}
    BY <1>1 DEF BatchInv, RunsKept, ClientTypes
  <2>2. /\ Ascends(effects[c]) /\ Did(c) \ {at[c]} = Written(c, at[c] - 1)
        /\ status[c] \notin {"running", "failed"} => at[c] \notin Did(c)
        /\ status[c] = "idle" => at[c] = 0
        /\ status[c] = "completed" => at[c] = Len(run[c]) + 1 /\ Len(run[c]) \in Nat
    BY <2>1 DEF RunKept, ClientKept
  <2>3. at[c] \notin Did(c) => Did(c) = Written(c, at[c] - 1)
    BY <2>2
  <2>4. at[c] \in Did(c) => Did(c) = Written(c, at[c] - 1) \cup {at[c]}
    BY <2>2
  <2>5. status[c] = "idle" => Did(c) = {}
    BY <2>2, <2>3 DEF Written
  <2>6. status[c] = "completed" => Did(c) = Written(c, Len(run[c]))
    BY <2>2, <2>3
  <2>7. Did(c) = ToSet(effects[c])
    BY DEF Did
  <2> QED
    BY <2>2, <2>3, <2>4, <2>5, <2>6, <2>7 DEF Ascends
<1> QED
  BY <1>1, BatchInvariance, PTL

(***************************************************************************)
(* Asked by clients that give up and by local commands, the store keeps its*)
(* promise too: a request that is dropped is one that is lost.             *)
(***************************************************************************)
THEOREM BatchesKeepPromise == BatchSpec => KeepsPromise
<1>1. BatchInit => Promise!Init
  BY InitPromise DEF BatchInit
<1>2. ASSUME NEW w \in Writers, Drop(w) PROVE Promise!Next
  BY <1>2 DEF Drop, Answer, committed, Promise!Lose, Promise!Answer, Promise!state,
              Promise!Replied, Replied, Promise!Next
<1>3. BatchInv /\ [BatchNext]_allVars => [Promise!Next]_Promise!vars
  BY <1>2, BatchNextInv, NextRefines DEF BatchInv
<1> QED
  BY <1>1, <1>3, BatchInvariance, PTL DEF BatchSpec, KeepsPromise, Promise!Spec
=============================================================================
