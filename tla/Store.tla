-------------------------------- MODULE Store --------------------------------
(***************************************************************************)
(* The LMDB record store of dnsuck, src/src/dnslogic/store.rs: API writers *)
(* that take turns at LMDB's one write transaction, work through their job *)
(* name by name on the transaction's private copy, and commit it or drop   *)
(* it. The revision guards what readers cache, so it must move with every  *)
(* change of the records or of the ordering policies.                      *)
(***************************************************************************)
EXTENDS Records

CONSTANT NoWriter

VARIABLES
  db,          \* committed: the encoded value of every key, or Absent
  modes,       \* committed: the ordering policies in the metadata table
  revision,    \* committed: the revision in the metadata table
  lock,        \* the writer whose write transaction is open
  txnDb,       \* the transaction's view of db ...
  txnModes,    \* ... and of modes; without a transaction, the committed ones
  todo,        \* the names of the job still to work through
  changed,     \* whether the transaction must bump the revision
  fresh,       \* the records it added or removed, by key; the answer counts them
  job, reply   \* per writer: the job it waits for, the last answer it got

committed == <<db, modes, revision>>
txn == <<txnDb, txnModes, todo, changed, fresh>>
vars == <<db, modes, revision, lock, txnDb, txnModes, todo, changed, fresh, job, reply>>

Promise == INSTANCE StorePromise WITH records <- [k \in Keys |-> Contents(db[k])]

ASSUME WriterAssumption == NoWriter \notin Writers

-----------------------------------------------------------------------------
Init ==
  /\ db \in [Keys -> Legacy \cup {Absent}]
  /\ \A p \in Patterns : db[p] = Absent
  /\ modes = [rrset \in RRsets |-> NoMode]
  /\ revision = 0
  /\ lock = NoWriter
  /\ txnDb = db
  /\ txnModes = modes
  /\ todo = {}
  /\ changed = FALSE
  /\ fresh = {}
  /\ job = [w \in Writers |-> Idle]
  /\ reply = [w \in Writers |-> NoReply]

Answer(w, r) ==
  /\ job' = [job EXCEPT ![w] = Idle]
  /\ reply' = [reply EXCEPT ![w] = r]

\* A dropped transaction leaves nothing behind.
DropTxn ==
  /\ lock' = NoWriter
  /\ txnDb' = db
  /\ txnModes' = modes
  /\ todo' = {}
  /\ changed' = FALSE
  /\ fresh' = {}

-----------------------------------------------------------------------------
Submit(w, j) ==
  /\ job[w] = Idle
  /\ job' = [job EXCEPT ![w] = j]
  /\ reply' = [reply EXCEPT ![w] = NoReply]
  /\ UNCHANGED <<committed, lock, txn>>

\* A record that does not parse, or a name that is none, needs no transaction.
Reject(w) ==
  /\ job[w] # Idle
  /\ lock # w
  /\ ~IsWellFormed(job[w])
  /\ Answer(w, Replied("refused"))
  /\ UNCHANGED <<committed, lock, txn>>

\* Faulty variant: two writers stage their jobs on one view.
IsShared == TRUE

\* begin_rw_txn waits for LMDB's writer lock.
IsFree == lock = NoWriter

\* LMDB has one write transaction at a time.
Begin(w) ==
  /\ job[w] # Idle
  /\ IsWellFormed(job[w])
  /\ IsFree
  /\ lock' = w
  /\ todo' = KeysOf(job[w])
  /\ UNCHANGED <<committed, txnDb, txnModes, changed, fresh, job, reply>>

\* Faulty variant: a policy that is written counts as a change only together
\* with new records.
CountsRecordsOnly(stored, before, after) == stored

\* A transaction is changed by a value it stores and by a policy it alters.
CountsAsChange(stored, before, after) == stored \/ after # before

\* One name of an add or upsert. The order of the names does not matter: the
\* transaction shows nothing before it commits all of them.
Write(w, k) ==
  LET j        == job[w]
      old      == Contents(txnDb[k])
      incoming == Incoming(j.batch, k)
      new      == Merge(old, incoming, j.replace)
      puts     == j.replace \/ new # old
  IN
  /\ lock = w
  /\ j.op = "write"
  /\ k \in todo
  /\ Fits(old, incoming, j.replace, j.mode)
  /\ txnModes' = [rrset \in RRsets |->
       IF j.mode # NoMode /\ rrset[1] = k /\ rrset[2] \in KindsOf(incoming)
       THEN j.mode ELSE txnModes[rrset]]
  /\ txnDb' = IF puts THEN [txnDb EXCEPT ![k] = Encode(new)] ELSE txnDb
  /\ changed' = (changed \/ CountsAsChange(puts, txnModes, txnModes'))
  /\ fresh' = IF j.replace THEN fresh ELSE fresh \cup {<<k, r>> : r \in new \ old}
  /\ todo' = todo \ {k}
  /\ UNCHANGED <<committed, lock, job, reply>>

\* A name whose records would break a rule takes the whole batch with it.
Refuse(w, k) ==
  LET j == job[w] IN
  /\ lock = w
  /\ j.op = "write"
  /\ k \in todo
  /\ ~Fits(Contents(txnDb[k]), Incoming(j.batch, k), j.replace, j.mode)
  /\ Answer(w, Replied("refused"))
  /\ DropTxn
  /\ UNCHANGED committed

\* A name that lost its last record loses its key.
EncodeOrRemove(recs) == IF recs = {} THEN Absent ELSE Encode(recs)

\* delete_matching. A deletion that finds nothing drops its transaction, which
\* is the same as committing one that changed nothing.
Delete(w, k) ==
  LET j    == job[w]
      old  == Contents(txnDb[k])
      gone == Doomed(old, j)
  IN
  /\ lock = w
  /\ j.op = "delete"
  /\ k \in todo
  /\ IF gone = {}
     THEN UNCHANGED <<txnDb, txnModes, changed, fresh>>
     ELSE /\ txnDb' = [txnDb EXCEPT ![k] = EncodeOrRemove(old \ gone)]
          /\ txnModes' = [rrset \in RRsets |->
               IF rrset[1] = k /\ rrset[2] \in Dropped(old, j)
               THEN NoMode ELSE txnModes[rrset]]
          /\ changed' = TRUE
          /\ fresh' = {<<k, r>> : r \in gone}
  /\ todo' = todo \ {k}
  /\ UNCHANGED <<committed, lock, job, reply>>

\* Faulty variant: the revision wraps round instead of overflowing.
HasRevisionLeft == TRUE

HasNextRevision == revision < MaxRevision

Commit(w) ==
  /\ lock = w
  /\ todo = {}
  /\ changed => HasNextRevision
  /\ db' = txnDb
  /\ modes' = txnModes
  /\ revision' = IF changed THEN revision + 1 ELSE revision
  /\ Answer(w, [status |-> "ok",
                count |-> IF job[w].op = "write" /\ job[w].replace
                          THEN Len(job[w].batch) ELSE Cardinality(fresh)])
  /\ lock' = NoWriter
  /\ changed' = FALSE
  /\ fresh' = {}
  /\ UNCHANGED <<txnDb, txnModes, todo>>

\* Faulty variant: the bump is tried again until it succeeds.
OverflowRetried(w) ==
  /\ lock = w
  /\ todo = {}
  /\ changed
  /\ ~HasNextRevision
  /\ UNCHANGED vars

\* bump_revision overflows, and the error drops the transaction.
Overflow(w) ==
  /\ lock = w
  /\ todo = {}
  /\ changed
  /\ ~HasNextRevision
  /\ Answer(w, Replied("failed"))
  /\ DropTxn
  /\ UNCHANGED committed

\* LMDB refuses a put, a del or the commit: its map is full, or the disk is.
Fault(w) ==
  /\ lock = w
  /\ Answer(w, Replied("failed"))
  /\ DropTxn
  /\ UNCHANGED committed

\* The process dies and a new one opens the database.
Crash ==
  /\ job' = [w \in Writers |-> Idle]
  /\ reply' = [w \in Writers |-> IF job[w] = Idle THEN reply[w] ELSE Replied("lost")]
  /\ DropTxn
  /\ UNCHANGED committed

Work(w) ==
  \/ \E k \in Keys : Write(w, k) \/ Refuse(w, k) \/ Delete(w, k)
  \/ Commit(w)
  \/ Overflow(w)

Next ==
  \/ \E w \in Writers : \/ \E j \in Jobs : Submit(w, j)
                        \/ Reject(w)
                        \/ Begin(w)
                        \/ Work(w)
                        \/ Fault(w)
  \/ Crash

Spec == Init /\ [][Next]_vars

\* A thread that holds the transaction goes on: nothing in it waits.
FairSpec == Spec /\ \A w \in Writers : WF_vars(Work(w))

-----------------------------------------------------------------------------
(***************************************************************************)
(* What must hold.                                                         *)
(***************************************************************************)
\* The types of the state: every stored value is one that decode reads, and the
\* revision, checked_add in the code, never goes past its largest value.
TypeOK ==
  /\ db \in [Keys -> Value \cup {Absent}]
  /\ modes \in [RRsets -> Modes \cup {NoMode}]
  /\ revision \in 0..MaxRevision
  /\ lock \in Writers \cup {NoWriter}
  /\ txnDb \in [Keys -> Value \cup {Absent}]
  /\ txnModes \in [RRsets -> Modes \cup {NoMode}]
  /\ todo \subseteq Keys
  /\ changed \in BOOLEAN
  /\ fresh \subseteq Keys \X Stored
  /\ job \in [Writers -> Jobs \cup {Idle}]
  /\ reply \in [Writers -> Replies]

\* Whatever batches and deletions meet, the stored records of a name have one
\* TTL per type and no record beside a CNAME, and a name that lost its last
\* record has no value left, which would hide the patterns that match the name.
ConsistentNames(values) ==
  \A k \in Keys : values[k] # Absent =>
    Decode(values[k]) # {} /\ IsConsistent(Decode(values[k]))

NamesConsistent == ConsistentNames(db)

\* An ordering policy belongs to an RRset that exists, and a geo policy to one of
\* addresses: a policy outliving its RRset would apply to the next one there.
OwnedPolicies(policies, values) ==
  \A k \in Keys, kind \in Kinds : policies[<<k, kind>>] # NoMode =>
    /\ kind \in KindsOf(Contents(values[k]))
    /\ policies[<<k, kind>>] = "geo" => kind \in {"A", "AAAA"}

PoliciesOwned == OwnedPolicies(modes, db)

\* What the open transaction shows obeys the same rules before it is committed,
\* only a transaction that will bump the revision differs from what is committed,
\* and it belongs to a writer still waiting for its answer.
TransactionSound ==
  /\ ConsistentNames(txnDb)
  /\ OwnedPolicies(txnModes, txnDb)
  /\ ~changed => txnDb = db /\ txnModes = modes
  /\ lock # NoWriter =>
       /\ job[lock] # Idle
       /\ IsWellFormed(job[lock])
       /\ todo \subseteq KeysOf(job[lock])

\* Readers keep compiled patterns and signed zones by revision: the records and
\* the policies never change under a revision that was already in use.
RevisionNamesContent ==
  [][db' # db \/ modes' # modes => revision' = revision + 1]_vars

\* A write is acknowledged only if every record of it is stored as submitted, its
\* TTL included, a record that was there already with another TTL notwithstanding.
AcknowledgedStored ==
  [][\A w \in Writers : LET j == job[w] IN
       j # Idle /\ reply'[w].status = "ok" /\ j.op = "write" =>
         \A k \in BatchKeys(j.batch) : Incoming(j.batch, k) \subseteq Contents(db'[k])]_vars

\* Jobs take effect as a whole, when they are answered, or not at all.
KeepsPromise == Promise!Spec

\* A writer that got the write transaction gives it back, whatever it finds.
TransactionEnds == \A w \in Writers : lock = w ~> lock # w
=============================================================================
