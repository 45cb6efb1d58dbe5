-------------------------------- MODULE Batch --------------------------------
(***************************************************************************)
(* The writers of the store and who asks them: runs of the command line    *)
(* client, src/cmd/src/main.rs, that send their items one by one to API    *)
(* handlers, and the local commands of dnsuckd, src/src/main.rs, which     *)
(* write to the same database from another process. A client waits 30 s    *)
(* for an answer; the handler it gave up on goes on, unless the server     *)
(* drops its request before the work on it has begun.                      *)
(***************************************************************************)
EXTENDS Store, SequencesExt

CONSTANTS
  Clients,
  Batches,    \* what a client can be told to do: sequences of jobs and Get
  Get,        \* an item that only reads
  LocalJobs,  \* what a local command may write
  Nobody

ASSUME BatchAssumption ==
  /\ Batches \subseteq Seq(Jobs \cup {Get}) \ {<<>>}
  /\ Get \notin Jobs
  /\ \A j \in LocalJobs : j \in Jobs /\ j.op = "write" /\ j.replace /\ j.mode = NoMode
  /\ Nobody \notin Writers /\ Nobody \notin Clients \X Nat

VARIABLES
  run,      \* per client: the items of its run, <<>> before the first
  at,       \* per client: the item it is at, or the one that failed
  status,   \* per client: idle, running, completed or failed
  handler,  \* per client: the handler that has its request, or Nobody
  serves,   \* per handler: the client and item it works for, or Nobody
  effects   \* per client: the items of its run that took effect, in that order

clients == <<run, at, status, handler, serves, effects>>
allVars == <<vars, clients>>

BatchInit ==
  /\ Init
  /\ run = [c \in Clients |-> <<>>]
  /\ at = [c \in Clients |-> 0]
  /\ status = [c \in Clients |-> "idle"]
  /\ handler = [c \in Clients |-> Nobody]
  /\ serves = [w \in Writers |-> Nobody]
  /\ effects = [c \in Clients |-> <<>>]

-----------------------------------------------------------------------------
\* All items have been parsed before the first is sent. What a handler still does
\* for an earlier run is no effect of this one.
Start(c, items) ==
  /\ status[c] # "running"
  /\ run' = [run EXCEPT ![c] = items]
  /\ at' = [at EXCEPT ![c] = 1]
  /\ status' = [status EXCEPT ![c] = "running"]
  /\ serves' = [w \in Writers |->
       IF serves[w] # Nobody /\ serves[w][1] = c THEN Nobody ELSE serves[w]]
  /\ effects' = [effects EXCEPT ![c] = <<>>]
  /\ UNCHANGED <<vars, handler>>

Item(c) == run[c][at[c]]
IsWaiting(c) == status[c] = "running" /\ handler[c] = Nobody

\* Faulty variant: a handler is given away while its answer is on the way.
HasFinished(w) == job[w] = Idle

IsUnused(w) == job[w] = Idle /\ \A c \in Clients : handler[c] # w

Send(c, w) ==
  /\ IsWaiting(c)
  /\ Item(c) # Get
  /\ IsUnused(w)
  /\ Submit(w, Item(c))
  /\ handler' = [handler EXCEPT ![c] = w]
  /\ serves' = [serves EXCEPT ![w] = <<c, at[c]>>]
  /\ UNCHANGED <<run, at, status, effects>>

\* The next item, or the end of the run.
Advance(c) ==
  /\ at' = [at EXCEPT ![c] = @ + 1]
  /\ status' = [status EXCEPT ![c] = IF at[c] = Len(run[c]) THEN "completed" ELSE @]

Read(c) ==
  /\ IsWaiting(c)
  /\ Item(c) = Get
  /\ Advance(c)
  /\ UNCHANGED <<vars, run, handler, serves, effects>>

\* Faulty variant: the errors of an answer are not looked at.
IsAnswered(w) == TRUE

Succeeded(w) == reply[w].status = "ok"

Receive(c) ==
  LET w == handler[c] IN
  /\ w # Nobody
  /\ job[w] = Idle
  /\ handler' = [handler EXCEPT ![c] = Nobody]
  /\ IF Succeeded(w) THEN Advance(c)
     ELSE status' = [status EXCEPT ![c] = "failed"] /\ at' = at
  /\ UNCHANGED <<vars, run, serves, effects>>

\* Faulty variant: a request waits for as long as its handler works.
IsUnsent(c) == IsWaiting(c)

HasTimer(c) == status[c] = "running"

\* The request times out, cannot be sent, or is turned away before it has a handler.
Fail(c) ==
  /\ HasTimer(c)
  /\ status' = [status EXCEPT ![c] = "failed"]
  /\ handler' = [handler EXCEPT ![c] = Nobody]
  /\ UNCHANGED <<vars, run, at, serves, effects>>

ClientStep(c) == (\E w \in Writers : Send(c, w)) \/ Read(c) \/ Receive(c) \/ Fail(c)

-----------------------------------------------------------------------------
\* A step of the store, and what took effect by it.
Account(w) ==
  /\ effects' =
       IF serves[w] # Nobody /\ job'[w] # job[w] /\ reply'[w].status = "ok"
       THEN [effects EXCEPT ![serves[w][1]] = Append(@, serves[w][2])]
       ELSE effects
  /\ UNCHANGED <<run, at, status, handler, serves>>

HandlerWork(w) == Work(w) /\ Account(w)
Handle(w) == (Reject(w) \/ Begin(w) \/ Work(w) \/ Fault(w)) /\ Account(w)

\* The connection of a client that gave up is closed, and a request that no thread
\* has taken up yet goes with it.
Drop(w) ==
  /\ job[w] # Idle
  /\ lock # w
  /\ serves[w] # Nobody
  /\ handler[serves[w][1]] # w
  /\ Answer(w, Replied("lost"))
  /\ UNCHANGED <<committed, lock, txn, clients>>

\* dnsuckd put, record or write.
Local(w, j) ==
  /\ IsUnused(w)
  /\ Submit(w, j)
  /\ serves' = [serves EXCEPT ![w] = Nobody]
  /\ UNCHANGED <<run, at, status, handler, effects>>

BatchNext ==
  \/ \E c \in Clients : (\E items \in Batches : Start(c, items)) \/ ClientStep(c)
  \/ \E w \in Writers : Handle(w) \/ Drop(w) \/ \E j \in LocalJobs : Local(w, j)
  \/ Crash /\ UNCHANGED clients

\* A client's timer runs out, and a thread with the transaction goes on.
BatchFairness ==
  /\ \A c \in Clients : WF_allVars(ClientStep(c))
  /\ \A w \in Writers : WF_allVars(HandlerWork(w))

BatchSpec == BatchInit /\ [][BatchNext]_allVars /\ BatchFairness

-----------------------------------------------------------------------------
\* The types of the state: a handler whose answer a client waits for works for that
\* client, for the item it is at.
ClientsOK ==
  \A c \in Clients :
    /\ status[c] \in {"idle", "running", "completed", "failed"}
    /\ at[c] \in 0..Len(run[c]) + 1
    /\ handler[c] # Nobody => status[c] = "running" /\ serves[handler[c]] = <<c, at[c]>>

\* The items among the first n of a run that write.
Written(c, n) == {i \in 1..n : run[c][i] # Get}

\* The client says of a failed run that "earlier items have already completed": they
\* took effect, in order and once each, and of the others none but, perhaps, the one
\* that failed, whose handler may have gone on or be about to.
RunsInOrder ==
  \A c \in Clients :
    LET did == ToSet(effects[c]) IN
    /\ \A i, j \in DOMAIN effects[c] : i < j => effects[c][i] < effects[c][j]
    /\ CASE status[c] = "idle"      -> did = {}
         [] status[c] = "completed" -> did = Written(c, Len(run[c]))
         [] OTHER -> did \in {Written(c, at[c] - 1), Written(c, at[c] - 1) \cup {at[c]}}

\* A run ends, though a handler may wait for the write transaction for ever.
BatchesEnd == \A c \in Clients : status[c] = "running" ~> status[c] # "running"
=============================================================================
