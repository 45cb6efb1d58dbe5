-------------------------------- MODULE Reload --------------------------------
(***************************************************************************)
(* The supervisor of a config-file server, serve in src/src/config.rs, and *)
(* the listeners it starts and stops, src/src/transport/mod.rs. It waits   *)
(* for Ctrl-C, for a listener that ends and for a reload request, and is   *)
(* deaf to the first two while it works on the third: it prepares the new  *)
(* configuration while the old listeners go on, stops those, binds the new *)
(* ones one by one, and binds the previous ones again if it cannot.        *)
(* Meanwhile the file is edited, other processes take and free sockets,    *)
(* API writes change what a configuration needs, clients give up, and the  *)
(* system refuses what it is asked for: a connection, a socket, an output. *)
(***************************************************************************)
EXTENDS Naturals, Sequences, SequencesExt

CONSTANTS
  Configs,      \* contents of the config file
  Sockets,      \* the sockets of a configuration, in the order they are bound
  Database,     \* its database path
  HasMmdb,      \* whether it can order geo records
  Signs,        \* whether it signs a zone
  Outside,      \* the sockets other processes may take
  Clients,      \* dnsuckd --reload processes, with one connection each at a time
  None

AllSockets == UNION {ToSet(Sockets[c]) : c \in Configs}

ASSUME ConfigAssumption ==
  /\ \A c \in Configs :
       /\ Sockets[c] \in Seq(AllSockets) /\ Sockets[c] # <<>>
       /\ HasMmdb[c] \in BOOLEAN /\ Signs[c] \in BOOLEAN
  /\ Outside \subseteq AllSockets
  /\ None \notin Configs \cup Clients

VARIABLES
  file,         \* what the config file holds
  phase,        \* what the supervisor is at
  running,      \* the configuration whose listeners run, or None
  prepared,     \* the configuration to go back to
  next,         \* the candidate
  bound,        \* how many sockets of the starting configuration are bound
  ours, taken,  \* sockets of this process, sockets of others
  refusing,     \* the system is out of descriptors, memory, an address or output
  ended,        \* a listener has ended by itself
  pending,      \* a Ctrl-C the supervisor can still see
  interrupted,  \* history: Ctrl-C was pressed
  queue,        \* connections to the control socket, not yet accepted
  current,      \* the client whose connection was accepted, or None
  client,       \* per client: idle, asking, mute, late, ok or error
  result,       \* the answer to the current client
  previous,     \* history: what ran when the current request came in
  geo, apex     \* the store has a geo policy; the apex SOA and NS

listeners == <<running, prepared, bound, ours, ended>>
world == <<file, taken, refusing>>
signals == <<pending, interrupted>>
clients == <<queue, current, client, result, previous>>
needs == <<geo, apex>>
vars == <<phase, next, listeners, world, signals, clients, needs>>

\* The listeners run, and the API with them, until stop has returned.
Up == {"serving", "reading", "loading", "checking", "warming", "stopping", "replying"}
IsUp == phase \in Up

\* What Prepared::new asks of the store.
MayRun(c) == (geo => HasMmdb[c]) /\ (Signs[c] => apex)

Init ==
  /\ geo \in BOOLEAN /\ apex \in BOOLEAN
  /\ prepared \in {c \in Configs : MayRun(c) /\ IsInjective(Sockets[c])}
  /\ file = prepared
  /\ phase = "serving"
  /\ running = prepared
  /\ next = None
  /\ bound = 0
  /\ ours = ToSet(Sockets[prepared])
  /\ taken = {}
  /\ refusing \in BOOLEAN
  /\ ended = FALSE
  /\ pending = FALSE
  /\ interrupted = FALSE
  /\ queue = <<>>
  /\ current = None
  /\ client = [c \in Clients |-> "idle"]
  /\ result = "none"
  /\ previous = None

-----------------------------------------------------------------------------
(***************************************************************************)
(* The world around the supervisor.                                        *)
(***************************************************************************)
Edit(c) ==
  /\ file' = c
  /\ UNCHANGED <<phase, next, listeners, taken, refusing, signals, clients, needs>>

Take(s) ==
  /\ s \notin ours \cup taken
  /\ taken' = taken \cup {s}
  /\ UNCHANGED <<phase, next, listeners, file, refusing, signals, clients, needs>>

Free(s) ==
  /\ taken' = taken \ {s}
  /\ UNCHANGED <<phase, next, listeners, file, refusing, signals, clients, needs>>

\* What was used up is used up, or there again.
RunOut ==
  /\ refusing' = ~refusing
  /\ UNCHANGED <<phase, next, listeners, file, taken, signals, clients, needs>>

ListenerEnds(s) ==
  /\ IsUp
  /\ s \in ours
  /\ ours' = ours \ {s}
  /\ ended' = TRUE
  /\ UNCHANGED <<phase, next, running, prepared, bound, world, signals, clients, needs>>

\* The handler swallows a signal that no future waits for.
CtrlC ==
  /\ phase # "exited"
  /\ interrupted' = TRUE
  /\ pending' = (phase = "serving")
  /\ UNCHANGED <<phase, next, listeners, world, clients, needs>>

\* request_reload connects and sends its line; something else may stay mute.
Ask(c, kind) ==
  /\ phase # "exited"
  /\ client[c] \in {"idle", "ok", "error", "late"}
  /\ current # c /\ c \notin ToSet(queue)
  /\ client' = [client EXCEPT ![c] = kind]
  /\ queue' = Append(queue, c)
  /\ UNCHANGED <<phase, next, listeners, world, signals, current, result, previous, needs>>

\* After 60 s; the line it sent stays in the connection.
GiveUp(c) ==
  /\ client[c] = "asking"
  /\ client' = [client EXCEPT ![c] = "late"]
  /\ UNCHANGED <<phase, next, listeners, world, signals, queue, current, result,
                 previous, needs>>

\* API writes: a geo policy needs --mmdb, the apex of a signed zone is guarded.
WritePolicy ==
  /\ IsUp
  /\ geo' \in BOOLEAN
  /\ geo' => HasMmdb[running]
  /\ UNCHANGED <<phase, next, listeners, world, signals, clients, apex>>

WriteApex ==
  /\ IsUp
  /\ apex' \in BOOLEAN
  /\ apex => apex' \/ ~Signs[running]
  /\ UNCHANGED <<phase, next, listeners, world, signals, clients, geo>>

-----------------------------------------------------------------------------
(***************************************************************************)
(* The supervisor.                                                         *)
(***************************************************************************)
\* The process ends, and every waiting client with it: its connection closes.
Exit ==
  /\ phase' = "exited"
  /\ running' = None
  /\ ours' = {}
  /\ queue' = <<>>
  /\ current' = None
  /\ client' = [c \in Clients |->
       IF client[c] \in {"asking", "mute"} THEN "error" ELSE client[c]]
  /\ pending' = FALSE
  /\ UNCHANGED <<next, prepared, bound, ended, world, interrupted, result, previous, needs>>

\* The two other branches of the select.
StopOnSignal == phase = "serving" /\ pending /\ Exit
StopOnEnd == phase = "serving" /\ ended /\ Exit

\* The branch that is taken drops the future that waits for the signal.
Accept ==
  /\ phase = "serving"
  /\ queue # <<>>
  /\ ~refusing
  /\ current' = Head(queue)
  /\ queue' = Tail(queue)
  /\ pending' = FALSE
  /\ phase' = "reading"
  /\ UNCHANGED <<next, listeners, world, interrupted, client, result, previous, needs>>

\* request?: the call takes a descriptor before it looks for a connection, and is
\* also made with none there, as the socket stays ready after the last one.
AcceptFails == phase = "serving" /\ refusing /\ Exit

Read ==
  /\ phase = "reading"
  /\ client[current] \in {"asking", "late"}
  /\ phase' = "loading"
  /\ previous' = running
  /\ UNCHANGED <<next, listeners, world, signals, queue, current, client, result, needs>>

\* Faulty variant: the line is waited for without a timeout.
WaitsForLine == client[current] # "mute"

\* Two seconds pass, or what came was not the line.
MayTimeOut == TRUE

ReadFails ==
  /\ phase = "reading"
  /\ MayTimeOut
  /\ phase' = "serving"
  /\ client' = [client EXCEPT ![current] = IF @ = "late" THEN "late" ELSE "error"]
  /\ current' = None
  /\ UNCHANGED <<next, listeners, world, signals, queue, result, previous, needs>>

\* The candidate is given up before the listeners were disturbed.
Reject ==
  /\ phase' = "replying"
  /\ result' = "error"
  /\ next' = None
  /\ UNCHANGED <<listeners, world, signals, queue, current, client, previous, needs>>

GoOn(p) ==
  /\ phase' = p
  /\ UNCHANGED <<listeners, world, signals, clients, needs>>

Load ==
  /\ phase = "loading"
  /\ IF Database[file] = Database[prepared]
     THEN next' = file /\ GoOn("checking")
     ELSE Reject

\* A file, a key or a certificate that cannot be read or makes no sense.
PrepareFails == phase \in {"loading", "checking", "warming"} /\ Reject

CheckGeo ==
  /\ phase = "checking"
  /\ IF geo => HasMmdb[next] THEN GoOn("warming") /\ UNCHANGED next ELSE Reject

Warm ==
  /\ phase = "warming"
  /\ IF Signs[next] => apex THEN GoOn("stopping") /\ UNCHANGED next ELSE Reject

\* A listener that ended may be noticed only now that it is stopped.
StopFails == phase = "stopping" /\ ended /\ Exit

Stop ==
  /\ phase = "stopping"
  /\ phase' = "binding"
  /\ running' = None
  /\ ours' = {}
  /\ bound' = 0
  /\ ended' = FALSE
  /\ UNCHANGED <<next, prepared, world, signals, clients, needs>>

\* Faulty variant: a socket that others have is bound again.
IsNotOurs(s) == s \notin ours

IsFree(s) == s \notin ours \cup taken

BindOne(c) ==
  /\ bound < Len(Sockets[c])
  /\ ~refusing
  /\ IsFree(Sockets[c][bound + 1])
  /\ ours' = ours \cup {Sockets[c][bound + 1]}
  /\ bound' = bound + 1
  /\ UNCHANGED <<phase, next, running, prepared, ended, world, signals, clients, needs>>

CannotBind(c) ==
  /\ bound < Len(Sockets[c])
  /\ refusing \/ ~IsFree(Sockets[c][bound + 1])

Started(c, answer) ==
  /\ bound = Len(Sockets[c])
  /\ running' = c
  /\ phase' = "replying"
  /\ result' = answer
  /\ next' = None
  /\ UNCHANGED <<bound, ours, ended, world, signals, queue, current, client, previous, needs>>

\* Faulty variants: a failed start leaves the sockets it has bound; a new
\* configuration that runs does not become the one to go back to.
LeftBound(sockets) == sockets
NotAdopted(c) == prepared

AfterCleanup(sockets) == {}
Adopted(c) == c

BindNext == phase = "binding" /\ BindOne(next)

Succeed == phase = "binding" /\ Started(next, "ok") /\ prepared' = Adopted(next)

\* Running::start cleans up before it reports the error.
FallBack ==
  /\ phase = "binding"
  /\ CannotBind(next)
  /\ phase' = "restoring"
  /\ ours' = AfterCleanup(ours)
  /\ bound' = 0
  /\ UNCHANGED <<next, running, prepared, ended, world, signals, clients, needs>>

BindAgain == phase = "restoring" /\ BindOne(prepared)

Restored == phase = "restoring" /\ Started(prepared, "error") /\ UNCHANGED prepared

CannotRestore == phase = "restoring" /\ CannotBind(prepared) /\ Exit

\* println! panics when the address that was bound cannot be written out.
CannotReport == phase \in {"binding", "restoring"} /\ bound > 0 /\ refusing /\ Exit

\* Nobody may be there to read it any more.
Reply ==
  /\ phase = "replying"
  /\ client' = [client EXCEPT ![current] = IF @ = "asking" THEN result ELSE @]
  /\ current' = None
  /\ result' = "none"
  /\ previous' = None
  /\ phase' = "serving"
  /\ UNCHANGED <<next, listeners, world, signals, queue, needs>>

Supervise ==
  \/ StopOnSignal \/ StopOnEnd
  \/ Accept \/ Read \/ ReadFails
  \/ (queue # <<>> /\ AcceptFails)
  \/ Load \/ PrepareFails \/ CheckGeo \/ Warm
  \/ Stop \/ StopFails \/ BindNext \/ Succeed \/ FallBack
  \/ BindAgain \/ Restored \/ CannotRestore \/ CannotReport
  \/ Reply

Next ==
  \/ Supervise
  \/ AcceptFails
  \/ \E c \in Configs : Edit(c)
  \/ \E s \in Outside : Take(s) \/ Free(s)
  \/ RunOut
  \/ \E s \in ours : ListenerEnds(s)
  \/ CtrlC
  \/ \E c \in Clients : Ask(c, "asking") \/ Ask(c, "mute") \/ GiveUp(c)
  \/ WritePolicy \/ WriteApex

\* Every await of the supervisor ends: it has a timeout, or waits for nothing
\* but this process. What happens around it may never happen, and with nobody
\* waiting it may never try to accept.
Spec == Init /\ [][Next]_vars /\ WF_vars(Supervise)

-----------------------------------------------------------------------------
\* The types of the state. A socket has one owner, and a client is attended to
\* exactly while the supervisor is not waiting.
TypeOK ==
  /\ file \in Configs /\ prepared \in Configs
  /\ running \in Configs \cup {None} /\ next \in Configs \cup {None}
  /\ previous \in Configs \cup {None}
  /\ running = None <=> ~IsUp
  /\ current = None <=> phase \in {"serving", "exited"}
  /\ ours \subseteq AllSockets /\ taken \subseteq Outside /\ ours \cap taken = {}
  /\ refusing \in BOOLEAN
  /\ client \in [Clients -> {"idle", "asking", "mute", "late", "ok", "error"}]
  /\ IsInjective(queue) /\ current \notin ToSet(queue)

\* Whatever a reload went through, the sockets of the process are those of the
\* configuration that runs, none more and none less, until a listener ends.
SocketsMatch ==
  IsUp /\ ~ended => running = prepared /\ ours = ToSet(Sockets[running])

\* README.md: a reload "restores the previous configuration if binding fails". A
\* rejected reload leaves what ran when it was requested, however many reloads
\* succeeded and failed before.
RejectedKeepsPrevious == phase = "replying" /\ result = "error" => running = previous

\* The server ends for Ctrl-C, for a listener that ended by itself, because another
\* process has one of its sockets, or because the system refuses it a connection, a
\* socket or its output at that moment. As long as none of these is so, no reload ends
\* it, whatever the candidate was and however far its sockets were bound.
DiesOnlyProvoked ==
  [][phase # "exited" /\ phase' = "exited" =>
       \/ pending \/ ended \/ refusing
       \/ ToSet(Sockets[prepared]) \cap taken # {}]_vars

\* A client that asked is answered, or gives up, or loses its connection with the
\* process; others cannot keep the supervisor from it, mute ones included.
Answered == \A c \in Clients : client[c] = "asking" ~> client[c] # "asking"

\* tests/test_reload.py, stop: Ctrl-C ends the server.
InterruptStops == interrupted ~> phase = "exited"

\* config.rs refuses to start: "geo record ordering requires --mmdb PATH".
GeoOrdered == IsUp /\ geo => HasMmdb[running]
=============================================================================
