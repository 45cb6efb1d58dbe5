---------------------------- MODULE ConfigProofs ----------------------------
(***************************************************************************)
(* The config-file server, for any configurations, sockets, clients and    *)
(* other servers. Of the supervisor, module Reload: its sockets are those  *)
(* of what runs, a reload that fails goes back to what ran, and it ends    *)
(* the server only if others or the system keep that from its sockets. Of  *)
(* the control socket, module Control: it is the one server's that is up.  *)
(* Neither part uses what is assumed of the other.                         *)
(***************************************************************************)
EXTENDS Reload, Control, TLAPS

\* The first sockets of a configuration, and no others, are bound; no two of
\* them are the same, since the second could not have been bound.
BoundTo(c) ==
  /\ bound \in 0..Len(Sockets[c])
  /\ ours = {Sockets[c][i] : i \in 1..bound}
  /\ \A i, j \in 1..bound : Sockets[c][i] = Sockets[c][j] => i = j

\* Between the stop of what ran and the start of what comes next the sockets are
\* those bound so far, and what to go back to has run: it can be bound alone.
SocketsKept ==
  /\ IsInjective(Sockets[prepared])
  /\ IsUp => /\ running = prepared
             /\ ours \subseteq ToSet(Sockets[prepared])
             /\ ~ended => ours = ToSet(Sockets[prepared])
  /\ phase = "binding" => BoundTo(next)
  /\ phase = "restoring" => BoundTo(prepared)

\* What ran when a request came in is what the supervisor would go back to.
Candidate == {"checking", "warming", "stopping", "binding"}
PreviousKept ==
  /\ phase \in Candidate => next \in Configs
  /\ phase \in Candidate \cup {"loading", "restoring"} => previous = prepared
  /\ phase = "replying" => result \in {"ok", "error"}
  /\ RejectedKeepsPrevious

QueueType ==
  /\ phase \in Up \cup {"binding", "restoring", "exited"}
  /\ queue \in Seq(Clients)
  /\ current \in Clients \cup {None}

Inv == TypeOK /\ QueueType /\ SocketsKept /\ PreviousKept

-----------------------------------------------------------------------------
LEMMA SocketsType ==
  ASSUME NEW c \in Configs
  PROVE  /\ Sockets[c] \in Seq(AllSockets)
         /\ Len(Sockets[c]) \in Nat
         /\ DOMAIN Sockets[c] = 1..Len(Sockets[c])
         /\ ToSet(Sockets[c]) = {Sockets[c][i] : i \in 1..Len(Sockets[c])}
         /\ ToSet(Sockets[c]) \subseteq AllSockets
<1>1. Sockets[c] \in Seq(AllSockets)
  BY ConfigAssumption
<1>2. Len(Sockets[c]) \in Nat /\ DOMAIN Sockets[c] = 1..Len(Sockets[c])
  BY <1>1
<1>3. ToSet(Sockets[c]) = {Sockets[c][i] : i \in 1..Len(Sockets[c])}
  BY <1>2 DEF ToSet
<1> QED
  BY <1>1, <1>2, <1>3 DEF AllSockets

\* A client that joins the queue, and one that leaves it.
LEMMA Joined ==
  ASSUME NEW q \in Seq(Clients), IsInjective(q), NEW c \in Clients, c \notin ToSet(q)
  PROVE  /\ Append(q, c) \in Seq(Clients) /\ IsInjective(Append(q, c))
         /\ ToSet(Append(q, c)) = ToSet(q) \cup {c}
<1> DEFINE n == Len(q)
           longer == Append(q, c)
<1>1. n \in Nat /\ DOMAIN q = 1..n
  OBVIOUS
<1>2. longer \in Seq(Clients) /\ DOMAIN longer = 1..n + 1
  OBVIOUS
<1>3. (\A i \in 1..n : longer[i] = q[i]) /\ longer[n + 1] = c
  OBVIOUS
<1> HIDE DEF n, longer
<1>4. \A i \in 1..n : q[i] # c
  BY <1>1 DEF ToSet
<1>5. \A i \in 1..n + 1 : i \in 1..n \/ i = n + 1
  BY <1>1
<1>6. IsInjective(longer)
  BY <1>1, <1>2, <1>3, <1>4, <1>5 DEF IsInjective
<1>7. 1..n \subseteq 1..n + 1 /\ n + 1 \in 1..n + 1
  BY <1>1
<1>8. ToSet(longer) = ToSet(q) \cup {c}
  BY <1>1, <1>2, <1>3, <1>5, <1>7 DEF ToSet
<1> QED
  BY <1>2, <1>6, <1>8 DEF longer

LEMMA Dequeued ==
  ASSUME NEW q \in Seq(Clients), IsInjective(q), q # <<>>
  PROVE  /\ Head(q) \in Clients /\ Tail(q) \in Seq(Clients)
         /\ IsInjective(Tail(q)) /\ Head(q) \notin ToSet(Tail(q))
BY DEF IsInjective, ToSet

LEMMA InitInv == Init => Inv
<1> SUFFICES ASSUME Init PROVE Inv
  OBVIOUS
<1> USE DEF Init
<1>1. prepared \in Configs /\ IsInjective(Sockets[prepared]) /\ ours = ToSet(Sockets[prepared])
  OBVIOUS
<1>2. IsInjective(<<>>) /\ ToSet(<<>>) = {} /\ <<>> \in Seq(Clients)
  BY DEF IsInjective, ToSet
<1>3. TypeOK
  BY <1>1, <1>2, SocketsType, ConfigAssumption DEF TypeOK, IsUp, Up
<1>4. QueueType
  BY <1>2 DEF QueueType, Up
<1> QED
  BY <1>1, <1>3, <1>4
  DEF Inv, SocketsKept, PreviousKept, Candidate, RejectedKeepsPrevious, IsUp

-----------------------------------------------------------------------------
(***************************************************************************)
(* The world around the supervisor.                                        *)
(***************************************************************************)
LEMMA WorldInv ==
  ASSUME Inv,
         \/ \E c \in Configs : Edit(c)
         \/ \E s \in Outside : Take(s) \/ Free(s)
         \/ RunOut
         \/ \E s \in ours : ListenerEnds(s)
         \/ CtrlC
         \/ \E c \in Clients : GiveUp(c)
         \/ WritePolicy \/ WriteApex
  PROVE  Inv'
<1> USE DEF Inv, TypeOK, QueueType, SocketsKept, PreviousKept, RejectedKeepsPrevious, IsUp,
            listeners, world, signals, clients, needs
<1>1. ASSUME NEW c \in Configs, Edit(c) PROVE Inv'
  BY <1>1 DEF Edit, BoundTo
<1>2. ASSUME NEW s \in Outside, Take(s) \/ Free(s) PROVE Inv'
  <2>1. /\ UNCHANGED <<phase, next, listeners, file, refusing, signals, clients, needs>>
        /\ taken' \subseteq Outside /\ ours \cap taken' = {}
    BY <1>2 DEF Take, Free
  <2> QED
    BY <2>1 DEF BoundTo
<1>3. ASSUME NEW s \in ours, ListenerEnds(s) PROVE Inv'
  <2>1. phase \notin {"binding", "restoring"}
    BY <1>3 DEF ListenerEnds, Up
  <2> QED
    BY <1>3, <2>1 DEF ListenerEnds
<1>4. CASE CtrlC
  BY <1>4 DEF CtrlC, BoundTo
<1>5. ASSUME NEW c \in Clients, GiveUp(c) PROVE Inv'
  BY <1>5 DEF GiveUp, BoundTo
<1>6. CASE WritePolicy \/ WriteApex
  BY <1>6 DEF WritePolicy, WriteApex, BoundTo
<1>7. CASE RunOut
  BY <1>7 DEF RunOut, BoundTo
<1> QED
  BY <1>1, <1>2, <1>3, <1>4, <1>5, <1>6, <1>7

LEMMA AskInv ==
  ASSUME Inv, NEW c \in Clients, NEW kind \in {"asking", "mute"}, Ask(c, kind)
  PROVE  Inv'
<1>1. queue' \in Seq(Clients) /\ IsInjective(queue') /\ current \notin ToSet(queue')
  BY Joined DEF Inv, TypeOK, QueueType, Ask
<1> QED
  BY <1>1
  DEF Inv, TypeOK, QueueType, SocketsKept, PreviousKept, RejectedKeepsPrevious, IsUp,
      BoundTo, Ask, listeners, world, signals, needs

-----------------------------------------------------------------------------
(***************************************************************************)
(* The supervisor.                                                         *)
(***************************************************************************)
LEMMA ExitInv == ASSUME Inv, phase # "exited", Exit PROVE Inv'
<1>1. queue' = <<>> /\ IsInjective(<<>>) /\ ToSet(<<>>) = {} /\ <<>> \in Seq(Clients)
  BY DEF Exit, IsInjective, ToSet
<1>2. client' \in [Clients -> {"idle", "asking", "mute", "late", "ok", "error"}]
  BY DEF Inv, TypeOK, Exit
<1> QED
  BY <1>1, <1>2
  DEF Inv, TypeOK, QueueType, SocketsKept, PreviousKept, RejectedKeepsPrevious, IsUp, Up,
      Candidate, Exit, world

\* Requests are taken in and read while the listeners run.
LEMMA RequestInv == ASSUME Inv, Accept \/ Read \/ ReadFails PROVE Inv'
<1> USE DEF Inv, TypeOK, QueueType, SocketsKept, PreviousKept, RejectedKeepsPrevious, IsUp,
            Up, Candidate, listeners, world, signals, needs
<1>1. CASE Accept
  <2>1. /\ current' \in Clients /\ queue' \in Seq(Clients) /\ IsInjective(queue')
        /\ current' \notin ToSet(queue')
    BY <1>1, Dequeued DEF Accept
  <2>2. current' # None
    BY <2>1, ConfigAssumption
  <2> QED
    BY <1>1, <2>1, <2>2 DEF Accept
<1>2. CASE Read
  BY <1>2 DEF Read
<1>3. CASE ReadFails
  <2>1. current' = None /\ None \notin ToSet(queue)
    <3>1. \A i \in DOMAIN queue : queue[i] \in Clients
      OBVIOUS
    <3> QED
      BY <1>3, <3>1, ConfigAssumption DEF ReadFails, ToSet
  <2> QED
    BY <1>3, <2>1 DEF ReadFails
<1> QED
  BY <1>1, <1>2, <1>3

\* A candidate is given up or goes on while the listeners run.
LEMMA CandidateInv ==
  ASSUME Inv, Load \/ PrepareFails \/ CheckGeo \/ Warm PROVE Inv'
<1> USE DEF Inv, TypeOK, QueueType, SocketsKept, PreviousKept, RejectedKeepsPrevious, IsUp,
            Up, Candidate, listeners, world, signals, clients, needs, Reject, GoOn
<1>1. CASE Load
  BY <1>1 DEF Load
<1>2. CASE PrepareFails
  BY <1>2 DEF PrepareFails
<1>3. CASE CheckGeo
  BY <1>3 DEF CheckGeo
<1>4. CASE Warm
  BY <1>4 DEF Warm
<1> QED
  BY <1>1, <1>2, <1>3, <1>4

\* Nothing is bound when the first socket is about to be.
LEMMA StopInv == ASSUME Inv, Stop PROVE Inv'
<1>1. next \in Configs /\ 0 \in 0..Len(Sockets[next]) /\ phase = "stopping"
  BY SocketsType DEF Inv, PreviousKept, Candidate, Stop
<1>2. BoundTo(next)'
  BY <1>1 DEF BoundTo, Stop
<1> QED
  BY <1>1, <1>2
  DEF Inv, TypeOK, QueueType, SocketsKept, PreviousKept, RejectedKeepsPrevious, IsUp, Up,
      Candidate, Stop, world, signals, clients, needs

\* One more socket is bound, and it is none of those before it.
LEMMA BindOneInv ==
  ASSUME NEW c \in Configs, BoundTo(c), ours \subseteq AllSockets, BindOne(c)
  PROVE  BoundTo(c)' /\ ours' \subseteq AllSockets
<1>1. /\ bound \in Nat /\ bound + 1 \in 1..Len(Sockets[c])
      /\ ours' = ours \cup {Sockets[c][bound + 1]} /\ bound' = bound + 1
      /\ Sockets[c][bound + 1] \notin ours
      /\ Sockets[c][bound + 1] \in AllSockets
  BY SocketsType DEF BoundTo, BindOne, IsFree
<1>2. \A i \in 1..bound + 1 : i \in 1..bound \/ i = bound + 1
  BY <1>1
<1>3. 1..bound \subseteq 1..bound + 1 /\ bound + 1 \in 1..bound + 1
  BY <1>1
<1>4. ours' = {Sockets[c][i] : i \in 1..bound'}
  BY <1>1, <1>2, <1>3 DEF BoundTo
<1>5. \A i \in 1..bound : Sockets[c][i] # Sockets[c][bound + 1]
  BY <1>1 DEF BoundTo
<1>6. \A i, j \in 1..bound' : Sockets[c][i] = Sockets[c][j] => i = j
  BY <1>1, <1>2, <1>5 DEF BoundTo
<1>7. bound' \in 0..Len(Sockets[c])
  BY <1>1, SocketsType
<1> QED
  BY <1>1, <1>4, <1>6, <1>7 DEF BoundTo

LEMMA BindInv == ASSUME Inv, BindNext \/ BindAgain PROVE Inv'
<1> DEFINE c == IF phase = "binding" THEN next ELSE prepared
<1>1. c \in Configs /\ BoundTo(c) /\ BindOne(c) /\ phase \in {"binding", "restoring"}
  BY DEF Inv, TypeOK, SocketsKept, PreviousKept, Candidate, BindNext, BindAgain
<1>2. BoundTo(c)' /\ ours' \subseteq AllSockets
  <2>1. ASSUME NEW d \in Configs, d = c PROVE BoundTo(d)' /\ ours' \subseteq AllSockets
    BY <1>1, <2>1, BindOneInv DEF Inv, TypeOK
  <2>2. UNCHANGED <<phase, next, prepared>>
    BY <1>1 DEF BindOne
  <2> QED
    BY <1>1, <2>1, <2>2 DEF BoundTo
<1>3. ours' \cap taken' = {}
  BY <1>1 DEF Inv, TypeOK, BindOne, IsFree, world
<1> QED
  BY <1>1, <1>2, <1>3
  DEF Inv, TypeOK, QueueType, SocketsKept, PreviousKept, RejectedKeepsPrevious, IsUp, Up,
      Candidate, BindOne, world, signals, clients, needs

\* A configuration whose sockets are all bound has them, and could have them again.
LEMMA StartedInv ==
  ASSUME NEW c \in Configs, BoundTo(c), bound = Len(Sockets[c])
  PROVE  ours = ToSet(Sockets[c]) /\ IsInjective(Sockets[c])
<1>1. DOMAIN Sockets[c] = 1..bound /\ ToSet(Sockets[c]) = {Sockets[c][i] : i \in 1..bound}
  BY SocketsType
<1> QED
  BY <1>1 DEF BoundTo, IsInjective

LEMMA StartInv == ASSUME Inv, Succeed \/ Restored PROVE Inv'
<1> USE DEF Inv, TypeOK, QueueType, SocketsKept, PreviousKept, RejectedKeepsPrevious, IsUp,
            Up, Candidate, Started, world, signals, needs
<1>1. CASE Succeed
  <2>1. next \in Configs /\ ours = ToSet(Sockets[next]) /\ IsInjective(Sockets[next])
    BY <1>1, StartedInv DEF Succeed
  <2> QED
    BY <1>1, <2>1, ConfigAssumption DEF Succeed, Adopted
<1>2. CASE Restored
  <2>1. ours = ToSet(Sockets[prepared])
    BY <1>2, StartedInv DEF Restored
  <2> QED
    BY <1>2, <2>1, ConfigAssumption DEF Restored
<1> QED
  BY <1>1, <1>2

LEMMA FallBackInv == ASSUME Inv, FallBack PROVE Inv'
<1>1. prepared \in Configs /\ 0 \in 0..Len(Sockets[prepared])
  BY SocketsType DEF Inv, TypeOK
<1>2. BoundTo(prepared)'
  BY <1>1 DEF BoundTo, FallBack, AfterCleanup
<1> QED
  BY <1>1, <1>2
  DEF Inv, TypeOK, QueueType, SocketsKept, PreviousKept, RejectedKeepsPrevious, IsUp, Up,
      Candidate, FallBack, AfterCleanup, world, signals, clients, needs

LEMMA ReplyInv == ASSUME Inv, Reply PROVE Inv'
<1>1. None \notin ToSet(queue)
  <2>1. \A i \in DOMAIN queue : queue[i] \in Clients
    BY DEF Inv, QueueType
  <2> QED
    BY <2>1, ConfigAssumption DEF ToSet
<1> QED
  BY <1>1
  DEF Inv, TypeOK, QueueType, SocketsKept, PreviousKept, RejectedKeepsPrevious, IsUp, Up,
      Candidate, Reply, listeners, world, signals, needs

LEMMA NextInv == Inv /\ [Next]_vars => Inv'
<1> SUFFICES ASSUME Inv, [Next]_vars PROVE Inv'
  OBVIOUS
<1>1. ASSUME AcceptFails PROVE Inv'
  BY <1>1, ExitInv DEF AcceptFails
<1>2. ASSUME Supervise PROVE Inv'
  <2>1. CASE StopOnSignal \/ StopOnEnd \/ StopFails \/ CannotRestore \/ CannotReport
    BY <2>1, ExitInv DEF StopOnSignal, StopOnEnd, StopFails, CannotRestore, CannotReport
  <2> QED
    BY <1>1, <1>2, <2>1, RequestInv, CandidateInv, StopInv, BindInv, StartInv, FallBackInv,
       ReplyInv
    DEF Supervise
<1>3. CASE \E c \in Clients : Ask(c, "asking") \/ Ask(c, "mute")
  BY <1>3, AskInv
<1>4. CASE UNCHANGED vars
  BY <1>4
  DEF Inv, TypeOK, QueueType, SocketsKept, PreviousKept, RejectedKeepsPrevious, IsUp,
      BoundTo, vars, listeners, world, signals, clients, needs
<1> QED
  BY <1>1, <1>2, <1>3, <1>4, WorldInv DEF Next

LEMMA Invariance == Spec => []Inv
BY InitInv, NextInv, PTL DEF Spec

-----------------------------------------------------------------------------
(***************************************************************************)
(* The supervisor's state has its types: no socket has two owners, and one *)
(* client at a time is attended to.                                        *)
(***************************************************************************)
THEOREM TypeCorrect == Spec => []TypeOK
<1>1. Inv => TypeOK
  BY DEF Inv
<1> QED
  BY <1>1, Invariance, PTL

(***************************************************************************)
(* The sockets are those of the configuration that runs, after any reloads *)
(* that succeeded, failed or were given up.                                *)
(***************************************************************************)
THEOREM SocketsAreThoseThatRun == Spec => []SocketsMatch
<1>1. Inv => SocketsMatch
  BY DEF Inv, TypeOK, SocketsKept, SocketsMatch
<1> QED
  BY <1>1, Invariance, PTL

(***************************************************************************)
(* A reload that is answered with an error has left what ran before it.    *)
(***************************************************************************)
THEOREM RejectedReloadsKeep == Spec => []RejectedKeepsPrevious
<1>1. Inv => RejectedKeepsPrevious
  BY DEF Inv, PreviousKept
<1> QED
  BY <1>1, Invariance, PTL

(***************************************************************************)
(* A reload ends the server only together with one of these: a Ctrl-C, a   *)
(* listener that ended, a system that refuses what serve asks it for (the  *)
(* accept of a request included), or another process at a socket of what   *)
(* ran. Without them a configuration that ran binds all its sockets again, *)
(* however far the candidate came and whatever reloads there were before.  *)
(***************************************************************************)
THEOREM ServerEndsOnlyProvoked == Spec => DiesOnlyProvoked
<1> DEFINE Provoked == phase # "exited" /\ phase' = "exited" =>
                         \/ pending \/ ended \/ refusing
                         \/ ToSet(Sockets[prepared]) \cap taken # {}
<1>1. Inv /\ [Next]_vars => [Provoked]_vars
  <2> SUFFICES ASSUME Inv, Next, phase # "exited", phase' = "exited", ~pending, ~ended, ~refusing
               PROVE  ToSet(Sockets[prepared]) \cap taken # {}
    BY DEF vars
  <2>1. CannotRestore
    BY DEF Next, Supervise, StopOnSignal, StopOnEnd, StopFails, Accept, AcceptFails, CannotReport, Read, ReadFails, Load,
       PrepareFails, CheckGeo, Warm, Reject, GoOn, Stop, BindNext, BindAgain, BindOne, Succeed,
       Restored, Started, FallBack, Reply, Edit, Take, Free, RunOut, ListenerEnds, CtrlC, Ask, GiveUp,
       WritePolicy, WriteApex
  <2>2. /\ prepared \in Configs /\ IsInjective(Sockets[prepared]) /\ BoundTo(prepared)
        /\ bound < Len(Sockets[prepared]) /\ ~IsFree(Sockets[prepared][bound + 1])
    BY <2>1 DEF Inv, TypeOK, SocketsKept, CannotRestore, CannotBind
  <2>3. /\ bound \in Nat /\ bound + 1 \in 1..Len(Sockets[prepared])
        /\ DOMAIN Sockets[prepared] = 1..Len(Sockets[prepared])
        /\ 1..bound \subseteq 1..Len(Sockets[prepared]) /\ bound + 1 \notin 1..bound
    BY <2>2, SocketsType DEF BoundTo
  <2>4. \A i \in 1..bound : Sockets[prepared][i] # Sockets[prepared][bound + 1]
    BY <2>2, <2>3 DEF IsInjective
  <2>5. Sockets[prepared][bound + 1] \in taken
    BY <2>2, <2>4 DEF IsFree, BoundTo
  <2>6. Sockets[prepared][bound + 1] \in ToSet(Sockets[prepared])
    BY <2>3 DEF ToSet
  <2> QED
    BY <2>5, <2>6
<1> QED
  BY <1>1, Invariance, PTL DEF Spec, DiesOnlyProvoked

-----------------------------------------------------------------------------
(***************************************************************************)
(* The control socket. What a start that fails met is still known of: of   *)
(* two servers that are up each knows, and a directory that is gone again  *)
(* was removed by a server that was met.                                   *)
(***************************************************************************)
\* Whoever is up while another is knows of it.
Met == \A s, t \in Servers : s # t /\ stage[s] # "off" /\ stage[t] # "off" => obstacle[s]

\* A directory that is gone again was removed by a server that is known of.
NotAlone ==
  \A s \in Servers : stage[s] \in {"checking", "binding"} /\ directory = "none" => obstacle[s]

ControlInv == ControlTypeOK /\ OneReloadable /\ LeftOnlyByKill /\ Met /\ NotAlone

USE DEF Bound, IsStale

LEMMA ControlInitInv == ControlInit => ControlInv
  BY ServersAssumption
  DEF ControlInit, ControlInv, ControlTypeOK, OneReloadable, LeftOnlyByKill, Met, NotAlone

\* The state without what Observe sets.
LEMMA ControlTypeKept == ControlInv /\ ControlNext => ControlTypeOK'
<1> SUFFICES ASSUME ControlInv, Step, Observe PROVE ControlTypeOK'
  BY DEF ControlNext
<1> USE ServersAssumption DEF ControlInv, ControlTypeOK, Become, CannotStart
<1>1. obstacle' \in [Servers -> BOOLEAN]
  BY DEF Observe
<1>2. ASSUME NEW s \in Servers, Start(s) PROVE ControlTypeOK'
  BY <1>1, <1>2 DEF Start
<1>3. ASSUME NEW s \in Servers, Make(s) PROVE ControlTypeOK'
  BY <1>1, <1>3 DEF Make
<1>4. ASSUME NEW s \in Servers, Check(s) PROVE ControlTypeOK'
  BY <1>1, <1>4 DEF Check
<1>5. ASSUME NEW s \in Servers, Bind(s) PROVE ControlTypeOK'
  BY <1>1, <1>5 DEF Bind, IsBindable
<1>6. ASSUME NEW s \in Servers, Close(s) PROVE ControlTypeOK'
  BY <1>1, <1>6 DEF Close
<1>7. ASSUME NEW s \in Servers, Return(s) PROVE ControlTypeOK'
  BY <1>1, <1>7 DEF Return
<1>8. ASSUME NEW s \in Servers, Unlink(s) PROVE ControlTypeOK'
  BY <1>1, <1>8 DEF Unlink, Removed
<1>9. ASSUME NEW s \in Servers, RemoveDir(s) PROVE ControlTypeOK'
  BY <1>1, <1>9 DEF RemoveDir, IsEmpty
<1>10. ASSUME NEW s \in Servers, Kill(s) PROVE ControlTypeOK'
  BY <1>1, <1>10 DEF Kill
<1>11. CASE Confirm
  BY <1>1, <1>11 DEF Confirm
<1>12. CASE Clear
  BY <1>1, <1>12 DEF Clear
<1> QED
  BY <1>2, <1>3, <1>4, <1>5, <1>6, <1>7, <1>8, <1>9, <1>10, <1>11, <1>12 DEF Step, Call

\* Every step keeps the socket with the one server that bound it.
LEMMA StepSocketOK ==
  ASSUME ControlInv, Step, ControlTypeOK' PROVE OneReloadable' /\ LeftOnlyByKill'
<1> USE ServersAssumption
    DEF ControlInv, ControlTypeOK, OneReloadable, LeftOnlyByKill, Become, CannotStart
<1>1. ASSUME NEW s \in Servers, Start(s) PROVE OneReloadable' /\ LeftOnlyByKill'
  BY <1>1 DEF Start
<1>2. ASSUME NEW s \in Servers, Make(s) PROVE OneReloadable' /\ LeftOnlyByKill'
  BY <1>2 DEF Make
<1>3. ASSUME NEW s \in Servers, Check(s) PROVE OneReloadable' /\ LeftOnlyByKill'
  BY <1>3 DEF Check
\* Nobody was serving, or the socket would not have been None.
<1>4. ASSUME NEW s \in Servers, Bind(s) PROVE OneReloadable' /\ LeftOnlyByKill'
  BY <1>4 DEF Bind, IsBindable
<1>5. ASSUME NEW s \in Servers, Close(s) PROVE OneReloadable' /\ LeftOnlyByKill'
  BY <1>5 DEF Close
<1>6. ASSUME NEW s \in Servers, Return(s) PROVE OneReloadable' /\ LeftOnlyByKill'
  BY <1>6 DEF Return
\* What is removed is its own socket.
<1>7. ASSUME NEW s \in Servers, Unlink(s) PROVE OneReloadable' /\ LeftOnlyByKill'
  BY <1>7 DEF Unlink, Removed
<1>8. ASSUME NEW s \in Servers, RemoveDir(s) PROVE OneReloadable' /\ LeftOnlyByKill'
  BY <1>8 DEF RemoveDir
<1>9. ASSUME NEW s \in Servers, Kill(s) PROVE OneReloadable' /\ LeftOnlyByKill'
  BY <1>9 DEF Kill
<1>10. CASE Confirm
  BY <1>10 DEF Confirm
<1>11. CASE Clear
  BY <1>11 DEF Clear
<1> QED
  BY <1>1, <1>2, <1>3, <1>4, <1>5, <1>6, <1>7, <1>8, <1>9, <1>10, <1>11 DEF Step, Call

\* A server changes no phase but its own, and makes the directory before it checks it.
LEMMA StepPhases ==
  ASSUME ControlInv, Step
  PROVE  \/ stage' = stage /\ directory' = directory
         \/ \E s \in Servers :
              /\ stage' = [stage EXCEPT ![s] = stage'[s]]
              /\ stage'[s] \in {"checking", "binding"} =>
                   directory' = "own" \/ directory' = "other"
              /\ directory' = "none" => directory = "none" \/ stage[s] = "removing"
<1> USE DEF ControlInv, ControlTypeOK, Become, CannotStart, Start, Make, IsNewOrOld,
            Check, Bind, Close,
           Return, Unlink, RemoveDir, Kill
<1>1. ASSUME NEW s \in Servers, Start(s) \/ Call(s) \/ Return(s) \/ Kill(s)
      PROVE  /\ stage' = [stage EXCEPT ![s] = stage'[s]]
             /\ stage'[s] \in {"checking", "binding"} =>
                  directory' = "own" \/ directory' = "other"
             /\ directory' = "none" => directory = "none" \/ stage[s] = "removing"
  BY <1>1 DEF Call
<1>2. CASE Confirm \/ Clear
  BY <1>2 DEF Confirm, Clear
<1> QED
  BY <1>1, <1>2 DEF Step

LEMMA StepMet == ASSUME ControlInv, ControlNext, ControlTypeOK' PROVE Met' /\ NotAlone'
<1> USE DEF ControlInv, ControlTypeOK, Met, NotAlone
<1>1. Step /\ Observe
  BY DEF ControlNext
<1>2. Met'
  <2> SUFFICES ASSUME NEW s \in Servers, NEW t \in Servers, s # t,
                      stage'[s] # "off", stage'[t] # "off"
               PROVE  obstacle'[s]
    OBVIOUS
  <2> QED
    BY <1>1 DEF Observe, Obstacle
<1>3. NotAlone'
  <2> SUFFICES ASSUME NEW s \in Servers, stage'[s] \in {"checking", "binding"},
                      directory' = "none"
               PROVE  obstacle'[s]
    OBVIOUS
  <2>1. obstacle[s] => obstacle'[s]
    BY <1>1 DEF Observe
  <2>2. CASE stage' = stage /\ directory' = directory
    BY <2>1, <2>2
  <2>3. ASSUME NEW t \in Servers, stage' = [stage EXCEPT ![t] = stage'[t]],
               stage'[t] \in {"checking", "binding"} =>
                 directory' = "own" \/ directory' = "other",
               directory' = "none" => directory = "none" \/ stage[t] = "removing"
        PROVE  obstacle'[s]
    <3>1. t # s /\ stage'[s] = stage[s]
      BY <2>3
    <3> QED
      BY <2>1, <2>3, <3>1
  <2> QED
    BY <1>1, <2>2, <2>3, StepPhases
<1> QED
  BY <1>2, <1>3

LEMMA ControlNextInv == ControlInv /\ [ControlNext]_controlVars => ControlInv'
<1>1. ASSUME ControlInv, ControlNext PROVE ControlInv'
  BY <1>1, ControlTypeKept, StepSocketOK, StepMet DEF ControlInv, ControlNext
<1>2. ASSUME ControlInv, UNCHANGED controlVars PROVE ControlInv'
  BY <1>2 DEF ControlInv, ControlTypeOK, OneReloadable, LeftOnlyByKill, Met, NotAlone,
              controlVars
<1> QED
  BY <1>1, <1>2

LEMMA ControlInvariance == ControlSpec => []ControlInv
  BY ControlInitInv, ControlNextInv, PTL DEF ControlSpec

-----------------------------------------------------------------------------
\* The state of the servers, the socket and the directory has its types.
THEOREM ControlTypeCorrect == ControlSpec => []ControlTypeOK
<1>1. ControlInv => ControlTypeOK
  BY DEF ControlInv
<1> QED
  BY <1>1, ControlInvariance, PTL

\* However many servers start, stop and are killed at whatever moment, the socket at the
\* path is that of the one that is up, and no operator's hand is on it.
THEOREM OneServerReloadable == ControlSpec => []OneReloadable
<1>1. ControlInv => OneReloadable
  BY DEF ControlInv
<1> QED
  BY <1>1, ControlInvariance, PTL

\* Only a kill leaves a socket behind.
THEOREM OnlyKillLeavesSocket == ControlSpec => []LeftOnlyByKill
<1>1. ControlInv => LeftOnlyByKill
  BY DEF ControlInv
<1> QED
  BY <1>1, ControlInvariance, PTL

\* A server that is alone, with nothing left behind, starts.
THEOREM AloneServerStarts == ControlSpec => FailsOnlyForOthers
<1>1. ASSUME ControlInv, ControlNext, NEW s \in Servers, ~failed[s], failed'[s]
      PROVE  obstacle[s] \/ Obstacle(s)
  <2> USE DEF ControlInv, ControlTypeOK, CannotStart, Become
  <2>1. Step
    BY <1>1 DEF ControlNext
  <2>2. ASSUME NEW t \in Servers, Start(t) \/ Make(t) \/ Unlink(t) \/ RemoveDir(t)
                                  \/ Return(t) \/ Kill(t)
        PROVE  FALSE
    BY <1>1, <2>2 DEF Start, Make, IsNewOrOld, Unlink, RemoveDir, Return, Kill
  <2>3. ASSUME NEW t \in Servers, Check(t) PROVE obstacle[s] \/ Obstacle(s)
    BY <1>1, <2>3 DEF Check, Obstacle, NotAlone
  <2>4. ASSUME NEW t \in Servers, Bind(t) PROVE obstacle[s] \/ Obstacle(s)
    <3>1. t = s /\ stage[s] = "binding" /\ ~IsBindable /\ stage' = [stage EXCEPT ![s] = "off"]
          /\ UNCHANGED <<directory, socket>>
      BY <1>1, <2>4 DEF Bind
    <3>2. CASE directory # "own"
      BY <1>1, <3>1, <3>2 DEF Obstacle, NotAlone
    <3>3. CASE socket # NoServer
      BY <1>1, <3>1, <3>3 DEF Obstacle
    <3> QED
      BY <3>1, <3>2, <3>3 DEF IsBindable
  <2>5. ASSUME NEW t \in Servers, Close(t) PROVE FALSE
    BY <1>1, <2>5, ServersAssumption DEF Close, OneReloadable
  <2>6. CASE Confirm \/ Clear
    BY <1>1, <2>6 DEF Confirm, Clear
  <2> QED
    BY <2>1, <2>2, <2>3, <2>4, <2>5, <2>6 DEF Step, Call
<1>2. ControlInv /\ [ControlNext]_controlVars =>
      [\A s \in Servers : ~failed[s] /\ failed'[s] => obstacle[s] \/ Obstacle(s)]_controlVars
  BY <1>1
<1> QED
  BY <1>2, ControlInvariance, PTL DEF ControlSpec, FailsOnlyForOthers
=============================================================================
