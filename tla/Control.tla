------------------------------- MODULE Control -------------------------------
(***************************************************************************)
(* The control socket of config-file servers, Control in src/src/config.rs:*)
(* one path for all servers of a user, in a directory that they make and   *)
(* remove themselves. Servers start, stop and are killed at any moment, so *)
(* that every file system call of one can fall between two of another. The *)
(* socket of a killed server stays, and an operator removes it.            *)
(***************************************************************************)
CONSTANTS Servers, NoServer

ASSUME ServersAssumption == NoServer \notin Servers

VARIABLES
  directory,  \* none, own (the user's, mode 0700) or other
  socket,     \* the server that bound the socket at the path, or NoServer
  stage,      \* per server: off, making, checking, binding, closing, serving,
              \* unlinking or removing
  confirmed,  \* the operator has seen that the server of this socket has stopped
  killed,     \* history, per server: it was killed while it had the socket
  obstacle,   \* history, per server: it met another server, or what one left behind
  failed      \* per server: its last start failed

controlVars == <<directory, socket, stage, confirmed, killed, obstacle, failed>>

\* The servers whose control socket is bound and not removed yet.
Bound == {s \in Servers : stage[s] \in {"closing", "serving", "unlinking"}}
IsStale == socket # NoServer /\ socket \notin Bound

ControlInit ==
  /\ directory \in {"none", "own", "other"}
  /\ socket = NoServer
  /\ stage = [s \in Servers |-> "off"]
  /\ confirmed = FALSE
  /\ killed = [s \in Servers |-> FALSE]
  /\ obstacle = [s \in Servers |-> FALSE]
  /\ failed = [s \in Servers |-> FALSE]

\* What may excuse a start that fails: what is there at this moment, after the step.
Obstacle(s) ==
  \/ directory = "other"
  \/ IsStale
  \/ \E t \in Servers \ {s} : stage[t] # "off"

Observe == obstacle' = [s \in Servers |-> stage'[s] # "off" /\ (obstacle[s] \/ Obstacle(s)')]

Become(s, p) == stage' = [stage EXCEPT ![s] = p]

\* bind returns an error and the process ends; there is no Control to drop.
CannotStart(s) ==
  /\ Become(s, "off")
  /\ failed' = [failed EXCEPT ![s] = TRUE]

-----------------------------------------------------------------------------
Start(s) ==
  /\ stage[s] = "off"
  /\ Become(s, "making")
  /\ failed' = [failed EXCEPT ![s] = FALSE]
  /\ UNCHANGED <<directory, socket, confirmed, killed>>

\* Faulty variant: a directory that exists is an error.
IsNew == directory = "none"

\* Whether the directory is there already does not matter.
IsNewOrOld == TRUE

Make(s) ==
  /\ stage[s] = "making"
  /\ IF IsNewOrOld
     THEN /\ Become(s, "checking") /\ failed' = failed
          /\ directory' = IF directory = "none" THEN "own" ELSE directory
     ELSE CannotStart(s) /\ directory' = directory
  /\ UNCHANGED <<socket, confirmed, killed>>

Check(s) ==
  /\ stage[s] = "checking"
  /\ IF directory = "own"
     THEN Become(s, "binding") /\ failed' = failed
     ELSE CannotStart(s)
  /\ UNCHANGED <<directory, socket, confirmed, killed>>

\* Faulty variant: a socket at the path is replaced.
IsReplaceable == directory = "own"

\* bind makes the socket, and fails where one is or where the directory is gone.
IsBindable == directory = "own" /\ socket = NoServer

Bind(s) ==
  /\ stage[s] = "binding"
  /\ IF IsBindable
     THEN Become(s, "closing") /\ socket' = s /\ failed' = failed
     ELSE CannotStart(s) /\ socket' = socket
  /\ UNCHANGED <<directory, confirmed, killed>>

\* set_permissions, of whatever is at the path.
Close(s) ==
  /\ stage[s] = "closing"
  /\ IF socket # NoServer
     THEN Become(s, "serving") /\ failed' = failed
     ELSE CannotStart(s)
  /\ UNCHANGED <<directory, socket, confirmed, killed>>

\* serve returns: Ctrl-C, a listener that ended, a configuration that cannot run.
Return(s) ==
  /\ stage[s] = "serving"
  /\ Become(s, "unlinking")
  /\ UNCHANGED <<directory, socket, confirmed, killed, failed>>

\* Faulty variant: the socket is left to the next server.
Left(s) == socket

\* remove_file, of whatever is at the path.
Removed(s) == NoServer

Unlink(s) ==
  /\ stage[s] = "unlinking"
  /\ Become(s, "removing")
  /\ socket' = Removed(s)
  /\ UNCHANGED <<directory, confirmed, killed, failed>>

\* Faulty variant: remove_dir_all.
IsOwn == directory = "own"

\* remove_dir fails where the directory is not empty, which does not matter.
IsEmpty == directory = "own" /\ socket = NoServer

RemoveDir(s) ==
  /\ stage[s] = "removing"
  /\ Become(s, "off")
  /\ directory' = IF IsEmpty THEN "none" ELSE directory
  /\ UNCHANGED <<socket, confirmed, killed, failed>>

Kill(s) ==
  /\ stage[s] # "off"
  /\ Become(s, "off")
  /\ killed' = [killed EXCEPT ![s] = @ \/ s \in Bound]
  /\ UNCHANGED <<directory, socket, confirmed, failed>>

\* The operator makes sure that the server of a socket has stopped, and removes it.
Confirm ==
  /\ IsStale
  /\ confirmed' = TRUE
  /\ UNCHANGED <<directory, socket, stage, killed, failed>>

Clear ==
  /\ confirmed
  /\ confirmed' = FALSE
  /\ socket' = NoServer
  /\ killed' = [killed EXCEPT ![socket] = FALSE]
  /\ UNCHANGED <<directory, stage, failed>>

Call(s) == Make(s) \/ Check(s) \/ Bind(s) \/ Close(s) \/ Unlink(s) \/ RemoveDir(s)

Step ==
  \/ \E s \in Servers : Start(s) \/ Call(s) \/ Return(s) \/ Kill(s)
  \/ Confirm
  \/ Clear

ControlNext == Step /\ Observe

ControlSpec == ControlInit /\ [][ControlNext]_controlVars

-----------------------------------------------------------------------------
\* The types of the state, and a socket lies in a directory of the user's own, which
\* nobody removes under it.
ControlTypeOK ==
  /\ directory \in {"none", "own", "other"}
  /\ socket \in Servers \cup {NoServer}
  /\ stage \in [Servers -> {"off", "making", "checking", "binding", "closing",
                             "serving", "unlinking", "removing"}]
  /\ confirmed \in BOOLEAN
  /\ killed \in [Servers -> BOOLEAN]
  /\ obstacle \in [Servers -> BOOLEAN]
  /\ failed \in [Servers -> BOOLEAN]
  /\ socket # NoServer => directory = "own"

\* README.md: "Only config-file servers are reloadable, with one instance per Unix
\* user." The socket at the path is that of the one server that is up, whichever
\* others try to start, stop, are killed or cleaned up after.
OneReloadable ==
  /\ \A s \in Bound : socket = s
  /\ confirmed => IsStale

\* Only a server that was killed leaves its socket behind, to keep the others from
\* starting: one that ends, or cannot start, removes its own and nobody else's.
LeftOnlyByKill == IsStale => killed[socket]

\* A start fails only if another server was about, or something was left behind,
\* while it went on.
FailsOnlyForOthers ==
  [][\A s \in Servers : ~failed[s] /\ failed'[s] => obstacle[s] \/ Obstacle(s)]_controlVars
=============================================================================
