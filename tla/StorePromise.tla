---------------------------- MODULE StorePromise ----------------------------
(***************************************************************************)
(* What dnsuck's record store promises the API handlers that call it: every*)
(* submitted job is answered once, and takes effect as a whole at one      *)
(* instant before it is answered, or not at all. Nothing here knows of     *)
(* transactions, encodings or the order a batch is worked through.         *)
(***************************************************************************)
EXTENDS StoreState

VARIABLES job, reply   \* what each writer asked for, and the last answer it got

vars == <<records, modes, revision, job, reply>>

Answer(w, r) ==
  /\ job' = [job EXCEPT ![w] = Idle]
  /\ reply' = [reply EXCEPT ![w] = r]

Submit(w, j) ==
  /\ job[w] = Idle
  /\ job' = [job EXCEPT ![w] = j]
  /\ reply' = [reply EXCEPT ![w] = NoReply]
  /\ UNCHANGED state

Apply(w) ==
  /\ job[w] # Idle
  /\ Take(job[w])
  /\ Answer(w, [status |-> "ok", count |-> Count(job[w])])

\* Only a job that breaks a rule is refused, and nothing of it stays.
Refuse(w) ==
  /\ job[w] # Idle
  /\ ~Accepts(job[w])
  /\ Answer(w, Replied("refused"))
  /\ UNCHANGED state

\* LMDB gave up, or there is no further revision.
Fail(w) ==
  /\ job[w] # Idle
  /\ Answer(w, Replied("failed"))
  /\ UNCHANGED state

\* A request is dropped with its connection, before any work on it.
Lose(w) ==
  /\ job[w] # Idle
  /\ Answer(w, Replied("lost"))
  /\ UNCHANGED state

\* The process dies: whoever was waiting gets no answer.
Crash ==
  /\ job' = [w \in Writers |-> Idle]
  /\ reply' = [w \in Writers |-> IF job[w] = Idle THEN reply[w] ELSE Replied("lost")]
  /\ UNCHANGED state

Init ==
  /\ StateInit
  /\ job = [w \in Writers |-> Idle]
  /\ reply = [w \in Writers |-> NoReply]

Next ==
  \/ \E w \in Writers : \/ \E j \in Jobs : Submit(w, j)
                        \/ Apply(w)
                        \/ Refuse(w)
                        \/ Fail(w)
                        \/ Lose(w)
  \/ Crash

Spec == Init /\ [][Next]_vars
=============================================================================
