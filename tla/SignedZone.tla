----------------------------- MODULE SignedZone -----------------------------
(***************************************************************************)
(* Signed answers: SignedZone in src/src/dnslogic/dnssec.rs, and the API's *)
(* guard on the records it needs. A question is looked up on one snapshot. *)
(* If patterns made records for it, a zone is built and signed for it from *)
(* that snapshot; else it is answered from a catalog that all such         *)
(* questions share, kept for one revision and one hour. The lookup is      *)
(* Resolve, which module Query shows the hop-by-hop lookup to compute.     *)
(***************************************************************************)
EXTENDS StoreState, Resolution

CONSTANTS
  Askers,        \* the threads that answer signed questions
  Asked,         \* what they are asked
  Starts,        \* contents a server may start on
  Origin,        \* the apex of the signed zone
  InZone,        \* the names at or below it
  StoredSerial,  \* the serial in SOA RDATA
  SerialLimit,   \* 2^32 in the code
  RefreshAge,    \* 3600 s in the code: the age at which a catalog is rebuilt
  SignatureLife, \* 7 days in the code
  MaxTime,       \* bound of the clock
  None

\* The signed zone's own records are made by the signer.
Signers == {"DNSKEY", "RRSIG", "NSEC", "NSEC3", "NSEC3PARAM"}

Concrete(recs) == UNION {Verbatim(recs, k) : k \in Owners}
HasApex(answers) ==
  \A kind \in {"SOA", "NS"} : \E a \in answers : a.owner = Origin /\ a.kind = kind

\* A database that the server served from before, which has what the zone needs.
CanStart(recs) ==
  /\ recs \in [Keys -> SUBSET Stored]
  /\ HasApex(Concrete(recs))
  /\ IsFiniteSet(StoredPatterns(recs))
  /\ \A k \in Keys : IsFiniteSet(recs[k]) /\ IsConsistent(recs[k])
  /\ \A k \in Owners : recs[k] \subseteq Static

ASSUME ZoneAssumption ==
  /\ Asked \subseteq Questions
  /\ None \notin Askers
  /\ Origin \in InZone /\ InZone \subseteq Owners
  /\ SerialLimit \in Nat \ {0} /\ StoredSerial \in [RData -> 0..SerialLimit - 1]
  /\ RefreshAge \in Nat \ {0} /\ SignatureLife \in Nat /\ RefreshAge < SignatureLife
  /\ MaxTime \in Nat
  /\ \A start \in Starts : CanStart(start)

VARIABLES
  versions,    \* the records at every revision since the server started
  now,         \* the clock
  cached,      \* the shared catalog and when it was built
  holder,      \* the thread that has the lock of the shared catalog, or None
  phase,       \* per thread: idle, asked, waiting, holding, filling or done
  question,    \* per thread: what it was asked
  since,       \* per thread: the revision when it was asked
  seen,        \* per thread: the revision it last read
  outcome      \* per thread: the zone it answers from, or why it cannot

vars == <<records, modes, revision, versions, now, cached, holder, phase, question,
          since, seen, outcome>>

-----------------------------------------------------------------------------
(***************************************************************************)
(* build: without SOA and NS at the apex there is no zone. Where patterns  *)
(* could make other names, denials must not be cached.                     *)
(***************************************************************************)
StoredSoa(answers) ==
  StoredSerial[(CHOOSE a \in answers : a.owner = Origin /\ a.kind = "SOA").data]

\* Faulty variant: the addition saturates.
SaturatingAdd(serial, rev) ==
  IF serial + rev < SerialLimit THEN serial + rev ELSE SerialLimit - 1

\* Served serials go up with the revision, and wrap round.
WrappingAdd(serial, rev) == (serial + rev) % SerialLimit

Zone(rev, answers, fleeting) ==
  [revision |-> rev, fleeting |-> fleeting,
   serial |-> IF HasApex(answers) THEN WrappingAdd(StoredSoa(answers), rev) ELSE 0,
   answers |-> {a \in answers : a.owner \in InZone /\ a.kind \notin Signers}]

CatalogOf(rev, recs) == Zone(rev, Concrete(recs), StoredPatterns(recs) # {})

\* Served from a zone of this age, or not served.
Served(zone, age) == [status |-> "served", zone |-> zone, age |-> age]
Servfail(why) == [status |-> why, zone |-> None, age |-> 0]

Init ==
  /\ records \in Starts
  /\ modes = [rrset \in RRsets |-> NoMode]
  /\ revision = 0
  /\ versions = [n \in {0} |-> records]
  /\ now = 0
  \* warm_signed has built the first catalog.
  /\ cached = [zone |-> CatalogOf(0, records), created |-> 0]
  /\ holder = None
  /\ phase = [r \in Askers |-> "idle"]
  /\ question = [r \in Askers |-> None]
  /\ since = [r \in Askers |-> 0]
  /\ seen = [r \in Askers |-> 0]
  /\ outcome = [r \in Askers |-> Servfail("none")]

Become(r, p) == phase' = [phase EXCEPT ![r] = p]

Finish(r, result) ==
  /\ Become(r, "done")
  /\ outcome' = [outcome EXCEPT ![r] = result]
  /\ seen' = [seen EXCEPT ![r] = revision]

Tick ==
  /\ now < MaxTime
  /\ now' = now + 1
  /\ UNCHANGED <<state, versions, cached, holder, phase, question, since, seen, outcome>>

\* Faulty variant: the guard forgets deletions of every type.
TouchesApexTypes(j) ==
  j.op = "delete" /\ Canonical[j.name] = Origin /\ j.kind \in {"SOA", "NS"}

\* The deletions the API refuses while a zone is signed.
TouchesApex(j) ==
  j.op = "delete" /\ Canonical[j.name] = Origin /\ j.kind \in {AnyKind, "SOA", "NS"}

Write(j) ==
  /\ ~TouchesApex(j)
  /\ IsChange(j)
  /\ Take(j)
  /\ versions' = [n \in 0..revision' |-> IF n = revision' THEN records' ELSE versions[n]]
  /\ UNCHANGED <<now, cached, holder, phase, question, since, seen, outcome>>

-----------------------------------------------------------------------------
Ask(r, q) ==
  /\ phase[r] \in {"idle", "done"}
  /\ Become(r, "asked")
  /\ question' = [question EXCEPT ![r] = q]
  /\ since' = [since EXCEPT ![r] = revision]
  /\ outcome' = [outcome EXCEPT ![r] = Servfail("none")]
  /\ UNCHANGED <<state, versions, now, cached, holder, seen>>

\* snapshot_for_query, and build where it made something.
Look(r) ==
  LET found == Resolve(records, question[r])
      answers == Concrete(records) \cup found.synthesized IN
  /\ phase[r] = "asked"
  /\ IF found.status = "error" THEN Finish(r, Servfail("lookup"))
     ELSE IF found.synthesized = {}
          THEN Become(r, "waiting") /\ UNCHANGED <<outcome, seen>>
          ELSE Finish(r, IF HasApex(answers)
                         THEN Served(Zone(revision, answers, TRUE), 0)
                         ELSE Servfail("apex"))
  /\ UNCHANGED <<state, versions, now, cached, holder, question, since>>

\* Faulty variant: the catalog is read and replaced without its lock.
IsShared == TRUE

IsUnlocked == holder = None

Lock(r) ==
  /\ phase[r] = "waiting"
  /\ IsUnlocked
  /\ holder' = r
  /\ Become(r, "holding")
  /\ UNCHANGED <<state, versions, now, cached, question, since, seen, outcome>>

\* Faulty variants: a catalog of the revision is used for ever; a young one is
\* used whatever was written since.
IsOfRevision == cached.zone.revision = revision
IsYoung == now - cached.created < RefreshAge

IsCurrent == cached.zone.revision = revision /\ now - cached.created < RefreshAge

\* revision() reads the revision, and the catalog of that revision is used.
Reuse(r) ==
  /\ phase[r] = "holding"
  /\ IsCurrent
  /\ Finish(r, Served(cached.zone, now - cached.created))
  /\ holder' = None
  /\ UNCHANGED <<state, versions, now, cached, question, since>>

Miss(r) ==
  /\ phase[r] = "holding"
  /\ ~IsCurrent
  /\ Become(r, "filling")
  /\ seen' = [seen EXCEPT ![r] = revision]
  /\ UNCHANGED <<state, versions, now, cached, holder, question, since, outcome>>

\* Faulty variant: the catalog is filed under the revision that was missed.
MissedRevision(r) == seen[r]

\* snapshot() reads the revision again, with the records.
SnapshotRevision(r) == revision

Fill(r) ==
  LET zone == CatalogOf(SnapshotRevision(r), records) IN
  /\ phase[r] = "filling"
  /\ IF HasApex(Concrete(records))
     THEN /\ cached' = [zone |-> zone, created |-> now]
          /\ Finish(r, Served(zone, 0))
     ELSE /\ cached' = cached
          /\ Finish(r, Servfail("apex"))
  /\ holder' = None
  /\ UNCHANGED <<state, versions, now, question, since>>

Next ==
  \/ Tick
  \/ \E j \in Jobs : Write(j)
  \/ \E r \in Askers : \/ \E q \in Asked : Ask(r, q)
                       \/ Look(r)
                       \/ Lock(r)
                       \/ Reuse(r)
                       \/ Miss(r)
                       \/ Fill(r)

Spec == Init /\ [][Next]_vars

-----------------------------------------------------------------------------
Zones == [revision : 0..MaxRevision, fleeting : BOOLEAN, serial : 0..SerialLimit - 1,
          answers : SUBSET [owner : InZone, kind : Kinds, ttl : TTLs, data : RData]]

\* The types of the state: one thread at a time has the shared catalog locked, and
\* a thread that answers, or fails to, has given the lock back.
TypeOK ==
  /\ StateTypeOK
  /\ DOMAIN versions = 0..revision
  /\ now \in 0..MaxTime
  /\ cached.zone \in Zones /\ cached.created \in 0..now
  /\ holder \in Askers \cup {None}
  /\ \A r \in Askers :
       /\ phase[r] \in {"idle", "asked", "waiting", "holding", "filling", "done"}
       /\ holder = r <=> phase[r] \in {"holding", "filling"}
       /\ outcome[r].status = "served" => outcome[r].zone \in Zones

\* The shared catalog is the zone of the revision it is filed under, although the
\* store is read twice to build it and may change in between.
CatalogCoherent ==
  cached.zone = CatalogOf(cached.zone.revision, versions[cached.zone.revision])

Answered(r) == phase[r] = "done" /\ outcome[r].status = "served"

\* No question is answered from content older than the question.
AnswersFresh == \A r \in Askers : Answered(r) => outcome[r].zone.revision >= since[r]

\* No question is answered with signatures that have run out.
SignaturesCurrent == \A r \in Askers : Answered(r) => outcome[r].age < SignatureLife

\* Of two answers, the one from newer content has the greater serial, in the serial
\* arithmetic of RFC 1982, across the wrap and whether the zone was shared or made for
\* the question, as long as nobody lowers the serial that is stored.
IsGreater(s, t) == s # t /\ (s + SerialLimit - t) % SerialLimit < SerialLimit \div 2
SerialsAdvance ==
  \A r, t \in Askers : Answered(r) /\ Answered(t) =>
    LET old == outcome[r].zone
        new == outcome[t].zone
    IN  /\ old.revision < new.revision => IsGreater(new.serial, old.serial)
        /\ old.revision = new.revision => new.serial = old.serial

\* A signed zone that was built once never again fails for want of an apex: none of
\* the writes that the API lets through takes away the last SOA or NS there. (That the
\* signer takes every record besides is not claimed.)
ApexKept == \A r \in Askers : outcome[r].status # "apex"

\* store.rs says of snapshot_for_query: "A signed query gets concrete synthesized
\* owners and the same LMDB snapshot." A name is then denied only if some revision
\* that was current while the question was open has nothing for it.
Denies(zone, name) == \A a \in zone.answers : a.owner # name
DenialsTrue ==
  \A r \in Askers :
    LET name == Canonical[question[r].name] IN
    Answered(r) /\ name \in InZone /\ Denies(outcome[r].zone, name) =>
      \E n \in since[r]..seen[r] : Source(versions[n], name) = NoName
=============================================================================
