-------------------------- MODULE SignedZoneProofs --------------------------
(***************************************************************************)
(* The shared catalog and the answers signed from it, for any names, jobs, *)
(* clocks and number of threads.                                           *)
(***************************************************************************)
EXTENDS SignedZone, StateProofs

\* The history ends with what is stored now.
VersionsKept ==
  /\ DOMAIN versions = 0..revision
  /\ versions[revision] = records

\* What is stored is finite, and an ordinary name, the apex in particular, has no
\* template.
ContentKept ==
  /\ IsFinite(records)
  /\ \A k \in Owners : records[k] \subseteq Static

\* The SOA records that were stored at a revision.
SoaAt(n) == {r \in versions[n][Origin] : r.kind = "SOA" /\ r.data \in RData}

\* A zone is not from the future, and has the serial of an SOA of its revision.
IsZone(zone) ==
  /\ zone \in Zones
  /\ zone.revision \in 0..revision
  /\ \E soa \in SoaAt(zone.revision) :
       zone.serial = WrappingAdd(StoredSerial[soa.data], zone.revision)

CatalogKept ==
  /\ CatalogCoherent
  /\ IsZone(cached.zone)
  /\ now \in 0..MaxTime /\ cached.created \in 0..now

AskersKept ==
  \A r \in Askers :
    /\ since[r] \in 0..revision
    /\ outcome[r].status = "served" =>
         /\ IsZone(outcome[r].zone) /\ outcome[r].zone.revision >= since[r]
         /\ outcome[r].age \in Nat /\ outcome[r].age < SignatureLife

\* A type is at the apex if it is stored there.
Apex(recs) == {"SOA", "NS"} \subseteq KindsOf(recs[Origin])

AskerTypes ==
  /\ since \in [Askers -> Nat]
  /\ DOMAIN outcome = Askers /\ DOMAIN question = Askers
  /\ phase \in [Askers -> {"idle", "asked", "waiting", "holding", "filling", "done"}]
  /\ \A r \in Askers : phase[r] # "idle" => question[r] \in Asked

LockKept ==
  /\ holder \in Askers \cup {None}
  /\ \A r \in Askers : holder = r <=> phase[r] \in {"holding", "filling"}

StoreKept ==
  StateTypeOK /\ VersionsKept /\ ContentKept /\ Apex(records)

Inv == StoreKept /\ CatalogKept /\ AskersKept /\ AskerTypes /\ LockKept /\ ApexKept

-----------------------------------------------------------------------------
(***************************************************************************)
(* The arithmetic of serials.                                              *)
(***************************************************************************)
LEMMA SumWraps ==
  ASSUME NEW s \in Nat, NEW n \in Nat, NEW L \in Nat \ {0}
  PROVE  (s + n) % L \in 0..L - 1
OBVIOUS

LEMMA RemainderUnique ==
  ASSUME NEW a \in Nat, NEW L \in Nat \ {0}, NEW q \in Int, NEW r \in 0..L - 1,
         a = (L * q) + r
  PROVE  a % L = r
OBVIOUS

LEMMA Division ==
  ASSUME NEW a \in Nat, NEW L \in Nat \ {0}
  PROVE  \E q \in Int, r \in 0..L - 1 : a = (L * q) + r /\ a % L = r
<1>1. a % L \in 0..L - 1
  BY Z3
<1>2. a = (L * (a \div L)) + (a % L)
  BY Z3
<1>3. a \div L \in Int
  BY Z3
<1> QED
  BY <1>1, <1>2, <1>3

\* Two numbers that are less than L apart are as far apart modulo L.
LEMMA DistanceKept ==
  ASSUME NEW a \in Nat, NEW b \in Nat, NEW L \in Nat \ {0}, a < b, b - a < L
  PROVE  (b % L) # (a % L) /\ ((b % L) + L - (a % L)) % L = b - a
<1>1. PICK q \in Int, r \in 0..L - 1 : a = (L * q) + r /\ a % L = r
  BY Division
<1>2. PICK p \in Int, s \in 0..L - 1 : b = (L * p) + s /\ b % L = s
  BY Division
<1> DEFINE x == s + L - r
           turns == q - p + 1
           d == b - a
<1>3. x \in Nat /\ turns \in Int /\ d \in 0..L - 1
  OBVIOUS
<1>4. x = (L * turns) + d
  BY <1>1, <1>2
<1> HIDE DEF x, turns, d
<1>5. x % L = d
  BY <1>3, <1>4, RemainderUnique
<1>6. s # r
  <2>1. L = (L * 1) + 0 /\ 0 \in 0..L - 1 /\ L \in Nat
    OBVIOUS
  <2>2. L % L = 0
    BY <2>1, RemainderUnique
  <2>3. s = r => x = L /\ d # 0
    BY DEF x, d
  <2> QED
    BY <1>5, <2>2, <2>3
<1> QED
  BY <1>1, <1>2, <1>5, <1>6 DEF x, d

-----------------------------------------------------------------------------
(***************************************************************************)
(* Zones.                                                                  *)
(***************************************************************************)
LEMMA ApexStored ==
  ASSUME NEW recs
  PROVE  HasApex(Concrete(recs)) <=> Apex(recs)
<1>1. Origin \in Owners /\ Origin \notin Patterns
  BY ZoneAssumption, NamesAssumption
<1>2. \A k \in Owners : StoredOwner(k) = k
  BY NamesAssumption DEF StoredOwner
<1>3. ASSUME NEW kind
      PROVE  (\E a \in Concrete(recs) : a.owner = Origin /\ a.kind = kind)
               <=> kind \in KindsOf(recs[Origin])
  <2>1. ASSUME NEW a \in Concrete(recs), a.owner = Origin, a.kind = kind
        PROVE  kind \in KindsOf(recs[Origin])
    <3>1. PICK k \in Owners : a \in Verbatim(recs, k)
      BY <2>1 DEF Concrete
    <3>2. PICK r \in recs[k] : a = [owner |-> k, kind |-> r.kind, ttl |-> r.ttl, data |-> r.data]
      BY <1>2, <3>1 DEF Verbatim, Owned
    <3>3. k = Origin /\ r.kind = kind
      BY <2>1, <3>2
    <3> QED
      BY <3>3 DEF KindsOf
  <2>2. ASSUME NEW r \in recs[Origin], r.kind = kind
        PROVE  \E a \in Concrete(recs) : a.owner = Origin /\ a.kind = kind
    <3> DEFINE a == Owned(r, Origin, r.data)
    <3>1. a \in Concrete(recs)
      BY <1>1, <1>2 DEF Concrete, Verbatim
    <3>2. a.owner = Origin /\ a.kind = kind
      BY <2>2 DEF Owned
    <3> QED
      BY <3>1, <3>2
  <2> QED
    BY <2>1, <2>2 DEF KindsOf
<1> QED
  BY <1>3 DEF HasApex, Apex

LEMMA CatalogRevision ==
  ASSUME NEW rev, NEW recs
  PROVE  CatalogOf(rev, recs).revision = rev
BY DEF CatalogOf, Zone

\* A zone that is built from what is stored, and from other records for names that have
\* none of their own.
LEMMA BuiltZone ==
  ASSUME StoreKept, NEW made, \A v \in made : v \in Answers /\ records[v.owner] = {},
         NEW fleeting \in BOOLEAN
  PROVE  IsZone(Zone(revision, Concrete(records) \cup made, fleeting))
<1> DEFINE answers == Concrete(records) \cup made
           zone    == Zone(revision, answers, fleeting)
           soa     == CHOOSE a \in answers : a.owner = Origin /\ a.kind = "SOA"
<1> USE DEF StoreKept
<1>1. Origin \in Owners /\ Owners \subseteq Keys /\ \A k \in Owners : StoredOwner(k) = k
  BY ZoneAssumption, NamesAssumption DEF Keys, StoredOwner
<1>2. revision \in Nat /\ revision \in 0..MaxRevision
  BY JobsAssumption DEF StateTypeOK
<1>3. ASSUME NEW a \in Concrete(records)
      PROVE  /\ a \in Answers
             /\ \E r \in records[a.owner] : r \in Static /\ r.kind = a.kind /\ r.data = a.data
  <2>1. PICK k \in Owners : a \in Verbatim(records, k)
    BY DEF Concrete
  <2>2. PICK r \in records[k] : a = [owner |-> k, kind |-> r.kind, ttl |-> r.ttl, data |-> r.data]
    BY <1>1, <2>1 DEF Verbatim, Owned
  <2>3. r \in Static
    BY DEF ContentKept
  <2> QED
    BY <1>1, <2>2, <2>3 DEF Answers, Static
<1>4. HasApex(answers)
  BY ApexStored DEF HasApex
<1>5. soa \in answers /\ soa.owner = Origin /\ soa.kind = "SOA"
  BY <1>4 DEF HasApex
<1>6. \A v \in answers : v \in Answers
  BY <1>3
<1> HIDE DEF soa
<1>7. soa \in Concrete(records)
  <2>1. records[Origin] # {}
    BY DEF Apex, KindsOf
  <2> QED
    BY <1>5, <2>1
<1>8. PICK r \in SoaAt(revision) : r.data = soa.data
  BY <1>3, <1>5, <1>7 DEF SoaAt, VersionsKept, Static
<1>9. StoredSerial[r.data] \in Nat
  BY ZoneAssumption DEF SoaAt
<1>10. /\ zone.revision = revision /\ zone.fleeting = fleeting
       /\ zone.serial = WrappingAdd(StoredSerial[r.data], revision)
       /\ zone.answers = {a \in answers : a.owner \in InZone /\ a.kind \notin Signers}
       /\ zone = [revision |-> revision, fleeting |-> fleeting, serial |-> zone.serial,
                  answers |-> zone.answers]
  <2> HIDE DEF answers
  <2> QED
    BY <1>4, <1>8 DEF Zone, StoredSoa, soa
<1>11. zone.serial \in 0..SerialLimit - 1
  BY <1>2, <1>9, <1>10, ZoneAssumption, SumWraps DEF WrappingAdd
<1>12. zone.answers \subseteq [owner : InZone, kind : Kinds, ttl : TTLs, data : RData]
  BY <1>6, <1>10 DEF Answers
<1> HIDE DEF zone
<1>13. zone \in Zones
  BY <1>2, <1>10, <1>11, <1>12 DEF Zones
<1>14. IsZone(zone)
  BY <1>2, <1>8, <1>10, <1>13 DEF IsZone
<1> QED
  BY <1>14 DEF zone

\* A catalog is such a zone, with nothing made.
LEMMA BuiltCatalog ==
  ASSUME StoreKept
  PROVE  IsZone(CatalogOf(revision, records))
<1>1. (StoredPatterns(records) # {}) \in BOOLEAN
  OBVIOUS
<1>2. Concrete(records) \cup {} = Concrete(records)
  OBVIOUS
<1> QED
  BY <1>1, <1>2, BuiltZone DEF CatalogOf

\* A zone stays one when the history only grows.
LEMMA ZoneStays ==
  ASSUME NEW zone, IsZone(zone), revision' \in Nat, revision \in Nat, revision <= revision',
         \A n \in 0..revision : versions'[n] = versions[n]
  PROVE  IsZone(zone)'
BY DEF IsZone, SoaAt

LEMMA InitInv == Init => Inv
<1> SUFFICES ASSUME Init PROVE Inv
  OBVIOUS
<1> USE DEF Init
<1>1. CanStart(records)
  BY ZoneAssumption
<1>2. revision = 0 /\ 0 \in 0..MaxRevision /\ 0 \in 0..revision
  BY JobsAssumption
<1>3. StateTypeOK
  BY <1>1, <1>2 DEF StateTypeOK, CanStart
<1>4. VersionsKept /\ ContentKept
  BY <1>1, <1>2 DEF VersionsKept, ContentKept, CanStart, IsFinite
<1>5. StoreKept
  BY <1>1, <1>3, <1>4, ApexStored DEF StoreKept, CanStart
<1>6. CatalogKept
  <2>1. cached.zone = CatalogOf(revision, records) /\ cached.created = 0 /\ now = 0
    BY <1>2
  <2>2. IsZone(cached.zone)
    BY <1>5, <2>1, BuiltCatalog
  <2>3. CatalogCoherent
    BY <1>2, <1>4, <2>1, CatalogRevision DEF CatalogCoherent, VersionsKept
  <2>4. now \in 0..MaxTime /\ cached.created \in 0..now
    BY <2>1, ZoneAssumption
  <2> QED
    BY <2>2, <2>3, <2>4 DEF CatalogKept
<1>7. LockKept
  BY ZoneAssumption DEF LockKept
<1> QED
  BY <1>2, <1>5, <1>6, <1>7 DEF Inv, AskersKept, AskerTypes, ApexKept, Servfail

-----------------------------------------------------------------------------
(***************************************************************************)
(* Writers.                                                                *)
(***************************************************************************)
\* No write that the API lets through takes the last SOA or NS of the apex.
LEMMA WriteKeepsApex ==
  ASSUME StateTypeOK, Apex(records), NEW j \in Jobs, ~TouchesApex(j)
  PROVE  Apex(RecordsAfter(j))
<1> DEFINE old == records[Origin]
           new == RecordsAfter(j)[Origin]
<1>1. Origin \in Keys
  BY ZoneAssumption DEF Keys
<1>2. new = IF Origin \notin KeysOf(j) THEN old
            ELSE IF j.op = "write" THEN Merge(old, Incoming(j.batch, Origin), j.replace)
            ELSE old \ Doomed(old, j)
  BY <1>1 DEF RecordsAfter
<1>3. CASE Origin \notin KeysOf(j)
  BY <1>2, <1>3 DEF Apex
<1>4. CASE Origin \in KeysOf(j) /\ j.op = "write"
  <2> DEFINE incoming == Incoming(j.batch, Origin)
  <2>1. \A kind \in KindsOf(old) : kind \in KindsOf(Merge(old, incoming, j.replace))
    BY DEF Merge, Retained, KindsOf
  <2> QED
    BY <1>2, <1>4, <2>1 DEF Apex
<1>5. CASE Origin \in KeysOf(j) /\ j.op # "write"
  <2>1. j.op = "delete" /\ Canonical[j.name] = Origin
    BY <1>5, JobsAssumption DEF WriteJob, DeleteJob, KeysOf
  <2>2. j.kind \notin {AnyKind, "SOA", "NS"}
    BY <2>1 DEF TouchesApex
  <2>3. \A r \in old : r.kind \in {"SOA", "NS"} => r \notin Doomed(old, j)
    BY <2>2 DEF Doomed, Considered
  <2> QED
    BY <1>2, <1>5, <2>3 DEF Apex, KindsOf
<1> QED
  BY <1>3, <1>4, <1>5

LEMMA WriteInv ==
  ASSUME Inv, NEW j \in Jobs, Write(j)
  PROVE  Inv'
<1>1. /\ revision \in Nat /\ revision' = revision + 1 /\ records' = RecordsAfter(j)
      /\ versions' = [n \in 0..revision' |-> IF n = revision' THEN records' ELSE versions[n]]
      /\ UNCHANGED <<now, cached, holder, phase, question, since, outcome>>
      /\ Accepts(j) /\ Take(j)
  BY JobsAssumption DEF Inv, StoreKept, StateTypeOK, Write, Take
<1>2. StateTypeOK'
  BY <1>1, TakeType DEF Inv, StoreKept
<1>3. VersionsKept'
  BY <1>1 DEF VersionsKept
<1>4. ContentKept'
  <2>1. IsFinite(records)'
    BY <1>1, TakeFinite DEF Inv, StoreKept, ContentKept
  <2>2. \A k \in Owners : RecordsAfter(j)[k] \subseteq Static
    BY <1>1, WriteKeepsStatic DEF Inv, StoreKept, ContentKept
  <2> QED
    BY <1>1, <2>1, <2>2 DEF ContentKept
<1>5. Apex(records')
  BY <1>1, WriteKeepsApex DEF Inv, StoreKept, Write
<1>6. \A n \in 0..revision : versions'[n] = versions[n]
  BY <1>1
<1>7. \A zone : IsZone(zone) => IsZone(zone)'
  BY <1>1, <1>6 DEF IsZone, SoaAt
<1>8. CatalogKept'
  <2>1. IsZone(cached.zone)' /\ versions'[cached.zone.revision] = versions[cached.zone.revision]
    BY <1>1, <1>6, <1>7 DEF Inv, CatalogKept, IsZone
  <2> QED
    BY <1>1, <2>1 DEF Inv, CatalogKept, CatalogCoherent
<1>9. AskersKept'
  <2> SUFFICES ASSUME NEW r \in Askers
               PROVE  /\ since'[r] \in 0..revision'
                      /\ outcome'[r].status = "served" => IsZone(outcome[r].zone)'
                      /\ outcome'[r].status = "served" =>
                           /\ outcome'[r].zone.revision >= since'[r]
                           /\ outcome'[r].age \in Nat /\ outcome'[r].age < SignatureLife
    BY <1>1 DEF AskersKept, IsZone, SoaAt
  <2>1. outcome[r].status = "served" => IsZone(outcome[r].zone)
    BY DEF Inv, AskersKept
  <2> QED
    BY <1>1, <1>7, <2>1 DEF Inv, AskersKept
<1>10. AskerTypes' /\ LockKept' /\ ApexKept'
  BY <1>1 DEF Inv, AskerTypes, LockKept, ApexKept
<1> QED
  BY <1>2, <1>3, <1>4, <1>5, <1>8, <1>9, <1>10 DEF Inv, StoreKept

-----------------------------------------------------------------------------
(***************************************************************************)
(* Readers.                                                                *)
(***************************************************************************)
LEMMA StoreRests ==
  ASSUME StoreKept, UNCHANGED <<state, versions>>
  PROVE  /\ StoreKept' /\ revision' = revision /\ revision \in Nat
         /\ \A zone : IsZone(zone) <=> IsZone(zone)'
<1>1. UNCHANGED <<records, modes, revision, versions>>
  BY DEF state
<1> QED
  BY <1>1, JobsAssumption
  DEF StoreKept, StateTypeOK, VersionsKept, ContentKept, IsFinite, StoredPatterns, Apex, KindsOf,
      IsZone, SoaAt

LEMMA CatalogRests ==
  ASSUME Inv, UNCHANGED <<state, versions, now, cached>>
  PROVE  CatalogKept'
<1>1. IsZone(cached.zone)'
  BY StoreRests DEF Inv, CatalogKept, IsZone, SoaAt, state
<1> QED
  BY <1>1 DEF Inv, CatalogKept, CatalogCoherent

\* A thread that is done has given the lock back.
Done(r) ==
  /\ phase' = [phase EXCEPT ![r] = "done"]
  /\ \/ UNCHANGED holder /\ phase[r] = "asked"
     \/ holder' = None /\ phase[r] \in {"holding", "filling"}
  /\ UNCHANGED question

LEMMA DoneKeepsLock ==
  ASSUME LockKept, AskerTypes, NEW r \in Askers, Done(r)
  PROVE  LockKept' /\ phase' \in [Askers -> {"idle", "asked", "waiting", "holding", "filling", "done"}]
         /\ \A s \in Askers : phase'[s] # "idle" => question'[s] \in Asked
BY ZoneAssumption DEF LockKept, AskerTypes, Done

\* An answer from what is stored now, signed lately, or none for another reason
\* than the apex, may be given.
LEMMA FinishInv ==
  ASSUME Inv, NEW r \in Askers, NEW result, Finish(r, result), Done(r),
         UNCHANGED <<state, versions, now, since>>, CatalogKept',
         \/ result.status \in {"lookup"}
         \/ /\ result.status = "served" /\ IsZone(result.zone)
            /\ result.zone.revision = revision
            /\ result.age \in Nat /\ result.age < SignatureLife
  PROVE  Inv'
<1>1. outcome' = [outcome EXCEPT ![r] = result]
  BY DEF Finish
<1>2. StoreKept' /\ revision' = revision /\ revision \in Nat
      /\ \A zone : IsZone(zone) => IsZone(zone)'
  BY StoreRests DEF Inv
<1>3. ASSUME NEW s \in Askers
      PROVE  /\ since'[s] \in 0..revision'
             /\ outcome'[s].status # "apex"
             /\ outcome'[s].status = "served" =>
                  /\ IsZone(outcome'[s].zone)
                  /\ outcome'[s].zone.revision >= since'[s]
                  /\ outcome'[s].age \in Nat /\ outcome'[s].age < SignatureLife
  <2>1. CASE s = r
    BY <1>1, <1>2, <2>1 DEF Inv, AskersKept, AskerTypes
  <2>2. CASE s # r
    BY <1>1, <1>2, <2>2 DEF Inv, AskersKept, AskerTypes, ApexKept
  <2> QED
    BY <2>1, <2>2
<1>4. AskersKept' /\ ApexKept'
  BY <1>2, <1>3 DEF AskersKept, ApexKept, IsZone, SoaAt, state
<1>5. LockKept' /\ AskerTypes'
  BY <1>1, DoneKeepsLock DEF Inv, AskerTypes, Done
<1> QED
  BY <1>2, <1>4, <1>5 DEF Inv

\* Steps that touch neither the store, nor the catalog, nor an answer.
LEMMA RestInv ==
  ASSUME Inv, UNCHANGED <<state, versions, now, cached, since, outcome>>,
         AskerTypes', LockKept'
  PROVE  Inv'
<1>1. StoreKept' /\ CatalogKept'
  BY StoreRests, CatalogRests DEF Inv
<1>2. AskersKept' /\ ApexKept'
  BY DEF Inv, AskersKept, ApexKept, IsZone, SoaAt, state
<1> QED
  BY <1>1, <1>2 DEF Inv

LEMMA AskInv ==
  ASSUME Inv, NEW r \in Askers, NEW q \in Asked, Ask(r, q)
  PROVE  Inv'
<1>1. /\ since' = [since EXCEPT ![r] = revision]
      /\ outcome' = [outcome EXCEPT ![r] = Servfail("none")]
      /\ phase' = [phase EXCEPT ![r] = "asked"] /\ phase[r] \in {"idle", "done"}
      /\ question' = [question EXCEPT ![r] = q]
      /\ UNCHANGED <<state, versions, now, cached, holder>>
  BY DEF Ask, Become
<1>2. StoreKept' /\ CatalogKept' /\ revision' = revision /\ revision \in Nat
  BY <1>1, StoreRests, CatalogRests DEF Inv
<1>3. ASSUME NEW s \in Askers
      PROVE  /\ since'[s] \in 0..revision'
             /\ outcome'[s].status # "apex"
             /\ outcome'[s].status = "served" =>
                  /\ IsZone(outcome'[s].zone)
                  /\ outcome'[s].zone.revision >= since'[s]
                  /\ outcome'[s].age \in Nat /\ outcome'[s].age < SignatureLife
  <2>1. CASE s = r
    BY <1>1, <1>2, <2>1 DEF Inv, AskerTypes, Servfail
  <2>2. CASE s # r
    BY <1>1, <1>2, <2>2 DEF Inv, AskersKept, AskerTypes, ApexKept
  <2> QED
    BY <2>1, <2>2
<1>4. AskersKept' /\ ApexKept'
  BY <1>1, <1>2, <1>3 DEF AskersKept, ApexKept, IsZone, SoaAt, state
<1>5. AskerTypes' /\ LockKept'
  BY <1>1, <1>2 DEF Inv, AskerTypes, LockKept
<1> QED
  BY <1>2, <1>4, <1>5 DEF Inv

LEMMA TickInv == ASSUME Inv, Tick PROVE Inv'
<1>1. /\ now' = now + 1 /\ now < MaxTime
      /\ UNCHANGED <<state, versions, cached, holder, phase, question, since, outcome>>
  BY DEF Tick
<1>2. StoreKept'
  BY <1>1, StoreRests DEF Inv
<1>3. CatalogKept'
  BY <1>1, ZoneAssumption DEF Inv, CatalogKept, CatalogCoherent, IsZone, SoaAt, state
<1>4. AskersKept' /\ AskerTypes' /\ LockKept' /\ ApexKept'
  BY <1>1 DEF Inv, AskersKept, AskerTypes, LockKept, ApexKept, IsZone, SoaAt, state
<1> QED
  BY <1>2, <1>3, <1>4 DEF Inv

\* A zone made for the question has what the catalog has, and more.
LEMMA LookInv == ASSUME Inv, NEW r \in Askers, Look(r) PROVE Inv'
<1> DEFINE found == Resolve(records, question[r])
           made == found.synthesized
           answers == Concrete(records) \cup made
           zone == Zone(revision, answers, TRUE)
<1>1. HasApex(answers)
  BY ApexStored DEF Inv, StoreKept, HasApex
<1>2. /\ UNCHANGED <<state, versions, now, cached, holder, question, since>>
      /\ phase[r] = "asked"
      /\ \/ Finish(r, Servfail("lookup"))
         \/ Become(r, "waiting") /\ UNCHANGED outcome
         \/ found.status # "error" /\ Finish(r, Served(zone, 0))
  BY <1>1 DEF Look
<1>3. CatalogKept'
  BY <1>2, CatalogRests DEF Inv
<1>4. \A result : Finish(r, result) => Done(r)
  BY <1>2 DEF Finish, Become, Done
<1>5. ASSUME found.status # "error" PROVE IsZone(zone)
  <2>1. question[r] \in Questions
    BY <1>2, ZoneAssumption DEF Inv, AskerTypes
  <2>2. \A v \in made : v \in Answers /\ records[v.owner] = {}
    BY <1>5, <2>1, SynthesizedType DEF Inv, StoreKept, ContentKept, IsFinite, StateTypeOK
  <2> HIDE DEF made
  <2> QED
    BY <2>2, BuiltZone DEF Inv
<1>6. zone.revision = revision
  BY DEF Zone
<1> HIDE DEF zone, answers, made, found
<1>7. Finish(r, Servfail("lookup")) => Inv'
  BY <1>2, <1>3, <1>4, FinishInv DEF Servfail
<1>8. found.status # "error" /\ Finish(r, Served(zone, 0)) => Inv'
  <2>1. /\ Served(zone, 0).status = "served" /\ Served(zone, 0).zone = zone
        /\ Served(zone, 0).age = 0
    BY DEF Served
  <2>2. 0 < SignatureLife /\ 0 \in Nat
    BY ZoneAssumption
  <2> QED
    BY <1>2, <1>3, <1>4, <1>5, <1>6, <2>1, <2>2, FinishInv
<1>9. Become(r, "waiting") /\ UNCHANGED outcome => Inv'
  <2> SUFFICES ASSUME Become(r, "waiting"), UNCHANGED outcome PROVE Inv'
    OBVIOUS
  <2>1. AskerTypes' /\ LockKept'
    BY <1>2 DEF Inv, AskerTypes, LockKept, Become
  <2> QED
    BY <1>2, <2>1, RestInv
<1> QED
  BY <1>2, <1>7, <1>8, <1>9

LEMMA LockInv ==
  ASSUME Inv, NEW r \in Askers, Lock(r) \/ Miss(r)
  PROVE  Inv'
<1>1. CASE Lock(r)
  <2>1. AskerTypes' /\ LockKept'
    BY <1>1, ZoneAssumption DEF Inv, AskerTypes, LockKept, Lock, Become, IsUnlocked
  <2> QED
    BY <1>1, <2>1, RestInv DEF Lock
<1>2. CASE Miss(r)
  <2>1. AskerTypes' /\ LockKept'
    BY <1>2 DEF Inv, AskerTypes, LockKept, Miss, Become
  <2> QED
    BY <1>2, <2>1, RestInv DEF Miss
<1> QED
  BY <1>1, <1>2

\* A catalog is used again for the revision that is read, before it is old.
LEMMA ReuseInv == ASSUME Inv, NEW r \in Askers, Reuse(r) PROVE Inv'
<1> DEFINE result == Served(cached.zone, now - cached.created)
<1>1. /\ cached.zone.revision = revision /\ now - cached.created < RefreshAge
      /\ Finish(r, result) /\ Done(r)
      /\ UNCHANGED <<state, versions, now, cached, since>>
  BY DEF Reuse, IsCurrent, Done, Finish, Become
<1>2. CatalogKept'
  BY <1>1, CatalogRests DEF Inv
<1>3. /\ result.status = "served" /\ result.zone = cached.zone /\ IsZone(cached.zone)
      /\ result.age \in Nat /\ result.age < SignatureLife
  BY <1>1, ZoneAssumption DEF Inv, CatalogKept, Served
<1> HIDE DEF result
<1> QED
  BY <1>1, <1>2, <1>3, FinishInv

\* The catalog is replaced by that of the revision the records are read with.
LEMMA FillInv == ASSUME Inv, NEW r \in Askers, Fill(r) PROVE Inv'
<1> DEFINE zone == CatalogOf(revision, records)
<1>1. HasApex(Concrete(records))
  BY ApexStored DEF Inv, StoreKept
<1>2. /\ cached' = [zone |-> zone, created |-> now]
      /\ Finish(r, Served(zone, 0)) /\ Done(r)
      /\ UNCHANGED <<state, versions, now, since>>
  BY <1>1 DEF Fill, SnapshotRevision, Done, Finish, Become
<1>3. zone.revision = revision /\ IsZone(zone)
  BY CatalogRevision, BuiltCatalog DEF Inv
<1>4. CatalogKept'
  <2>1. /\ cached'.zone = zone /\ cached'.created = now /\ revision' = revision
        /\ versions' = versions /\ versions[revision] = records /\ now' = now
    BY <1>2 DEF Inv, StoreKept, VersionsKept, state
  <2>2. CatalogCoherent'
    BY <1>3, <2>1 DEF CatalogCoherent
  <2> HIDE DEF zone
  <2>3. IsZone(cached.zone)'
    BY <1>3, <2>1 DEF IsZone, SoaAt
  <2> QED
    BY <2>1, <2>2, <2>3 DEF Inv, CatalogKept
<1>5. /\ Served(zone, 0).status = "served" /\ Served(zone, 0).zone = zone
      /\ Served(zone, 0).age = 0 /\ 0 < SignatureLife /\ 0 \in Nat
  BY ZoneAssumption DEF Served
<1> HIDE DEF zone
<1> QED
  BY <1>2, <1>3, <1>4, <1>5, FinishInv

LEMMA NextInv == Inv /\ [Next]_vars => Inv'
<1> SUFFICES ASSUME Inv, [Next]_vars PROVE Inv'
  OBVIOUS
<1>1. CASE UNCHANGED vars
  <2>1. AskerTypes' /\ LockKept'
    BY <1>1 DEF Inv, AskerTypes, LockKept, vars
  <2> QED
    BY <1>1, <2>1, RestInv DEF vars, state
<1> QED
  BY <1>1, TickInv, LockInv, WriteInv, AskInv, LookInv, ReuseInv, FillInv DEF Next

LEMMA Invariance == Spec => []Inv
BY InitInv, NextInv, PTL DEF Spec

-----------------------------------------------------------------------------
(***************************************************************************)
(* The state has its types: every zone that is served has serials and      *)
(* answers of the right types, whatever a pattern made of a question, and  *)
(* the lock of the shared catalog is held by those who build or read it.   *)
(***************************************************************************)
THEOREM TypeCorrect == Spec => []TypeOK
<1>1. Inv => TypeOK
  BY DEF Inv, StoreKept, VersionsKept, CatalogKept, AskersKept, AskerTypes, LockKept, IsZone,
         TypeOK
<1> QED
  BY <1>1, Invariance, PTL

(***************************************************************************)
(* Serials of served zones go up with the revision, across the wrap and    *)
(* whether a zone is shared or made for a question, as long as nobody      *)
(* lowers the serial that is stored, and it does not rise so far that      *)
(* serial arithmetic loses the order.                                      *)
(***************************************************************************)
SerialsStored ==
  \A m, n \in 0..revision : \A old \in SoaAt(m), new \in SoaAt(n) :
    m <= n =>
      /\ StoredSerial[old.data] <= StoredSerial[new.data]
      /\ StoredSerial[new.data] + n < StoredSerial[old.data] + m + (SerialLimit \div 2)

THEOREM SerialsGoUp == Spec => [](SerialsStored => SerialsAdvance)
<1>1. ASSUME Inv, SerialsStored PROVE SerialsAdvance
  <2> SUFFICES ASSUME NEW r \in Askers, NEW t \in Askers, Answered(r), Answered(t)
               PROVE  LET old == outcome[r].zone
                          new == outcome[t].zone
                      IN  /\ old.revision < new.revision => IsGreater(new.serial, old.serial)
                          /\ old.revision = new.revision => new.serial = old.serial
    BY DEF SerialsAdvance
  <2> DEFINE old == outcome[r].zone
             new == outcome[t].zone
  <2>1. IsZone(old) /\ IsZone(new)
    BY <1>1 DEF Inv, AskersKept, Answered
  <2> HIDE DEF old, new
  <2>2. PICK m \in 0..revision, n \in 0..revision : m = old.revision /\ n = new.revision
    BY <2>1 DEF IsZone
  <2>3. PICK a \in SoaAt(m), b \in SoaAt(n) :
               /\ old.serial = WrappingAdd(StoredSerial[a.data], m)
               /\ new.serial = WrappingAdd(StoredSerial[b.data], n)
    BY <2>1, <2>2 DEF IsZone
  <2> DEFINE s == StoredSerial[a.data]
             u == StoredSerial[b.data]
             half == SerialLimit \div 2
  <2>4. /\ s \in Nat /\ u \in Nat /\ SerialLimit \in Nat \ {0} /\ m \in Nat /\ n \in Nat
        /\ half \in Nat /\ half <= SerialLimit
    BY ZoneAssumption DEF SoaAt
  <2>5. /\ m <= n => s <= u /\ u + n < s + m + half
        /\ m = n => u <= s
    BY <1>1, <2>2, <2>3 DEF SerialsStored
  <2>6. old.serial = (s + m) % SerialLimit /\ new.serial = (u + n) % SerialLimit
    BY <2>3 DEF WrappingAdd
  <2> HIDE DEF s, u, half
  <2>7. ASSUME m < n PROVE IsGreater(new.serial, old.serial)
    <3> DEFINE x == s + m
               y == u + n
    <3>1. x \in Nat /\ y \in Nat /\ x < y /\ y - x < half /\ y - x < SerialLimit
      BY <2>4, <2>5, <2>7
    <3> HIDE DEF x, y
    <3>2. (y % SerialLimit) # (x % SerialLimit)
          /\ ((y % SerialLimit) + SerialLimit - (x % SerialLimit)) % SerialLimit = y - x
      BY <2>4, <3>1, DistanceKept
    <3> QED
      BY <2>6, <3>1, <3>2 DEF IsGreater, x, y, half
  <2>8. m = n => new.serial = old.serial
    BY <2>4, <2>5, <2>6
  <2> QED
    BY <2>2, <2>7, <2>8 DEF old, new
<1> QED
  BY <1>1, Invariance, PTL

(***************************************************************************)
(* The shared catalog is the zone of the revision it is filed under, though*)
(* the revision and the records are read apart.                            *)
(***************************************************************************)
THEOREM CatalogStaysCoherent == Spec => []CatalogCoherent
<1>1. Inv => CatalogCoherent
  BY DEF Inv, CatalogKept
<1> QED
  BY <1>1, Invariance, PTL

(***************************************************************************)
(* Signed answers are never older than their question.                     *)
(***************************************************************************)
THEOREM AnswersStayFresh == Spec => []AnswersFresh
<1>1. Inv => AnswersFresh
  BY DEF Inv, AskersKept, IsZone, AnswersFresh, Answered
<1> QED
  BY <1>1, Invariance, PTL

(***************************************************************************)
(* Nor are their signatures older than they are valid, as long as a catalog*)
(* is rebuilt at a smaller age.                                            *)
(***************************************************************************)
THEOREM SignaturesStayCurrent == Spec => []SignaturesCurrent
<1>1. Inv => SignaturesCurrent
  BY DEF Inv, AskersKept, SignaturesCurrent, Answered
<1> QED
  BY <1>1, Invariance, PTL

(***************************************************************************)
(* A zone that was signed once always has the apex that build demands: the *)
(* API's guard keeps the last SOA and NS there from every job.             *)
(***************************************************************************)
THEOREM ApexStays == Spec => []ApexKept
<1>1. Inv => ApexKept
  BY DEF Inv
<1> QED
  BY <1>1, Invariance, PTL
=============================================================================
