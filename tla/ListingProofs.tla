---------------------------- MODULE ListingProofs ----------------------------
(***************************************************************************)
(* Proofs about Listing, for any names in any order, any writers' jobs and *)
(* any number of clients: pages neither repeat nor skip a name, and a      *)
(* record is shown with a policy at least as recent as itself.             *)
(***************************************************************************)
EXTENDS Listing, StateProofs

-----------------------------------------------------------------------------
(***************************************************************************)
(* Sets of naturals.                                                       *)
(***************************************************************************)
\* The element with the fewest above it.
LEMMA GreatestExists ==
  ASSUME NEW T \in SUBSET Nat, T # {}, IsFiniteSet(T)
  PROVE  \E x \in T : \A y \in T : y <= x
<1> DEFINE Above(x) == {y \in T : x < y}
           Counts == {Cardinality(Above(x)) : x \in T}
<1>1. \A x \in T : IsFiniteSet(Above(x)) /\ Cardinality(Above(x)) \in Nat
  BY FS_Subset, FS_CardinalityType
<1>2. Counts \in SUBSET Nat /\ Counts # {}
  BY <1>1
<1>3. PICK n \in Counts : \A m \in Counts : n <= m
  BY <1>2, LeastExists
<1>4. PICK x \in T : n = Cardinality(Above(x))
  BY <1>3
<1>5. ASSUME NEW y \in T, x < y PROVE FALSE
  <2>1. x \in Nat /\ y \in Nat /\ \A z \in T : z \in Nat
    OBVIOUS
  <2>2. \A z \in Above(y) : z \in Above(x)
    BY <1>5, <2>1
  <2>3. y \in Above(x) /\ y \notin Above(y)
    BY <1>5, <2>1
  <2> HIDE DEF Above
  <2>4. Above(y) \in SUBSET Above(x) /\ Above(y) # Above(x)
    BY <2>2, <2>3
  <2>5. IsFiniteSet(Above(x)) /\ Cardinality(Above(x)) \in Nat
        /\ Cardinality(Above(y)) \in Nat
    BY <1>1
  <2>6. Cardinality(Above(y)) < Cardinality(Above(x))
    BY <2>4, <2>5, FS_Subset
  <2>7. n <= Cardinality(Above(y))
    BY <1>3
  <2> QED
    BY <1>4, <2>5, <2>6, <2>7
<1> QED
  BY <1>5

\* Max is the greatest element where there is one.
LEMMA MaxIsGreatest ==
  ASSUME NEW T \in SUBSET Nat, T # {}, IsFiniteSet(T)
  PROVE  Max(T) \in T /\ \A y \in T : y <= Max(T)
<1>1. \E x \in T : \A y \in T : x >= y
  BY GreatestExists
<1> QED
  BY <1>1 DEF Max

-----------------------------------------------------------------------------
(***************************************************************************)
(* One page: the first of the keys that are left, in the order of their    *)
(* ranks.                                                                  *)
(***************************************************************************)
LEMMA KeysFinite ==
  ASSUME NEW keys \in SUBSET Keys
  PROVE  /\ IsFiniteSet(keys) /\ Cardinality(keys) \in Nat
         /\ {Rank[k] : k \in keys} \in SUBSET Nat
         /\ IsFiniteSet({Rank[k] : k \in keys})
<1>1. IsFiniteSet(keys) /\ Cardinality(keys) \in Nat
  BY ListingAssumption, FS_Subset, FS_CardinalityType
<1>2. {Rank[k] : k \in keys} \in SUBSET Nat
  BY ListingAssumption
<1>3. [k \in keys |-> Rank[k]] \in Surjection(keys, {Rank[k] : k \in keys})
  BY DEF Surjection
<1> QED
  BY <1>1, <1>2, <1>3, FS_Surjection

\* Whoever comes before a key of the page is on the page.
LEMMA PageIsPrefix ==
  ASSUME NEW keys \in SUBSET Keys, NEW limit \in Nat,
         NEW l \in FirstOf(keys, limit), NEW k \in keys, Rank[k] <= Rank[l]
  PROVE  k \in FirstOf(keys, limit)
<1> DEFINE Before(m) == {n \in keys : Rank[n] < Rank[m]}
<1>1. Before(k) \in SUBSET Before(l)
  BY ListingAssumption DEF FirstOf
<1>2. /\ IsFiniteSet(Before(l)) /\ Cardinality(Before(l)) \in Nat
      /\ IsFiniteSet(Before(k)) /\ Cardinality(Before(k)) \in Nat
  BY KeysFinite
<1>3. Cardinality(Before(k)) <= Cardinality(Before(l))
  <2> HIDE DEF Before
  <2> QED
    BY <1>1, <1>2, FS_Subset
<1> QED
  BY <1>2, <1>3 DEF FirstOf

\* A page that is not full has all the keys.
LEMMA ShortPageIsLast ==
  ASSUME NEW keys \in SUBSET Keys, NEW limit \in Nat,
         Cardinality(FirstOf(keys, limit)) < limit
  PROVE  FirstOf(keys, limit) = keys
<1> DEFINE page == FirstOf(keys, limit)
           left == keys \ page
           Before(m) == {n \in keys : Rank[n] < Rank[m]}
<1>1. page \in SUBSET keys
  BY DEF FirstOf
<1> SUFFICES ASSUME left # {} PROVE FALSE
  BY <1>1
<1>2. {Rank[k] : k \in left} \in SUBSET Nat /\ {Rank[k] : k \in left} # {}
  BY KeysFinite
<1>3. PICK k \in left : \A l \in left : Rank[k] <= Rank[l]
  <2>1. PICK r \in {Rank[k] : k \in left} : \A q \in {Rank[k] : k \in left} : r <= q
    <3> HIDE DEF left
    <3> QED
      BY <1>2, LeastExists
  <2> QED
    BY <2>1
<1>4. Before(k) \in SUBSET page
  BY <1>3, ListingAssumption
<1>5. Cardinality(Before(k)) <= Cardinality(page) /\ Cardinality(Before(k)) \in Nat
      /\ Cardinality(page) \in Nat
  <2>1. IsFiniteSet(page) /\ Cardinality(page) \in Nat /\ Cardinality(Before(k)) \in Nat
    BY <1>1, KeysFinite
  <2> HIDE DEF Before, page
  <2> QED
    BY <1>4, <2>1, FS_Subset
<1>6. Cardinality(Before(k)) < limit
  BY <1>5
<1> QED
  BY <1>3, <1>6 DEF FirstOf

\* No page has more keys than were asked for.
LEMMA PageFits ==
  ASSUME NEW keys \in SUBSET Keys, NEW limit \in Nat \ {0}
  PROVE  /\ IsFiniteSet(FirstOf(keys, limit))
         /\ Cardinality(FirstOf(keys, limit)) \in 0..limit
<1> DEFINE page == FirstOf(keys, limit)
           Before(m) == {n \in keys : Rank[n] < Rank[m]}
<1>1. page \in SUBSET keys
  BY DEF FirstOf
<1>2. IsFiniteSet(page) /\ Cardinality(page) \in Nat
  BY <1>1, KeysFinite
<1>3. CASE page = {}
  BY <1>2, <1>3, FS_EmptySet
<1>4. CASE page # {}
  <2>1. {Rank[k] : k \in page} \in SUBSET Nat /\ {Rank[k] : k \in page} # {}
        /\ IsFiniteSet({Rank[k] : k \in page})
    BY <1>1, <1>4, KeysFinite
  <2>2. PICK k \in page : \A l \in page : Rank[l] <= Rank[k]
    BY <2>1, GreatestExists
  <2>3. page \ {k} \in SUBSET Before(k)
    BY <1>1, <2>2, ListingAssumption
  <2>4. Cardinality(Before(k)) < limit /\ IsFiniteSet(Before(k))
        /\ Cardinality(Before(k)) \in Nat
    BY <2>2, KeysFinite DEF FirstOf
  <2>5. Cardinality(page \ {k}) <= Cardinality(Before(k))
    <3> HIDE DEF Before, page
    <3> QED
      BY <2>3, <2>4, FS_Subset
  <2>6. Cardinality(page \ {k}) = Cardinality(page) - 1
    BY <1>2, <2>2, FS_RemoveElement
  <2> QED
    BY <1>2, <2>4, <2>5, <2>6
<1> QED
  BY <1>2, <1>3, <1>4

-----------------------------------------------------------------------------
(***************************************************************************)
(* The inductive invariant. Of a client that has more pages to ask for, it *)
(* says that nothing was skipped up to the last name it was given; of one  *)
(* that has read the records and not yet the policies, which revision the  *)
(* records are of.                                                         *)
(***************************************************************************)
Shape ==
  /\ phase = [c \in Clients |-> phase[c]]
  /\ request = [c \in Clients |-> request[c]]
  /\ since = [c \in Clients |-> since[c]]
  /\ seen = [c \in Clients |-> seen[c]]
  /\ after = [c \in Clients |-> after[c]]
  /\ pages = [c \in Clients |-> pages[c]]
  /\ names = [c \in Clients |-> names[c]]
  /\ found = [c \in Clients |-> found[c]]
  /\ shown = [c \in Clients |-> shown[c]]

StoreInv ==
  /\ StateTypeOK
  /\ DOMAIN versions = 0..revision /\ versions[revision] = Content

HasRequest(c) ==
  /\ phase[c] \in {"paging", "paged"} =>
       request[c] \in [prefix : Prefixes, limit : 1..MaxLimit]
  /\ phase[c] \in {"asking", "reading", "listed"} => request[c].name \in Spellings
  /\ phase[c] \in {"reading", "listed"} => Canonical[request[c].name] \in Keys

NoneSkipped(c) ==
  phase[c] = "paging" =>
    \A k \in HasPrefix[request[c].prefix] :
      Rank[k] <= after[c] /\ (\A n \in since[c]..seen[c] : StoredAt(n, k)) => k \in Given(c)

HasRead(c) ==
  phase[c] = "reading" => found[c] = versions[seen[c]].records[Canonical[request[c].name]]

ClientInv(c) ==
  /\ ClientTypeOK(c) /\ IsOrdered(c) /\ IsComplete(c) /\ IsFresh(c)
  /\ HasRequest(c) /\ NoneSkipped(c) /\ HasRead(c)

IInv == Shape /\ StoreInv /\ \A c \in Clients : ClientInv(c)

LEMMA InitOK == Init => IInv
<1> SUFFICES ASSUME Init PROVE IInv
  OBVIOUS
<1>1. StoreInv
  BY StateInitType DEF Init, StoreInv, StateInit
<1>2. Shape
  BY DEF Init, Shape
<1>3. ASSUME NEW c \in Clients PROVE ClientInv(c)
  <2>1. phase[c] = "idle" /\ since[c] = 0 /\ seen[c] = 0 /\ after[c] = 0 /\ pages[c] = 0
        /\ names[c] = {} /\ found[c] = {} /\ shown[c] = {} /\ revision = 0
    BY DEF Init, StateInit
  <2> QED
    BY <2>1 DEF ClientInv, ClientTypeOK, Phases, IsOrdered, IsComplete, IsFresh, HasRequest,
                NoneSkipped, HasRead, Given
<1> QED
  BY <1>1, <1>2, <1>3 DEF IInv

-----------------------------------------------------------------------------
\* A commit adds a version, and what a client has been given is as right as before.
LEMMA WriteKeepsVersions ==
  ASSUME StoreInv, NEW j \in Jobs, Write(j)
  PROVE  /\ StoreInv'
         /\ revision \in Nat /\ revision' = revision + 1
         /\ \A n \in 0..revision : versions'[n] = versions[n]
<1>1. StateTypeOK'
  BY TakeType DEF StoreInv, Write
<1>2. revision \in Nat /\ revision' = revision + 1
  BY JobsAssumption DEF StoreInv, StateTypeOK, Write, Take
<1>3. versions' = [n \in 0..revision' |-> IF n = revision' THEN Content' ELSE versions[n]]
  BY DEF Write
<1> HIDE DEF Content
<1> QED
  BY <1>1, <1>2, <1>3 DEF StoreInv

LEMMA WriteOK == ASSUME IInv, NEW j \in Jobs, Write(j) PROVE IInv'
<1>1. StoreInv' /\ revision \in Nat /\ revision' = revision + 1
      /\ \A n \in 0..revision : versions'[n] = versions[n]
  BY WriteKeepsVersions DEF IInv
<1>2. UNCHANGED client
  BY DEF Write
<1>3. ASSUME NEW c \in Clients PROVE ClientInv(c)'
  <2>1. ClientInv(c) /\ ClientTypeOK(c)
    BY DEF IInv, ClientInv
  <2>2. since[c] \in 0..revision /\ seen[c] \in since[c]..revision
    BY <2>1 DEF ClientTypeOK
  <2>3. ClientTypeOK(c)' /\ IsOrdered(c)' /\ HasRequest(c)'
    BY <1>1, <1>2, <2>1 DEF ClientInv, ClientTypeOK, IsOrdered, HasRequest, Given, client
  <2>4. \A n \in since[c]..seen[c], k \in Keys : StoredAt(n, k)' <=> StoredAt(n, k)
    BY <1>1, <2>2 DEF StoredAt
  <2>5. Given(c)' = Given(c) /\ Given(c) \subseteq Keys
    BY <1>2, <2>1 DEF Given, client, ClientTypeOK
  <2>6. HasRequest(c)
    BY <2>1 DEF ClientInv
  <2>7. phase[c] \in {"paging", "paged"} => HasPrefix[request[c].prefix] \subseteq Keys
    BY <2>6, ListingAssumption DEF HasRequest
  <2>8. IsComplete(c)'
    BY <1>2, <2>1, <2>4, <2>5, <2>7 DEF ClientInv, IsComplete, client
  <2>9. NoneSkipped(c)'
    BY <1>2, <2>1, <2>4, <2>5, <2>7 DEF ClientInv, NoneSkipped, client
  <2>10. versions'[seen[c]] = versions[seen[c]]
    BY <1>1, <2>2
  <2>11. HasRead(c)'
    BY <1>2, <2>1, <2>10 DEF ClientInv, HasRead, client
  <2>12. IsFresh(c)'
    <3>1. \A n \in seen[c]..revision :
            n \in seen[c]..revision' /\ versions'[n] = versions[n]
      BY <1>1, <2>2
    <3> QED
      BY <1>2, <2>1, <2>10, <3>1 DEF ClientInv, IsFresh, client
  <2> QED
    BY <2>3, <2>8, <2>9, <2>11, <2>12 DEF ClientInv
<1> QED
  BY <1>1, <1>2, <1>3 DEF IInv, Shape, client

-----------------------------------------------------------------------------
(***************************************************************************)
(* A client's step changes nothing but what that client has.               *)
(***************************************************************************)
Step(c) ==
  \/ \E prefix \in Prefixes, limit \in Limits : Page(c, prefix, limit)
  \/ GetPage(c)
  \/ \E name \in Spellings, kind \in ListedKinds : List(c, name, kind)
  \/ ReadRecords(c)
  \/ Show(c)

LEMMA StepIsLocal ==
  ASSUME IInv, NEW c \in Clients, Step(c)
  PROVE  /\ UNCHANGED <<state, versions>>
         /\ Shape'
         /\ \A d \in Clients \ {c} :
              /\ phase'[d] = phase[d] /\ request'[d] = request[d]
              /\ since'[d] = since[d] /\ seen'[d] = seen[d]
              /\ after'[d] = after[d] /\ pages'[d] = pages[d]
              /\ names'[d] = names[d] /\ found'[d] = found[d] /\ shown'[d] = shown[d]
<1> USE DEF IInv, Shape, Become, state
<1>1. CASE \E prefix \in Prefixes, limit \in Limits : Page(c, prefix, limit)
  BY <1>1 DEF Page, Begin
<1>2. CASE GetPage(c)
  BY <1>2 DEF GetPage
<1>3. CASE \E name \in Spellings, kind \in ListedKinds : List(c, name, kind)
  BY <1>3 DEF List, Begin
<1>4. CASE ReadRecords(c)
  BY <1>4 DEF ReadRecords
<1>5. CASE Show(c)
  BY <1>5 DEF Show
<1> QED
  BY <1>1, <1>2, <1>3, <1>4, <1>5 DEF Step

\* So a step keeps the invariant if it keeps what it says of that client.
LEMMA StepOK ==
  ASSUME IInv, NEW c \in Clients, Step(c), ClientInv(c)'
  PROVE  IInv'
<1>1. UNCHANGED <<state, versions>> /\ Shape'
  BY StepIsLocal
<1>2. StoreInv'
  BY <1>1 DEF IInv, StoreInv, StateTypeOK, state, Content
<1>3. ASSUME NEW d \in Clients \ {c} PROVE ClientInv(d)'
  <2>1. ClientInv(d)
    BY DEF IInv
  <2>2. /\ revision' = revision /\ versions' = versions
        /\ phase'[d] = phase[d] /\ request'[d] = request[d]
        /\ since'[d] = since[d] /\ seen'[d] = seen[d]
        /\ after'[d] = after[d] /\ pages'[d] = pages[d]
        /\ names'[d] = names[d] /\ found'[d] = found[d] /\ shown'[d] = shown[d]
    BY <1>1, StepIsLocal DEF state
  <2>3. Given(d)' = Given(d)
    BY <2>2 DEF Given
  <2>4. (ClientTypeOK(d) /\ IsOrdered(d) /\ HasRequest(d) /\ HasRead(d))'
    BY <2>1, <2>2, <2>3 DEF ClientInv, ClientTypeOK, IsOrdered, HasRequest, HasRead
  <2>5. IsComplete(d)' /\ NoneSkipped(d)'
    BY <2>1, <2>2, <2>3 DEF ClientInv, IsComplete, NoneSkipped, StoredAt
  <2>6. IsFresh(d)'
    BY <2>1, <2>2 DEF ClientInv, IsFresh
  <2> QED
    BY <2>4, <2>5, <2>6 DEF ClientInv
<1> QED
  BY <1>1, <1>2, <1>3 DEF IInv

-----------------------------------------------------------------------------
\* A client that asks anew has been given nothing.
LEMMA BeginOK ==
  ASSUME IInv, NEW c \in Clients, NEW p \in {"paging", "asking", "refused"}, NEW asked,
         Begin(c, p, asked),
         p = "paging" => asked \in [prefix : Prefixes, limit : 1..MaxLimit],
         p = "asking" => asked.name \in Spellings
  PROVE  ClientInv(c)'
<1>1. /\ phase'[c] = p /\ request'[c] = asked /\ since'[c] = revision /\ seen'[c] = revision
      /\ after'[c] = 0 /\ pages'[c] = 0 /\ names'[c] = {} /\ found'[c] = {}
      /\ shown'[c] = {} /\ revision' = revision
  BY DEF IInv, Shape, Begin, Become, state
<1>2. revision \in Nat
  BY JobsAssumption DEF IInv, StoreInv, StateTypeOK
<1>3. Given(c)' = {}
  BY <1>1 DEF Given
<1>4. ClientTypeOK(c)'
  BY <1>1, <1>2, <1>3, FS_EmptySet, ListingAssumption DEF ClientTypeOK, Phases
<1>5. IsOrdered(c)' /\ IsComplete(c)' /\ IsFresh(c)' /\ HasRead(c)'
  BY <1>1, <1>3 DEF IsOrdered, IsComplete, IsFresh, HasRead
<1>6. HasRequest(c)'
  BY <1>1 DEF HasRequest
<1>7. NoneSkipped(c)'
  BY <1>1, ListingAssumption DEF NoneSkipped
<1> QED
  BY <1>4, <1>5, <1>6, <1>7 DEF ClientInv

LEMMA PageOK ==
  ASSUME IInv, NEW c \in Clients, NEW prefix \in Prefixes, NEW limit \in Limits,
         Page(c, prefix, limit)
  PROVE  ClientInv(c)'
<1>1. IsServed(limit) => [prefix |-> prefix, limit |-> limit] \in
                           [prefix : Prefixes, limit : 1..MaxLimit]
  BY DEF IsServed
<1> QED
  BY <1>1, BeginOK DEF Page

LEMMA ListOK ==
  ASSUME IInv, NEW c \in Clients, NEW name \in Spellings, NEW kind \in ListedKinds,
         List(c, name, kind)
  PROVE  ClientInv(c)'
  BY BeginOK DEF List

-----------------------------------------------------------------------------
\* The records of one name, as they are committed now.
LEMMA ReadRecordsOK ==
  ASSUME IInv, NEW c \in Clients, ReadRecords(c)
  PROVE  ClientInv(c)'
<1> DEFINE k == Canonical[request[c].name]
<1>1. /\ phase[c] = "asking" /\ phase'[c] = IF k = Invalid THEN "refused" ELSE "reading"
      /\ found'[c] = IF k = Invalid THEN {} ELSE records[k]
      /\ seen'[c] = revision
      /\ UNCHANGED <<records, revision, versions, request, since, after, pages, names, shown>>
  BY DEF IInv, Shape, ReadRecords, Become, state
<1>2. ClientInv(c) /\ ClientTypeOK(c) /\ StoreInv /\ revision \in Nat
  BY JobsAssumption DEF IInv, ClientInv, StoreInv, StateTypeOK
<1>3. k \in Keys \cup {Invalid}
  BY <1>1, <1>2, NamesAssumption DEF ClientInv, HasRequest
<1>4. found'[c] \subseteq Stored
  BY <1>1, <1>2, <1>3 DEF StoreInv, StateTypeOK
<1>5. Given(c)' = Given(c)
  BY <1>1 DEF Given
<1>6. ClientTypeOK(c)'
  BY <1>1, <1>2, <1>4, <1>5 DEF ClientTypeOK, Phases
<1>7. IsOrdered(c)' /\ IsFresh(c)' /\ NoneSkipped(c)'
  BY <1>1, <1>2 DEF ClientInv, IsOrdered, IsFresh, NoneSkipped
<1>8. IsComplete(c)'
  <2>1. since[c]..seen[c] \subseteq since[c]..revision
    BY <1>2 DEF ClientTypeOK
  <2> QED
    BY <1>1, <1>2, <1>5, <2>1 DEF ClientInv, IsComplete, StoredAt
<1>9. HasRequest(c)'
  BY <1>1, <1>2, <1>3 DEF ClientInv, HasRequest
<1>10. HasRead(c)'
  BY <1>1, <1>2 DEF HasRead, StoreInv, Content
<1> QED
  BY <1>6, <1>7, <1>8, <1>9, <1>10 DEF ClientInv

\* The policies are those committed now: of the revision of the records, or a later one.
LEMMA ShowOK ==
  ASSUME IInv, NEW c \in Clients, Show(c)
  PROVE  ClientInv(c)'
<1> DEFINE k == Canonical[request[c].name]
           Chosen == {r \in found[c] : Selects(request[c].kind, r)}
<1>1. /\ phase[c] = "reading" /\ phase'[c] = "listed"
      /\ shown'[c] = {<<r, modes[<<k, r.kind>>]>> : r \in Chosen}
      /\ UNCHANGED <<records, modes, revision, versions, request, since, seen, after, pages,
                     names, found>>
  BY DEF IInv, Shape, Show, Become, state, PoliciesRead
<1>2. ClientInv(c) /\ ClientTypeOK(c) /\ StoreInv /\ revision \in Nat
  BY JobsAssumption DEF IInv, ClientInv, StoreInv, StateTypeOK
<1>3. k \in Keys
  BY <1>1, <1>2 DEF ClientInv, HasRequest
<1>4. Chosen \subseteq Stored
  BY <1>2 DEF ClientTypeOK
<1>5. shown'[c] \subseteq Stored \X (Modes \cup {NoMode})
  <2>1. \A r \in Stored : modes[<<k, r.kind>>] \in Modes \cup {NoMode}
    BY <1>2, <1>3 DEF StoreInv, StateTypeOK, Stored, Static, Template, RRsets
  <2>2. ASSUME NEW r \in Chosen
        PROVE  <<r, modes[<<k, r.kind>>]>> \in Stored \X (Modes \cup {NoMode})
    <3> HIDE DEF Chosen, k
    <3> QED
      BY <1>4, <2>1
  <2> QED
    BY <1>1, <2>2
<1>6. Given(c)' = Given(c)
  BY <1>1 DEF Given
<1>7. ClientTypeOK(c)'
  BY <1>1, <1>2, <1>5, <1>6 DEF ClientTypeOK, Phases
<1>8. IsOrdered(c)' /\ HasRead(c)' /\ NoneSkipped(c)'
  BY <1>1, <1>2 DEF ClientInv, IsOrdered, HasRead, NoneSkipped
<1>9. IsComplete(c)'
  BY <1>1, <1>2, <1>6 DEF ClientInv, IsComplete, StoredAt
<1>10. HasRequest(c)'
  BY <1>1, <1>2 DEF ClientInv, HasRequest
<1>11. IsFresh(c)'
  <2>1. found[c] = versions[seen[c]].records[k]
    BY <1>1, <1>2 DEF ClientInv, HasRead
  <2>2. revision \in seen[c]..revision /\ versions[revision].modes = modes
    BY <1>2 DEF ClientTypeOK, StoreInv, Content
  <2>3. ASSUME NEW r \in Chosen
        PROVE  \E x \in shown'[c], n \in seen[c]..revision :
                 x[1] = r /\ x[2] = versions[n].modes[<<k, r.kind>>]
    <3>1. <<r, modes[<<k, r.kind>>]>> \in shown'[c]
      BY <1>1
    <3> HIDE DEF Chosen, k
    <3> QED
      BY <2>2, <3>1
  <2> SUFFICES ASSUME NEW r \in versions'[seen'[c]].records[Canonical[request'[c].name]],
                      Selects(request'[c].kind, r)
               PROVE  \E x \in shown'[c], n \in seen'[c]..revision' :
                        /\ x[1] = r
                        /\ x[2] = versions'[n].modes[<<Canonical[request'[c].name], r.kind>>]
    BY DEF IsFresh, Selects
  <2>4. r \in Chosen
    BY <1>1, <2>1
  <2> QED
    BY <1>1, <2>3, <2>4
<1> QED
  BY <1>7, <1>8, <1>9, <1>10, <1>11 DEF ClientInv

-----------------------------------------------------------------------------
\* What a page is taken from, and where the next one goes on.
LEMMA PageTaken ==
  ASSUME IInv, NEW c \in Clients, GetPage(c), NEW page,
         page = FirstOf(Eligible(c), request[c].limit)
  PROVE  /\ phase[c] = "paging" /\ request[c].limit \in Nat \ {0}
         /\ HasPrefix[request[c].prefix] \subseteq Keys
         /\ Eligible(c) \in SUBSET Keys /\ page \subseteq Eligible(c)
         /\ \A k \in page : records[k] # {} /\ Rank[k] > after[c]
         /\ pages'[c] = pages[c] + 1
         /\ names'[c] = names[c] \cup ({pages[c] + 1} \X page)
         /\ Given(c)' = Given(c) \cup page
         /\ after'[c] \in Nat /\ after'[c] >= after[c]
         /\ \A k \in page : Rank[k] <= after'[c]
         /\ after'[c] = after[c] \/ \E k \in page : after'[c] = Rank[k]
<1>1. phase[c] = "paging" /\ ClientTypeOK(c) /\ HasRequest(c)
  BY DEF IInv, ClientInv, GetPage
<1>2. /\ request[c].limit \in Nat \ {0} /\ HasPrefix[request[c].prefix] \subseteq Keys
      /\ pages[c] \in Nat /\ after[c] \in Nat
  BY <1>1, ListingAssumption DEF HasRequest, ClientTypeOK
<1>3. Eligible(c) \in SUBSET Keys /\ page \subseteq Eligible(c)
  BY <1>2 DEF Eligible, FirstOf
<1>4. \A k \in page : records[k] # {} /\ Rank[k] > after[c]
  BY <1>3 DEF Eligible, IsAfter
<1>5. /\ pages'[c] = pages[c] + 1
      /\ names'[c] = names[c] \cup ({pages[c] + 1} \X page)
      /\ after'[c] = IF page = {} THEN after[c] ELSE Max({Rank[k] : k \in page})
  BY DEF IInv, Shape, GetPage
<1>6. Given(c)' = Given(c) \cup page
  <2>1. \A x \in {pages[c] + 1} \X page : x[2] \in page
    OBVIOUS
  <2>2. \A k \in page : <<pages[c] + 1, k>> \in names'[c] /\ <<pages[c] + 1, k>>[2] = k
    BY <1>5
  <2>3. \A k \in page : k \in Given(c)'
    BY <2>2 DEF Given
  <2>4. \A k \in Given(c)' : k \in Given(c) \cup page
    BY <1>5, <2>1 DEF Given
  <2>5. \A k \in Given(c) : k \in Given(c)'
    BY <1>5 DEF Given
  <2> QED
    BY <2>3, <2>4, <2>5
<1>7. CASE page = {}
  BY <1>1, <1>2, <1>3, <1>4, <1>5, <1>6, <1>7
<1>8. CASE page # {}
  <2> DEFINE ranks == {Rank[k] : k \in page}
  <2>1. ranks \in SUBSET Nat /\ ranks # {} /\ IsFiniteSet(ranks)
    BY <1>3, <1>8, KeysFinite
  <2>2. after'[c] \in ranks /\ \A r \in ranks : r <= after'[c]
    BY <1>5, <1>8, <2>1, MaxIsGreatest
  <2>3. PICK k \in page : after'[c] = Rank[k]
    BY <2>2
  <2>4. after'[c] \in Nat /\ after'[c] >= after[c]
    BY <1>2, <1>4, <2>1, <2>2, <2>3
  <2>5. \A l \in page : Rank[l] <= after'[c]
    BY <2>2
  <2> QED
    BY <1>1, <1>2, <1>3, <1>4, <1>5, <1>6, <2>3, <2>4, <2>5
<1> QED
  BY <1>7, <1>8

LEMMA GetPageOK ==
  ASSUME IInv, NEW c \in Clients, GetPage(c)
  PROVE  ClientInv(c)'
<1> DEFINE limit == request[c].limit
           page == FirstOf(Eligible(c), limit)
<1>1. /\ phase[c] = "paging" /\ limit \in Nat \ {0}
      /\ HasPrefix[request[c].prefix] \subseteq Keys
      /\ Eligible(c) \in SUBSET Keys /\ page \subseteq Eligible(c)
      /\ \A k \in page : records[k] # {} /\ Rank[k] > after[c]
      /\ pages'[c] = pages[c] + 1
      /\ names'[c] = names[c] \cup ({pages[c] + 1} \X page)
      /\ Given(c)' = Given(c) \cup page
      /\ after'[c] \in Nat /\ after'[c] >= after[c]
      /\ \A k \in page : Rank[k] <= after'[c]
      /\ after'[c] = after[c] \/ \E k \in page : after'[c] = Rank[k]
  BY PageTaken
<1>2. /\ ClientInv(c) /\ ClientTypeOK(c) /\ StoreInv /\ revision \in Nat
      /\ pages[c] \in Nat /\ after[c] \in Nat
      /\ since[c] \in 0..revision /\ seen[c] \in since[c]..revision
      /\ names[c] \subseteq (1..pages[c]) \X Keys
  BY JobsAssumption DEF IInv, ClientInv, StoreInv, StateTypeOK, ClientTypeOK
<1>3. /\ phase'[c] = IF Cardinality(page) < limit THEN "paged" ELSE "paging"
      /\ seen'[c] = revision
      /\ UNCHANGED <<records, modes, revision, versions, request, since, found, shown>>
  BY <1>1 DEF IInv, Shape, GetPage, Become, state
<1>4. \A k \in Given(c) : k \in Keys /\ Rank[k] \in Nat /\ Rank[k] <= after[c]
  BY <1>2, ListingAssumption DEF ClientTypeOK, Given
<1>5. \A k \in page : k \in Keys /\ Rank[k] \in Nat
  BY <1>1, ListingAssumption
<1>6. versions[revision].records = records /\ revision \in since[c]..revision
  BY <1>2 DEF StoreInv, Content
<1>7. phase'[c] = "paging" => Cardinality(Given(c)') = pages'[c] * limit
  <2>1. Given(c) \in SUBSET Keys
    BY <1>4
  <2>2. IsFiniteSet(Given(c)) /\ IsFiniteSet(page) /\ Cardinality(page) \in 0..limit
    BY <1>1, <2>1, KeysFinite, PageFits
  <2>3. Given(c) \cap page = {}
    BY <1>1, <1>2, <1>4, <1>5
  <2>4. Cardinality(Given(c)) = pages[c] * limit
    BY <1>1, <1>2 DEF ClientTypeOK
  <2>5. Cardinality(Given(c) \cup page) = Cardinality(Given(c)) + Cardinality(page)
    <3> HIDE DEF page
    <3>1. Cardinality(Given(c)) \in Nat /\ Cardinality(page) \in Nat
      BY <2>2, FS_CardinalityType
    <3>2. Cardinality(Given(c) \cup page)
            = Cardinality(Given(c)) + Cardinality(page) - Cardinality(Given(c) \cap page)
      BY <2>2, FS_Union
    <3>3. Cardinality(Given(c) \cap page) = 0
      BY <2>3, FS_EmptySet
    <3> QED
      BY <3>1, <3>2, <3>3
  <2>6. Cardinality(page) < limit \/ Cardinality(page) = limit
    BY <1>1, <2>2
  <2>7. pages[c] * limit + limit = (pages[c] + 1) * limit
    <3>1. \A m, n \in Nat : m * n + n = (m + 1) * n
      OBVIOUS
    <3> QED
      BY <1>1, <1>2, <3>1
  <2> QED
    BY <1>1, <1>3, <2>4, <2>5, <2>6, <2>7
<1>8. ClientTypeOK(c)'
  <2>1. names'[c] \subseteq (1..pages'[c]) \X Keys
    <3>1. 1..pages[c] \subseteq 1..pages'[c] /\ pages[c] + 1 \in 1..pages'[c]
      BY <1>1, <1>2
    <3> HIDE DEF page
    <3> QED
      BY <1>1, <1>2, <3>1
  <2>2. \A k \in Given(c)' : Rank[k] <= after'[c]
    BY <1>1, <1>2, <1>4, <1>5
  <2>3. (phase[c] \in Phases /\ since[c] \in 0..revision /\ seen[c] \in since[c]..revision
         /\ after[c] \in Nat /\ pages[c] \in Nat)'
    BY <1>1, <1>2, <1>3, <1>6 DEF Phases
  <2>4. (found[c] \subseteq Stored /\ shown[c] \subseteq Stored \X (Modes \cup {NoMode}))'
    BY <1>2, <1>3 DEF ClientTypeOK
  <2> QED
    BY <1>3, <1>7, <2>1, <2>2, <2>3, <2>4 DEF ClientTypeOK
<1>9. IsOrdered(c)'
  <2> SUFFICES ASSUME NEW x \in names'[c], NEW y \in names'[c], x[1] < y[1]
               PROVE  Rank[x[2]] < Rank[y[2]]
    BY DEF IsOrdered
  <2>1. \A z \in names[c] : z[1] \in 1..pages[c] /\ z[2] \in Given(c)
    BY <1>2 DEF Given
  <2>2. \A z \in names'[c] : z \in names[c] \/ (z[1] = pages[c] + 1 /\ z[2] \in page)
    BY <1>1
  <2>3. CASE x \in names[c] /\ y \in names[c]
    BY <1>2, <2>3 DEF ClientInv, IsOrdered
  <2>4. CASE x \in names[c] /\ y[2] \in page
    <3>1. x[2] \in Given(c)
      BY <2>1, <2>4
    <3> HIDE DEF page
    <3> QED
      BY <1>1, <1>2, <1>4, <1>5, <2>4, <3>1
  <2>5. CASE x[1] = pages[c] + 1
    BY <1>2, <2>1, <2>2, <2>5
  <2> QED
    BY <2>2, <2>3, <2>4, <2>5
\* Nothing that was there all the while is skipped up to where the page ends.
<1>10. ASSUME NEW k \in HasPrefix[request[c].prefix],
              \A n \in since[c]..revision : StoredAt(n, k),
              Rank[k] <= after'[c] \/ Cardinality(page) < limit
       PROVE  k \in Given(c)'
  <2>1. k \in Keys /\ Rank[k] \in Nat /\ records[k] # {}
    BY <1>1, <1>6, <1>10, ListingAssumption DEF StoredAt
  <2>2. CASE Rank[k] <= after[c]
    <3>1. \A n \in since[c]..seen[c] : n \in since[c]..revision
      BY <1>2
    <3>2. \A n \in since[c]..seen[c] : StoredAt(n, k)
      BY <1>10, <3>1
    <3> QED
      BY <1>1, <1>2, <2>2, <3>2 DEF ClientInv, NoneSkipped
  <2>3. CASE Rank[k] > after[c]
    <3>1. k \in Eligible(c)
      BY <2>1, <2>3 DEF Eligible, IsAfter
    <3>2. CASE Cardinality(page) < limit
      BY <1>1, <3>1, <3>2, ShortPageIsLast
    <3>3. CASE Rank[k] <= after'[c]
      <4>1. PICK l \in page : after'[c] = Rank[l]
        BY <1>1, <1>2, <2>1, <2>3, <3>3
      <4> QED
        BY <1>1, <3>1, <3>3, <4>1, PageIsPrefix
    <3> QED
      BY <1>10, <3>2, <3>3
  <2> QED
    BY <1>2, <2>1, <2>2, <2>3
<1>11. IsComplete(c)'
  <2>1. \A k \in Given(c)' : \E n \in since[c]..revision : StoredAt(n, k)
    <3>1. \A n \in since[c]..seen[c] : n \in since[c]..revision
      BY <1>2
    <3>2. \A k \in Given(c) : \E n \in since[c]..revision : StoredAt(n, k)
      BY <1>2, <3>1 DEF ClientInv, IsComplete
    <3>3. \A k \in page : StoredAt(revision, k)
      BY <1>1, <1>6 DEF StoredAt
    <3> QED
      BY <1>1, <1>6, <3>2, <3>3
  <2> QED
    BY <1>3, <1>10, <2>1 DEF IsComplete, StoredAt
<1>12. NoneSkipped(c)'
  BY <1>3, <1>10 DEF NoneSkipped, StoredAt
<1>13. IsFresh(c)' /\ HasRead(c)'
  BY <1>3 DEF IsFresh, HasRead
<1>14. HasRequest(c)'
  BY <1>1, <1>2, <1>3 DEF ClientInv, HasRequest
<1> QED
  BY <1>8, <1>9, <1>11, <1>12, <1>13, <1>14 DEF ClientInv

-----------------------------------------------------------------------------
LEMMA NextOK == IInv /\ [Next]_vars => IInv'
<1>1. ASSUME IInv, NEW j \in Jobs, Write(j) PROVE IInv'
  BY <1>1, WriteOK
<1>2. ASSUME IInv, NEW c \in Clients, Step(c) PROVE IInv'
  <2>1. ClientInv(c)'
    BY <1>2, PageOK, GetPageOK, ListOK, ReadRecordsOK, ShowOK DEF Step
  <2> QED
    BY <1>2, <2>1, StepOK
<1>3. ASSUME IInv, UNCHANGED vars PROVE IInv'
  <2>1. ASSUME NEW c \in Clients PROVE ClientInv(c)'
    <3>1. ClientInv(c) /\ Given(c)' = Given(c) /\ UNCHANGED <<revision, versions, client>>
      BY <1>3 DEF IInv, vars, Given, client
    <3>2. (ClientTypeOK(c) /\ IsOrdered(c) /\ HasRequest(c) /\ HasRead(c))'
      BY <3>1 DEF ClientInv, ClientTypeOK, IsOrdered, HasRequest, HasRead, client
    <3>3. IsComplete(c)' /\ NoneSkipped(c)'
      BY <3>1 DEF ClientInv, IsComplete, NoneSkipped, StoredAt, client
    <3>4. IsFresh(c)'
      BY <3>1 DEF ClientInv, IsFresh, client
    <3> QED
      BY <3>2, <3>3, <3>4 DEF ClientInv
  <2> QED
    BY <1>3, <2>1 DEF IInv, vars, client, Shape, StoreInv, StateTypeOK, Content
<1> QED
  BY <1>1, <1>2, <1>3 DEF Next, Step

LEMMA Invariance == Spec => []IInv
  BY InitOK, NextOK, PTL DEF Spec

\* The state has its types, and a client is never at a place before a name it was given.
THEOREM TypeCorrect == Spec => []TypeOK
<1>1. IInv => TypeOK
  BY DEF IInv, StoreInv, ClientInv, TypeOK
<1> QED
  BY <1>1, Invariance, PTL

\* Pages go on in byte order and give no name twice, whatever is written between them.
THEOREM PagesStayOrdered == Spec => []PagesOrdered
<1>1. IInv => PagesOrdered
  BY DEF IInv, ClientInv, PagesOrdered
<1> QED
  BY <1>1, Invariance, PTL

\* A client that has asked for all pages was given every name that was stored throughout,
\* and none that never was.
THEOREM PagesAreComplete == Spec => []PagesComplete
<1>1. IInv => PagesComplete
  BY DEF IInv, ClientInv, PagesComplete
<1> QED
  BY <1>1, Invariance, PTL

\* Records are shown with a policy of their own revision or of a later one.
THEOREM ListingsFresh == Spec => []ListedFresh
<1>1. IInv => ListedFresh
  BY DEF IInv, ClientInv, ListedFresh
<1> QED
  BY <1>1, Invariance, PTL
=============================================================================
