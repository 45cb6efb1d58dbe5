----------------------------- MODULE StateProofs -----------------------------
(***************************************************************************)
(* What the proofs about the readers of the store rest on: what a whole job*)
(* does to the committed content, and what the chain of names is that a    *)
(* question is passed along in one content, for any names, types and jobs. *)
(***************************************************************************)
EXTENDS StoreState, Resolution, RecordsProofs, WellFoundedInduction

LEMMA StateInitType == StateInit => StateTypeOK
<1> SUFFICES ASSUME StateInit PROVE StateTypeOK
  OBVIOUS
<1>1. \A v \in Legacy : Decode(v) \subseteq Stored
  BY LegacyAssumption, DecodeType DEF Value
<1>2. records \in [Keys -> SUBSET Stored]
  BY <1>1 DEF StateInit
<1> QED
  BY <1>2, JobsAssumption DEF StateInit, StateTypeOK

\* A job that is accepted writes records that can be stored.
LEMMA AcceptedWrite ==
  ASSUME NEW j \in Jobs, j.op = "write", Accepts(j)
  PROVE  /\ j.batch \in Seq(Inputs) /\ IsDecodable(j.batch)
         /\ j.mode \in Modes \cup {NoMode} /\ j.replace \in BOOLEAN
         /\ \A k : Incoming(j.batch, k) \subseteq Stored
<1>1. j \in WriteJob
  BY JobsAssumption DEF DeleteJob
<1>2. j.batch \in Seq(Inputs) /\ IsDecodable(j.batch)
  BY <1>1 DEF WriteJob, Accepts, IsWellFormed
<1> QED
  BY <1>1, <1>2, IncomingType DEF WriteJob

\* No template is stored under an ordinary name.
LEMMA WriteKeepsStatic ==
  ASSUME NEW j \in Jobs, Accepts(j), \A k \in Owners : records[k] \subseteq Static
  PROVE  \A k \in Owners : RecordsAfter(j)[k] \subseteq Static
<1> SUFFICES ASSUME NEW k \in Owners PROVE RecordsAfter(j)[k] \subseteq Static
  OBVIOUS
<1>0. k \in Keys /\ k \notin Patterns
  BY NamesAssumption DEF Keys
<1>1. CASE k \notin KeysOf(j)
  BY <1>0, <1>1 DEF RecordsAfter
<1>2. CASE k \in KeysOf(j) /\ j.op # "write"
  BY <1>0, <1>2 DEF RecordsAfter
<1>3. CASE k \in KeysOf(j) /\ j.op = "write"
  <2>1. Incoming(j.batch, k) \subseteq Static
    <3> SUFFICES ASSUME NEW i \in DOMAIN j.batch, Canonical[j.batch[i].name] = k
                 PROVE  IntoRecord(j.batch[i]) \in Static
      BY DEF Incoming
    <3> DEFINE input == j.batch[i]
    <3>1. input \in Inputs /\ IsAccepted(input)
      BY <1>3, AcceptedWrite DEF IsDecodable
    <3>2. ~IsTemplate(input)
      BY <1>0 DEF IsTemplate
    <3> HIDE DEF input
    <3>3. /\ input.kind \in Kinds /\ input.ttl \in TTLs /\ input.text \in Texts
          /\ Parse[<<input.kind, input.text>>] # Invalid
      BY <3>1, <3>2 DEF IsAccepted, Inputs
    <3>4. Parse[<<input.kind, input.text>>] \in RData
      BY <3>3, DataAssumption
    <3> QED
      BY <3>2, <3>3, <3>4 DEF IntoRecord, Static, input
  <2> QED
    BY <1>0, <1>3, <2>1 DEF RecordsAfter, Merge, Retained
<1> QED
  BY <1>1, <1>2, <1>3

LEMMA RecordsAfterType ==
  ASSUME StateTypeOK, NEW j \in Jobs, Accepts(j)
  PROVE  RecordsAfter(j) \in [Keys -> SUBSET Stored]
<1> SUFFICES ASSUME NEW k \in Keys, k \in KeysOf(j) PROVE RecordsAfter(j)[k] \subseteq Stored
  BY DEF RecordsAfter, StateTypeOK
<1>1. CASE j.op = "write"
  BY <1>1, AcceptedWrite DEF RecordsAfter, StateTypeOK, Merge, Retained
<1>2. CASE j.op # "write"
  BY <1>2 DEF RecordsAfter, StateTypeOK
<1> QED
  BY <1>1, <1>2

LEMMA ModesAfterType ==
  ASSUME StateTypeOK, NEW j \in Jobs, Accepts(j)
  PROVE  ModesAfter(j) \in [RRsets -> Modes \cup {NoMode}]
<1> SUFFICES ASSUME NEW rrset \in RRsets PROVE ModesAfter(j)[rrset] \in Modes \cup {NoMode}
  BY DEF ModesAfter
<1>1. CASE j.op = "write"
  BY <1>1, AcceptedWrite DEF ModesAfter, StateTypeOK
<1>2. CASE j.op # "write"
  BY <1>2 DEF ModesAfter, StateTypeOK
<1> QED
  BY <1>1, <1>2

LEMMA TakeType ==
  ASSUME StateTypeOK, NEW j \in Jobs, Take(j)
  PROVE  StateTypeOK'
BY RecordsAfterType, ModesAfterType, JobsAssumption DEF StateTypeOK, Take
-----------------------------------------------------------------------------
(***************************************************************************)
(* Least elements, and finite sets in order.                               *)
(***************************************************************************)
LEMMA LeastExists ==
  ASSUME NEW T \in SUBSET Nat, T # {}
  PROVE  \E x \in T : \A y \in T : x <= y
<1>1. PICK x \in T : \A y \in T : ~(<<y, x>> \in OpToRel(<, Nat))
  BY WFMin, NatLessThanWellFounded
<1>2. \A y \in T : ~(y < x)
  BY <1>1 DEF OpToRel
<1> QED
  BY <1>2

\* What has no first counterexample holds of every number: induction, in a form
\* without a predicate as its parameter.
LEMMA NoFirstFailure ==
  ASSUME NEW Holds \in SUBSET Nat, NEW n \in Nat,
         \A m \in 1..n : (m = 1 \/ m - 1 \in Holds) => m \in Holds
  PROVE  1..n \subseteq Holds
<1> DEFINE Fails == (1..n) \ Holds
<1> SUFFICES ASSUME Fails # {} PROVE FALSE
  OBVIOUS
<1>1. PICK m \in Fails : \A l \in Fails : m <= l
  <2>1. Fails \in SUBSET Nat
    OBVIOUS
  <2> HIDE DEF Fails
  <2> QED
    BY <2>1, LeastExists
<1>2. m = 1 \/ (m - 1 \in 1..n /\ ~(m <= m - 1))
  OBVIOUS
<1> QED
  BY <1>1, <1>2

IsStrictOrder(Less, S) ==
  /\ \A x \in S : <<x, x>> \notin Less
  /\ \A x, y, z \in S : <<x, y>> \in Less /\ <<y, z>> \in Less => <<x, z>> \in Less
  /\ \A x, y \in S : x # y => <<x, y>> \in Less \/ <<y, x>> \in Less

\* A strict total order sorts a finite set. An element comes after as many others as
\* are less.
LEMMA SortedExists ==
  ASSUME NEW S, IsFiniteSet(S), NEW Less, IsStrictOrder(Less, S)
  PROVE  \E seq \in [1..Cardinality(S) -> S] :
           \A i, j \in DOMAIN seq : i < j => <<seq[i], seq[j]>> \in Less
<1> DEFINE Below(x) == {y \in S : <<y, x>> \in Less}
           n == Cardinality(S)
           rank == [x \in S |-> Cardinality(Below(x)) + 1]
           seq == [i \in 1..n |-> CHOOSE x \in S : rank[x] = i]
<1>0. /\ \A x \in S : <<x, x>> \notin Less
      /\ \A x, y, z \in S : <<x, y>> \in Less /\ <<y, z>> \in Less => <<x, z>> \in Less
      /\ \A x, y \in S : x # y => <<x, y>> \in Less \/ <<y, x>> \in Less
  BY DEF IsStrictOrder
<1>1. n \in Nat /\ IsFiniteSet(1..n) /\ Cardinality(1..n) = n
  <2>1. n \in Nat
    BY FS_CardinalityType
  <2> HIDE DEF n
  <2> QED
    BY <2>1, FS_Interval
<1>2. ASSUME NEW x \in S PROVE Cardinality(Below(x)) \in Nat /\ Cardinality(Below(x)) < n
  <2>1. Below(x) \in SUBSET S /\ x \notin Below(x)
    BY <1>0
  <2> HIDE DEF Below
  <2>2. IsFiniteSet(Below(x)) /\ Cardinality(Below(x)) <= n /\ Cardinality(Below(x)) # n
    BY <2>1, FS_Subset
  <2> QED
    BY <1>1, <2>2, FS_CardinalityType
<1>3. ASSUME NEW x \in S, NEW y \in S, <<x, y>> \in Less PROVE rank[x] < rank[y]
  <2>1. Below(x) \in SUBSET Below(y) /\ x \in Below(y) /\ x \notin Below(x)
    BY <1>0, <1>3
  <2>2. Below(y) \in SUBSET S
    OBVIOUS
  <2> HIDE DEF Below
  <2>3. IsFiniteSet(Below(y))
    BY <2>2, FS_Subset
  <2>4. Cardinality(Below(x)) <= Cardinality(Below(y))
        /\ Cardinality(Below(x)) # Cardinality(Below(y))
    BY <2>1, <2>3, FS_Subset
  <2> QED
    BY <1>2, <2>4
<1>4. rank \in Injection(S, 1..n)
  <2> HIDE DEF Below, n
  <2>1. rank \in [S -> 1..n]
    BY <1>1, <1>2
  <2>2. \A x, y \in S : rank[x] = rank[y] => x = y
    <3> HIDE DEF rank
    <3>1. \A x \in S : rank[x] \in 1..n
      BY <2>1
    <3> SUFFICES ASSUME NEW x \in S, NEW y \in S, x # y PROVE rank[x] # rank[y]
      OBVIOUS
    <3>2. rank[x] \in Nat /\ rank[y] \in Nat
      BY <1>1, <3>1
    <3>3. rank[x] < rank[y] \/ rank[y] < rank[x]
      BY <1>0, <1>3
    <3> QED
      BY <3>2, <3>3
  <2> HIDE DEF rank
  <2> QED
    BY <2>1, <2>2 DEF Injection, IsInjective
<1>5. rank \in Surjection(S, 1..n)
  <2> HIDE DEF rank
  <2> QED
    BY <1>1, <1>4, FS_Injection DEF n
<1>6. \A i \in 1..n : seq[i] \in S /\ rank[seq[i]] = i
  <2> HIDE DEF rank, n
  <2>1. \A i \in 1..n : \E x \in S : rank[x] = i
    BY <1>5 DEF Surjection
  <2> QED
    BY <2>1
<1>7. ASSUME NEW i \in 1..n, NEW j \in 1..n, i < j PROVE <<seq[i], seq[j]>> \in Less
  <2> HIDE DEF rank, seq
  <2>1. seq[i] # seq[j] /\ ~(rank[seq[j]] < rank[seq[i]])
    BY <1>1, <1>6, <1>7
  <2> QED
    BY <1>0, <1>3, <1>6, <2>1
<1>8. seq \in [1..n -> S] /\ DOMAIN seq = 1..n
  <2> HIDE DEF rank
  <2> QED
    BY <1>6
<1> HIDE DEF seq, n
<1> QED
  BY <1>7, <1>8 DEF n

\* Whatever is sorted by a strict order has every element once.
LEMMA SortedOnto ==
  ASSUME NEW S, IsFiniteSet(S), NEW seq \in [1..Cardinality(S) -> S],
         \A i, j \in DOMAIN seq : i < j => seq[i] # seq[j]
  PROVE  /\ seq \in Seq(S) /\ Len(seq) = Cardinality(S)
         /\ \A x \in S : \E i \in DOMAIN seq : seq[i] = x
         /\ \A i, j \in DOMAIN seq : seq[i] = seq[j] => i = j
<1> DEFINE n == Cardinality(S)
<1>1. n \in Nat /\ IsFiniteSet(1..n) /\ Cardinality(1..n) = n
  <2>1. n \in Nat
    BY FS_CardinalityType
  <2> HIDE DEF n
  <2> QED
    BY <2>1, FS_Interval
<1>2. \A i, j \in 1..n : seq[i] = seq[j] => i = j
  BY <1>1
<1>3. seq \in Injection(1..n, S)
  BY <1>2 DEF Injection, IsInjective
<1>4. seq \in Surjection(1..n, S)
  BY <1>1, <1>3, FS_Injection
<1> QED
  BY <1>1, <1>2, <1>4 DEF Surjection

-----------------------------------------------------------------------------
(***************************************************************************)
(* The names a question visits.                                            *)
(***************************************************************************)
\* What follows a name on the way of a question.
After(recs, name, kind) ==
  IF name \in {NoName, Invalid} THEN NoName ELSE Onward(recs, name, kind)

\* A walk of the first n names of a question.
IsWalk(walk, n, recs, name, kind) ==
  walk = [i \in 1..n |-> IF i = 1 THEN name ELSE After(recs, walk[i - 1], kind)]

\* The recursive definition of the names a question visits defines them: there are
\* walks of every length, since each is one step longer than another.
LEMMA WalksExist ==
  ASSUME NEW recs, NEW name, NEW kind, NEW n \in Nat \ {0}
  PROVE  \E walk : IsWalk(walk, n, recs, name, kind)
<1> DEFINE Lengths == {m \in Nat : \E walk : IsWalk(walk, m, recs, name, kind)}
<1>1. ASSUME NEW m \in 1..n, m = 1 \/ m - 1 \in Lengths PROVE m \in Lengths
  <2>1. CASE m = 1
    <3> DEFINE walk == [i \in 1..1 |-> name]
    <3>1. IsWalk(walk, 1, recs, name, kind)
      BY DEF IsWalk
    <3> QED
      BY <2>1, <3>1
  <2>2. CASE m # 1 /\ m - 1 \in Lengths
    <3>1. PICK walk : IsWalk(walk, m - 1, recs, name, kind)
      BY <2>2
    <3> DEFINE longer == [i \in 1..m |->
                 IF i = m THEN After(recs, walk[m - 1], kind) ELSE walk[i]]
    <3>2. \A i \in 1..m : i # 1 => longer[i - 1] = walk[i - 1]
      BY <2>2
    <3>3. \A i \in 1..m : i # m => i \in 1..m - 1
      OBVIOUS
    <3>4. \A i \in 1..m :
            longer[i] = IF i = 1 THEN name ELSE After(recs, longer[i - 1], kind)
      BY <2>2, <3>1, <3>2, <3>3 DEF IsWalk
    <3>5. IsWalk(longer, m, recs, name, kind)
      BY <3>4 DEF IsWalk
    <3> QED
      BY <3>5
  <2> QED
    BY <1>1, <2>1, <2>2
<1>2. 1..n \subseteq Lengths
  <2> HIDE DEF Lengths
  <2>1. Lengths \in SUBSET Nat
    BY DEF Lengths
  <2> QED
    BY <1>1, <2>1, NoFirstFailure
<1> QED
  BY <1>2

LEMMA VisitsWalk ==
  ASSUME NEW recs, NEW name, NEW kind
  PROVE  IsWalk(Visits(recs, name, kind), MaxHops + 1, recs, name, kind)
<1>1. PICK walk : IsWalk(walk, MaxHops + 1, recs, name, kind)
  <2>1. MaxHops + 1 \in Nat \ {0}
    BY ResolutionAssumption
  <2> QED
    BY <2>1, WalksExist
<1>2. Visits(recs, name, kind) = CHOOSE w : IsWalk(w, MaxHops + 1, recs, name, kind)
  BY DEF Visits, IsWalk, After
<1> QED
  BY <1>1, <1>2

LEMMA VisitsStep ==
  ASSUME NEW recs, NEW name, NEW kind
  PROVE  LET visit == Visits(recs, name, kind) IN
         /\ DOMAIN visit = 1..MaxHops + 1
         /\ visit[1] = name
         /\ \A n \in 1..MaxHops : visit[n + 1] = After(recs, visit[n], kind)
<1> DEFINE visit == Visits(recs, name, kind)
<1>1. visit = [i \in 1..MaxHops + 1 |->
                 IF i = 1 THEN name ELSE After(recs, visit[i - 1], kind)]
  BY VisitsWalk DEF IsWalk
<1>2. MaxHops \in Nat
  BY ResolutionAssumption
<1> HIDE DEF visit
<1>3. \A n \in 1..MaxHops : n + 1 \in 1..MaxHops + 1 /\ n + 1 # 1 /\ (n + 1) - 1 = n
  BY <1>2
<1>4. 1 \in 1..MaxHops + 1
  BY <1>2
<1>5. DOMAIN visit = 1..MaxHops + 1 /\ visit[1] = name
  BY <1>1, <1>4
<1>6. \A n \in 1..MaxHops : visit[n + 1] = After(recs, visit[n], kind)
  BY <1>1, <1>3
<1> QED
  BY <1>5, <1>6 DEF visit

\* After the last name there is none: a question that has visited n names, and goes
\* on to none, has a chain of those.
LEMMA ChainEnds ==
  ASSUME NEW recs, NEW name, NEW kind, NEW n \in 1..MaxHops + 1,
         \A i \in 1..n : Visits(recs, name, kind)[i] # NoName,
         n <= MaxHops => Visits(recs, name, kind)[n + 1] = NoName
  PROVE  /\ Chain(recs, name, kind) = [i \in 1..n |-> Visits(recs, name, kind)[i]]
         /\ Len(Chain(recs, name, kind)) = n
<1> DEFINE visit == Visits(recs, name, kind)
           Ended == {m \in Nat : n + m <= MaxHops + 1 => visit[n + m] = NoName}
<1>0. MaxHops \in Nat /\ n \in Nat
  BY ResolutionAssumption
<1>1. 1..MaxHops \subseteq Ended
  <2>1. ASSUME NEW m \in 1..MaxHops, m = 1 \/ m - 1 \in Ended PROVE m \in Ended
    <3> SUFFICES ASSUME n + m <= MaxHops + 1 PROVE visit[n + m] = NoName
      OBVIOUS
    <3>1. CASE m = 1
      BY <1>0, <3>1
    <3>2. CASE m # 1
      <4>1. n + (m - 1) \in 1..MaxHops /\ (n + (m - 1)) + 1 = n + m
        BY <1>0, <3>2
      <4>2. visit[n + (m - 1)] = NoName
        BY <1>0, <2>1, <3>2
      <4>3. visit[(n + (m - 1)) + 1] = After(recs, NoName, kind)
        <5> HIDE DEF Ended
        <5> QED
          BY <4>1, <4>2, VisitsStep
      <4> QED
        BY <4>1, <4>3 DEF After
    <3> QED
      BY <3>1, <3>2
  <2> HIDE DEF Ended
  <2>2. Ended \in SUBSET Nat
    BY DEF Ended
  <2> QED
    BY <1>0, <2>1, <2>2, NoFirstFailure
<1>2. ASSUME NEW i \in 1..MaxHops + 1 PROVE visit[i] # NoName <=> i \in 1..n
  <2>1. CASE i <= n
    BY <1>0, <2>1
  <2>2. CASE i > n
    <3>1. i - n \in 1..MaxHops /\ n + (i - n) = i
      BY <1>0, <2>2
    <3>2. i - n \in Ended
      <4> HIDE DEF Ended
      <4> QED
        BY <1>1, <3>1
    <3>3. visit[n + (i - n)] = NoName
      BY <1>0, <3>1, <3>2
    <3> QED
      BY <1>0, <2>2, <3>1, <3>3
  <2> QED
    BY <1>0, <2>1, <2>2
<1>3. {m \in DOMAIN visit : visit[m] # NoName} = 1..n
  <2>1. DOMAIN visit = 1..MaxHops + 1
    BY VisitsStep
  <2>2. 1..n \subseteq 1..MaxHops + 1
    BY <1>0
  <2> HIDE DEF visit
  <2> QED
    BY <1>2, <2>1, <2>2
<1> HIDE DEF visit
<1>4. Chain(recs, name, kind) = [i \in 1..n |-> visit[i]]
  BY <1>3 DEF Chain, visit
<1> QED
  BY <1>0, <1>4 DEF visit

-----------------------------------------------------------------------------
(***************************************************************************)
(* Types of what is found on the way.                                      *)
(***************************************************************************)
LEMMA TargetType ==
  ASSUME NEW values, Aliases(values) # {}
  PROVE  TargetOf(values) \in Keys \cup {Invalid}
<1> DEFINE alias == CHOOSE v \in Aliases(values) : TRUE
<1>1. alias \in Aliases(values)
  OBVIOUS
<1> HIDE DEF alias
<1>2. alias.data \in RData
  BY <1>1 DEF Aliases
<1>3. Target[alias.data] \in Spellings
  BY <1>2, ResolutionAssumption
<1>4. Canonical[Target[alias.data]] \in Keys \cup {Invalid}
  BY <1>3, NamesAssumption
<1> QED
  BY <1>4 DEF TargetOf, alias

LEMMA VisitsType ==
  ASSUME NEW recs, NEW name \in Keys \cup {Invalid}, NEW kind, NEW n \in 1..MaxHops + 1
  PROVE  Visits(recs, name, kind)[n] \in Keys \cup {NoName, Invalid}
<1>0. MaxHops \in Nat
  BY ResolutionAssumption
<1>1. CASE n = 1
  BY <1>1, VisitsStep
<1>2. CASE n # 1
  <2>1. n - 1 \in 1..MaxHops /\ (n - 1) + 1 = n
    BY <1>0, <1>2
  <2>2. Visits(recs, name, kind)[n] = After(recs, Visits(recs, name, kind)[n - 1], kind)
    BY <2>1, VisitsStep
  <2> QED
    BY <2>2, TargetType DEF After, Onward
<1> QED
  BY <1>1, <1>2

IsChain(recs, chain) ==
  /\ Len(chain) \in 1..MaxHops + 1 /\ DOMAIN chain = 1..Len(chain)
  /\ \A i \in 1..Len(chain) - 1 : chain[i] \in Keys /\ ~Spoilt(recs, chain[i])
  /\ chain[Len(chain)] \in Keys \cup {Invalid}

\* A question for a name that the store could hold has a chain: such names, none of
\* them spoilt, but for the last one, which may be spoilt, or none.
LEMMA ChainShape ==
  ASSUME NEW recs, NEW name \in Keys, NEW kind
  PROVE  IsChain(recs, Chain(recs, name, kind))
<1> DEFINE visit == Visits(recs, name, kind)
           Ends == {m \in 1..MaxHops + 1 : m = MaxHops + 1 \/ visit[m + 1] = NoName}
<1>1. MaxHops \in Nat /\ NoName \notin Keys \cup {Invalid}
  BY ResolutionAssumption
<1>2. PICK n \in Ends : \A m \in Ends : n <= m
  <2>1. Ends \in SUBSET Nat /\ MaxHops + 1 \in Ends
    BY <1>1
  <2> HIDE DEF Ends
  <2> QED
    BY <2>1, LeastExists
<1>3. \A i \in 1..MaxHops + 1 : visit[i] \in Keys \cup {NoName, Invalid}
  BY VisitsType
<1>4. visit[1] = name /\ \A m \in 1..MaxHops : visit[m + 1] = After(recs, visit[m], kind)
  BY VisitsStep
<1> HIDE DEF visit
<1>5. n \in 1..MaxHops + 1 /\ (n <= MaxHops => visit[n + 1] = NoName)
  BY <1>1, <1>2
<1>6. ASSUME NEW i \in 1..n PROVE visit[i] # NoName
  <2>1. CASE i = 1
    BY <1>1, <1>4, <2>1
  <2>2. CASE i # 1
    <3>1. i - 1 \in 1..MaxHops + 1 /\ i - 1 # MaxHops + 1 /\ (i - 1) + 1 = i /\ ~(n <= i - 1)
      BY <1>1, <1>5, <2>2
    <3>2. i - 1 \notin Ends
      BY <1>2, <3>1
    <3> QED
      BY <3>1, <3>2
  <2> QED
    BY <2>1, <2>2
<1>7. ASSUME NEW i \in 1..n - 1 PROVE visit[i] \in Keys /\ ~Spoilt(recs, visit[i])
  <2>1. i \in 1..MaxHops /\ i \in 1..MaxHops + 1 /\ i + 1 \in 1..n /\ i \in 1..n
    BY <1>1, <1>5
  <2>2. visit[i + 1] # NoName /\ visit[i] # NoName
    BY <1>6, <2>1
  <2>3. visit[i] # Invalid /\ visit[i + 1] = Onward(recs, visit[i], kind)
    BY <1>4, <2>1, <2>2 DEF After
  <2>4. ~Spoilt(recs, visit[i])
    BY <2>2, <2>3 DEF Onward
  <2> QED
    BY <1>3, <2>1, <2>2, <2>3, <2>4
<1>8. visit[n] \in Keys \cup {Invalid}
  BY <1>3, <1>5, <1>6
<1>9. /\ Chain(recs, name, kind) = [i \in 1..n |-> visit[i]]
      /\ Len(Chain(recs, name, kind)) = n
  BY <1>5, <1>6, ChainEnds DEF visit
<1>10. /\ \A i \in 1..n - 1 : i \in 1..n
       /\ n \in 1..n
  BY <1>5
<1> QED
  BY <1>5, <1>7, <1>8, <1>9, <1>10 DEF IsChain

-----------------------------------------------------------------------------
(***************************************************************************)
(* Patterns in the order in which they apply.                              *)
(***************************************************************************)
LEMMA InOrderSorts ==
  ASSUME NEW seen \in SUBSET Patterns, IsFiniteSet(seen)
  PROVE  /\ InOrder(seen) \in Seq(seen)
         /\ \A i, j \in DOMAIN InOrder(seen) :
              i < j => Precedes(InOrder(seen)[i], InOrder(seen)[j])
         /\ \A p \in seen : \E i \in DOMAIN InOrder(seen) : InOrder(seen)[i] = p
<1> DEFINE Less == {pair \in seen \X seen : Precedes(pair[1], pair[2])}
           list == InOrder(seen)
<1>1. \A p, q \in seen : <<p, q>> \in Less <=> Precedes(p, q)
  OBVIOUS
<1>2. \A p \in seen : Fixed[p] \in Nat /\ Alphabetic[p] \in Nat
  BY ResolutionAssumption
<1>3. \A p \in seen : ~Precedes(p, p)
  BY <1>2 DEF Precedes
<1>4. \A p, q, r \in seen : Precedes(p, q) /\ Precedes(q, r) => Precedes(p, r)
  BY <1>2 DEF Precedes
<1>5. \A p, q \in seen : p # q => Precedes(p, q) \/ Precedes(q, p)
  <2> SUFFICES ASSUME NEW p \in seen, NEW q \in seen, p # q
               PROVE  Precedes(p, q) \/ Precedes(q, p)
    OBVIOUS
  <2>1. Alphabetic[p] # Alphabetic[q]
    BY ResolutionAssumption
  <2> QED
    BY <1>2, <2>1 DEF Precedes
<1>6. \E seq \in [1..Cardinality(seen) -> seen] :
        \A i, j \in DOMAIN seq : i < j => <<seq[i], seq[j]>> \in Less
  <2>1. IsStrictOrder(Less, seen)
    BY <1>1, <1>3, <1>4, <1>5 DEF IsStrictOrder
  <2> HIDE DEF Less
  <2> QED
    BY <2>1, SortedExists
<1>7. \E seq \in [1..Cardinality(seen) -> seen] :
        \A i, j \in DOMAIN seq : i < j => Precedes(seq[i], seq[j])
  BY <1>6
<1>8. /\ list \in [1..Cardinality(seen) -> seen]
      /\ \A i, j \in DOMAIN list : i < j => Precedes(list[i], list[j])
  BY <1>7 DEF InOrder, Sorted
<1> HIDE DEF list
<1>9. \A i, j \in DOMAIN list : i < j => list[i] # list[j]
  BY <1>3, <1>8
<1>10. list \in Seq(seen) /\ \A p \in seen : \E i \in DOMAIN list : list[i] = p
  BY <1>8, <1>9, SortedOnto
<1> QED
  BY <1>8, <1>10 DEF list

\* What answers for a name is the name itself, or a pattern if it has no records.
LEMMA SourceType ==
  ASSUME NEW recs, IsFiniteSet(StoredPatterns(recs)), NEW name \in Keys
  PROVE  /\ Source(recs, name) \in Keys \cup {NoName}
         /\ recs[name] # {} => Source(recs, name) = name
         /\ recs[name] = {} => Source(recs, name) \in Patterns \cup {NoName}
<1> DEFINE matching == {p \in StoredPatterns(recs) : name \in Matches[p]}
           list == InOrder(matching)
           IsFirst(p) == \A q \in matching \ {p} : Precedes(p, q)
<1>1. CASE recs[name] # {}
  BY <1>1 DEF Source
<1>2. CASE recs[name] = {} /\ matching = {}
  BY <1>2 DEF Source
<1>3. CASE recs[name] = {} /\ matching # {}
  <2>1. matching \in SUBSET Patterns /\ matching \in SUBSET StoredPatterns(recs)
    BY DEF StoredPatterns
  <2>2. Source(recs, name) = CHOOSE p \in matching : IsFirst(p)
    BY <1>3 DEF Source
  <2> HIDE DEF matching
  <2>3. IsFiniteSet(matching)
    BY <2>1, FS_Subset
  <2>4. /\ list \in Seq(matching)
        /\ \A i, j \in DOMAIN list : i < j => Precedes(list[i], list[j])
        /\ \A p \in matching : \E i \in DOMAIN list : list[i] = p
    BY <2>1, <2>3, InOrderSorts
  <2> HIDE DEF list
  <2>5. list[1] \in matching /\ IsFirst(list[1])
    <3>1. DOMAIN list = 1..Len(list) /\ Len(list) \in Nat /\ \A i \in DOMAIN list : list[i] \in matching
      BY <2>4
    <3>2. \E i \in DOMAIN list : TRUE
      BY <1>3, <2>4
    <3>3. 1 \in DOMAIN list /\ \A i \in DOMAIN list : i # 1 => 1 < i
      BY <3>1, <3>2
    <3> QED
      BY <2>4, <3>1, <3>3
  <2> HIDE DEF IsFirst
  <2>6. (CHOOSE p \in matching : IsFirst(p)) \in matching
    BY <2>5
  <2> QED
    BY <1>3, <2>1, <2>2, <2>6 DEF Keys
<1> QED
  BY <1>1, <1>2, <1>3

-----------------------------------------------------------------------------
(***************************************************************************)
(* However many jobs were done, the store holds finitely many records at a *)
(* name, and finitely many patterns.                                       *)
(***************************************************************************)
IsFinite(recs) ==
  /\ \A k \in Keys : IsFiniteSet(recs[k])
  /\ IsFiniteSet(StoredPatterns(recs))

LEMMA StateInitFinite == StateInit => IsFinite(records)
<1> SUFFICES ASSUME StateInit PROVE IsFinite(records)
  OBVIOUS
<1>1. \A k \in Keys : IsFiniteSet(records[k])
  BY LegacyAssumption, FS_EmptySet DEF StateInit
<1>2. StoredPatterns(records) = {}
  BY DEF StateInit, StoredPatterns
<1> QED
  BY <1>1, <1>2, FS_EmptySet DEF IsFinite

LEMMA BatchKeysFinite ==
  ASSUME NEW batch \in Seq(Inputs)
  PROVE  IsFiniteSet(BatchKeys(batch))
<1>1. IsFiniteSet(DOMAIN batch)
  <2>1. DOMAIN batch = 1..Len(batch) /\ Len(batch) \in Nat
    OBVIOUS
  <2> QED
    BY <2>1, FS_Interval
<1>2. [i \in DOMAIN batch |-> Canonical[batch[i].name]]
        \in Surjection(DOMAIN batch, BatchKeys(batch))
  BY DEF Surjection, BatchKeys
<1> QED
  BY <1>1, <1>2, FS_Surjection

LEMMA TakeFinite ==
  ASSUME IsFinite(records), NEW j \in Jobs, Accepts(j)
  PROVE  IsFinite(RecordsAfter(j))
<1>1. ASSUME NEW k \in Keys PROVE IsFiniteSet(RecordsAfter(j)[k])
  <2>1. CASE j.op = "write" /\ k \in KeysOf(j)
    <3>1. IsFiniteSet(Incoming(j.batch, k))
      BY <2>1, AcceptedWrite, IncomingType
    <3>2. IsFiniteSet(records[k]) /\ IsFiniteSet(Retained(records[k], Incoming(j.batch, k)))
      BY FS_Subset DEF IsFinite, Retained
    <3>3. IsFiniteSet(Merge(records[k], Incoming(j.batch, k), j.replace))
      BY <3>1, <3>2, FS_Union DEF Merge
    <3> QED
      BY <2>1, <3>3 DEF RecordsAfter
  <2>2. CASE j.op # "write" \/ k \notin KeysOf(j)
    <3>1. RecordsAfter(j)[k] \in SUBSET records[k]
      BY <2>2 DEF RecordsAfter
    <3> QED
      BY <3>1, FS_Subset DEF IsFinite
  <2> QED
    BY <2>1, <2>2
<1>2. IsFiniteSet(KeysOf(j))
  BY AcceptedWrite, BatchKeysFinite, FS_Singleton DEF KeysOf
<1>3. StoredPatterns(RecordsAfter(j)) \in SUBSET (StoredPatterns(records) \cup KeysOf(j))
  BY DEF StoredPatterns, RecordsAfter, Keys
<1>4. IsFiniteSet(StoredPatterns(records) \cup KeysOf(j))
  BY <1>2, FS_Union DEF IsFinite
<1> QED
  BY <1>1, <1>3, <1>4, FS_Subset DEF IsFinite

LEMMA ValuesFinite ==
  ASSUME NEW recs, IsFinite(recs), NEW name \in Keys
  PROVE  IsFiniteSet(Values(recs, name))
<1> DEFINE key == Source(recs, name)
<1>1. CASE key = NoName
  BY <1>1, FS_EmptySet DEF Values
<1>2. CASE key # NoName
  <2>1. IsFiniteSet(recs[key])
    BY <1>2, SourceType DEF IsFinite
  <2> DEFINE value == [r \in recs[key] |->
               IF key = name THEN Owned(r, StoredOwner(key), r.data)
               ELSE Owned(r, name, Expansion(key, r, name))]
  <2>2. Values(recs, name) = {value[r] : r \in recs[key]}
    <3>1. CASE key = name
      BY <1>2, <3>1 DEF Values, Verbatim
    <3>2. CASE key # name
      BY <1>2, <3>2 DEF Values, Materialized
    <3> QED
      BY <3>1, <3>2
  <2>3. value \in Surjection(recs[key], Values(recs, name))
    <3>1. DOMAIN value = recs[key] /\ value = [r \in recs[key] |-> value[r]]
      OBVIOUS
    <3> HIDE DEF value
    <3> QED
      BY <2>2, <3>1 DEF Surjection
  <2> HIDE DEF value, key
  <2> QED
    BY <2>1, <2>3, FS_Surjection
<1> QED
  BY <1>1, <1>2
-----------------------------------------------------------------------------
(***************************************************************************)
(* Types of the records in an answer.                                      *)
(***************************************************************************)
Answers == [owner : Keys, kind : Kinds, ttl : TTLs, data : RData]

\* A name that is not spoilt has RDATA, whichever pattern makes its records.
LEMMA MaterializedType ==
  ASSUME NEW recs \in [Keys -> SUBSET Stored], NEW p \in Patterns, NEW name \in Keys,
         NEW v \in Materialized(recs, p, name), v.data # Invalid
  PROVE  v \in Answers /\ v.owner = name
<1>1. PICK r \in recs[p] : v = Owned(r, name, Expansion(p, r, name))
  BY DEF Materialized
<1>2. r \in Stored
  BY DEF Keys
<1>3. r.kind \in Kinds /\ r.ttl \in TTLs
  BY <1>2 DEF Stored, Static, Template
<1>4. Expansion(p, r, name) \in RData \cup {Invalid}
  <2>1. CASE r \in Static
    BY <2>1 DEF Static, Expansion
  <2>2. CASE r \in Template
    <3>1. r.template \in Texts /\ r.template # NoTemplate
      BY <2>2, DataAssumption DEF Template
    <3>2. Expand[<<p, r.kind, r.template, name>>] \in RData \cup {Invalid}
      BY <1>3, <3>1, ResolutionAssumption
    <3> QED
      BY <3>1, <3>2 DEF Expansion
  <2> QED
    BY <1>2, <2>1, <2>2 DEF Stored
<1> QED
  BY <1>1, <1>3, <1>4 DEF Owned, Answers

\* A lookup that succeeds synthesizes such records, and only for names without any of
\* their own.
LEMMA SynthesizedType ==
  ASSUME NEW recs \in [Keys -> SUBSET Stored], IsFiniteSet(StoredPatterns(recs)),
         NEW question \in Questions, Resolve(recs, question).status # "error"
  PROVE  \A v \in Resolve(recs, question).synthesized : v \in Answers /\ recs[v.owner] = {}
<1> DEFINE name  == Canonical[question.name]
           chain == Chain(recs, name, question.kind)
           names == {chain[i] : i \in DOMAIN chain}
           last  == chain[Len(chain)]
<1>1. /\ name # Invalid /\ last # Invalid /\ ~Spoilt(recs, last)
      /\ Resolve(recs, question).synthesized = Synthesized(recs, names)
  BY DEF Resolve, Failure, Outcome
<1>2. name \in Keys
  BY <1>1, NamesAssumption DEF Questions
<1>3. /\ Len(chain) \in 1..MaxHops + 1 /\ DOMAIN chain = 1..Len(chain)
      /\ \A i \in 1..Len(chain) - 1 : chain[i] \in Keys /\ ~Spoilt(recs, chain[i])
      /\ chain[Len(chain)] \in Keys \cup {Invalid}
  <2>1. IsChain(recs, chain)
    BY <1>2, ChainShape
  <2> HIDE DEF chain
  <2> QED
    BY <2>1 DEF IsChain
<1> HIDE DEF chain
<1>4. \A n \in names : n \in Keys /\ ~Spoilt(recs, n)
  <2> SUFFICES ASSUME NEW i \in DOMAIN chain PROVE chain[i] \in Keys /\ ~Spoilt(recs, chain[i])
    OBVIOUS
  <2>1. CASE i = Len(chain)
    BY <1>1, <1>3, <2>1
  <2>2. CASE i # Len(chain)
    <3>1. i \in 1..Len(chain) - 1
      BY <1>3, <2>2, ResolutionAssumption
    <3> QED
      BY <1>3, <3>1
  <2> QED
    BY <2>1, <2>2
<1> HIDE DEF names, last, name
<1>5. ASSUME NEW n \in names, Source(recs, n) \notin {n, NoName}, NEW v \in Values(recs, n)
      PROVE  v \in Answers /\ recs[v.owner] = {}
  <2>1. n \in Keys /\ recs[n] = {} /\ Source(recs, n) \in Patterns
    BY <1>4, <1>5, SourceType
  <2>2. v \in Materialized(recs, Source(recs, n), n)
    BY <1>5 DEF Values
  <2>3. v.data # Invalid
    BY <1>4, <1>5 DEF Spoilt
  <2> QED
    BY <2>1, <2>2, <2>3, MaterializedType
<1> QED
  BY <1>1, <1>5 DEF Synthesized
=============================================================================
