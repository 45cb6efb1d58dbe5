---------------------------- MODULE OrderingProofs ----------------------------
(***************************************************************************)
(* Proofs about Ordering, for any names, policies and jobs and any number  *)
(* of responders: a response keeps its records, each in its RRset, and the *)
(* responses from an lb RRset take every turn once.                        *)
(***************************************************************************)
EXTENDS Ordering, StateProofs

-----------------------------------------------------------------------------
(***************************************************************************)
(* The orders that a group is put into.                                    *)
(***************************************************************************)
\* Numbers in order: a set of positions, each of them once.
LEMMA NumbersSorted ==
  ASSUME NEW S, S \subseteq Nat, IsFiniteSet(S)
  PROVE  LET at == Ascending(S) IN
         /\ at \in Seq(S) /\ DOMAIN at = 1..Len(at) /\ Len(at) = Cardinality(S)
         /\ \A x \in S : \E i \in DOMAIN at : at[i] = x
         /\ \A i, j \in DOMAIN at : at[i] = at[j] => i = j
<1> DEFINE Less == {pair \in S \X S : pair[1] < pair[2]}
<1>2. \A x \in S : x \in Nat
  OBVIOUS
<1>3. IsStrictOrder(Less, S)
  BY <1>2 DEF IsStrictOrder
<1>4. \E seq \in [1..Cardinality(S) -> S] :
        \A i, j \in DOMAIN seq : i < j => <<seq[i], seq[j]>> \in Less
  <2> HIDE DEF Less
  <2> QED
    BY <1>3, SortedExists
<1>5. \E seq \in [1..Cardinality(S) -> S] :
        \A i, j \in DOMAIN seq : i < j => seq[i] < seq[j]
  BY <1>4
<1> DEFINE at == Ascending(S)
<1>6. /\ at \in [1..Cardinality(S) -> S]
      /\ \A i, j \in DOMAIN at : i < j => at[i] < at[j]
  BY <1>5 DEF Ascending, Sorted
<1> HIDE DEF at
<1>7. DOMAIN at = 1..Cardinality(S) /\ \A i \in DOMAIN at : at[i] \in Nat
  BY <1>2, <1>6
<1>8. \A i, j \in DOMAIN at : i < j => at[i] # at[j]
  BY <1>6, <1>7
<1> QED
  BY <1>6, <1>7, <1>8, SortedOnto DEF at

LEMMA RotationIsOrder ==
  ASSUME NEW n \in Nat, NEW turn \in Nat, n # 0
  PROVE  Rotation(n, turn % n) \in Orders(n)
<1> DEFINE by == turn % n
           order == Rotation(n, by)
<1>1. by \in 0..n - 1
  OBVIOUS
<1> HIDE DEF by
<1>2. \A i \in 1..n : order[i] = IF i + by <= n THEN i + by ELSE i + by - n
  BY DEF Rotation
<1>3. \A i \in 1..n : order[i] \in 1..n
  BY <1>1, <1>2
<1>4. \A i, j \in 1..n : order[i] = order[j] => i = j
  BY <1>1, <1>2
<1>5. order = [i \in 1..n |-> order[i]]
  BY DEF Rotation
<1> HIDE DEF order
<1> QED
  BY <1>3, <1>4, <1>5 DEF Orders, IsInjective, order, by

LEMMA LocalFirstIsOrder ==
  ASSUME NEW r, NEW at, NEW n \in Nat, DOMAIN at = 1..n
  PROVE  LocalFirst(r, at) \in Orders(n)
<1> DEFINE IsLocal(i) == Country[answer[r][at[i]].data] = peer[r]
           Comes(i, j) == IF IsLocal(i) = IsLocal(j) THEN i < j ELSE IsLocal(i)
           S == DOMAIN at
           Less == {pair \in S \X S : Comes(pair[1], pair[2])}
           list == Sorted(S, Comes)
<1>1. CASE peer[r] = Unknown
  BY <1>1 DEF LocalFirst, Orders, IsInjective
<1>2. CASE peer[r] # Unknown
  <2>1. IsFiniteSet(S) /\ Cardinality(S) = n /\ \A i \in S : i \in Nat
    BY FS_Interval
  <2>2. /\ \A i \in S : ~Comes(i, i)
        /\ \A i, j, k \in S : Comes(i, j) /\ Comes(j, k) => Comes(i, k)
        /\ \A i, j \in S : i # j => Comes(i, j) \/ Comes(j, i)
    <3>1. \A i \in S : IsLocal(i) \in BOOLEAN
      OBVIOUS
    <3> HIDE DEF IsLocal
    <3>2. \A i \in S : ~Comes(i, i)
      BY <2>1
    <3>3. \A i, j \in S : i # j => Comes(i, j) \/ Comes(j, i)
      BY <2>1, <3>1
    <3>4. \A i, j, k \in S : Comes(i, j) /\ Comes(j, k) => Comes(i, k)
      BY <2>1, <3>1
    <3> QED
      BY <3>2, <3>3, <3>4
  <2>3. \A i, j \in S : <<i, j>> \in Less <=> Comes(i, j)
    OBVIOUS
  <2>4. IsStrictOrder(Less, S)
    <3> HIDE DEF Comes, Less
    <3> QED
      BY <2>2, <2>3 DEF IsStrictOrder
  <2>5. \E seq \in [1..Cardinality(S) -> S] :
          \A i, j \in DOMAIN seq : i < j => Comes(seq[i], seq[j])
    <3> HIDE DEF Comes, Less
    <3>1. \E seq \in [1..Cardinality(S) -> S] :
            \A i, j \in DOMAIN seq : i < j => <<seq[i], seq[j]>> \in Less
      BY <2>1, <2>4, SortedExists
    <3> QED
      BY <2>3, <3>1
  <2>6. /\ list \in [1..n -> 1..n]
        /\ \A i, j \in DOMAIN list : i < j => Comes(list[i], list[j])
    <3> HIDE DEF Comes
    <3> QED
      BY <2>1, <2>5 DEF Sorted
  <2>7. LocalFirst(r, at) = list
    BY <1>2 DEF LocalFirst
  <2> HIDE DEF list
  <2>8. \A i, j \in 1..n : i < j => list[i] # list[j]
    <3> HIDE DEF Comes
    <3> QED
      BY <2>2, <2>6
  <2> QED
    BY <2>6, <2>7, <2>8 DEF Orders, IsInjective
<1> QED
  BY <1>1, <1>2

-----------------------------------------------------------------------------
(***************************************************************************)
(* The records of a group, in an order of their own.                       *)
(***************************************************************************)
LEMMA PositionsAre ==
  ASSUME NEW r, NEW map, NEW g, NEW n \in Nat, DOMAIN answer[r] = 1..n
  PROVE  LET at == Positions(r, map, g)
             S  == Members(r, map, g)
         IN  /\ at \in Seq(S) /\ DOMAIN at = 1..Len(at) /\ Len(at) = Cardinality(S)
             /\ \A x \in S : \E i \in DOMAIN at : at[i] = x
             /\ \A i, j \in DOMAIN at : at[i] = at[j] => i = j
<1> DEFINE S == Members(r, map, g)
<1>1. IsFiniteSet(1..n)
  BY FS_Interval
<1>2. S \subseteq Nat /\ S \in SUBSET (1..n)
  BY DEF Members
<1>3. Positions(r, map, g) = Ascending(S)
  BY DEF Positions
<1> HIDE DEF S
<1>4. IsFiniteSet(S)
  BY <1>1, <1>2, FS_Subset
<1> QED
  BY <1>2, <1>3, <1>4, NumbersSorted DEF S

LEMMA PositionsOfOne ==
  ASSUME NEW r, NEW map, NEW g, NEW n \in Nat, DOMAIN answer[r] = 1..n,
         NEW i \in DOMAIN answer[r],
         GroupOf(map, answer[r][i]) = g, HasPolicy(policies[r], map, answer[r][i])
  PROVE  Len(Positions(r, map, g)) \in Nat \ {0}
<1> DEFINE at == Positions(r, map, g)
           S  == Members(r, map, g)
<1>1. i \in S
  BY DEF Members
<1>2. Len(at) = Cardinality(S)
  BY PositionsAre
<1>3. S \subseteq 1..n
  BY DEF Members
<1> HIDE DEF at, S
<1>4. IsFiniteSet(S) /\ Cardinality(S) \in Nat /\ Cardinality(S) # 0
  <2>1. IsFiniteSet(S)
    <3>1. IsFiniteSet(1..n)
      BY FS_Interval
    <3> QED
      BY <1>3, <3>1, FS_Subset
  <2>2. Cardinality(S) \in Nat
    BY <2>1, FS_CardinalityType
  <2>3. Cardinality(S) # 0
    BY <1>1, <2>1, FS_EmptySet
  <2> QED
    BY <2>1, <2>2, <2>3
<1> QED
  BY <1>2, <1>4 DEF at

-----------------------------------------------------------------------------
(***************************************************************************)
(* The inductive invariant.                                                *)
(***************************************************************************)
ResponderTypes ==
  /\ phase \in [Responders -> {"idle", "answered", "governed", "sorting", "finding"}]
  /\ peer \in [Responders -> Peers \cup {Unknown}]
  /\ DOMAIN answer = Responders /\ DOMAIN message = Responders
  /\ DOMAIN policies = Responders /\ DOMAIN sources = Responders
  /\ DOMAIN groups = Responders /\ DOMAIN working = Responders /\ DOMAIN handle = Responders

\* A message has the records of the answer, each moved within its owner and type.
IsArrangement(place, r) ==
  /\ \A i, j \in DOMAIN answer[r] : place[i] = place[j] => i = j
  /\ \A i \in DOMAIN answer[r] :
       /\ answer[r][place[i]].owner = answer[r][i].owner
       /\ answer[r][place[i]].kind = answer[r][i].kind
       /\ message[r][i] = answer[r][place[i]]

AnswerKept(r) ==
  /\ \E n \in Nat : DOMAIN answer[r] = 1..n
  /\ DOMAIN message[r] = DOMAIN answer[r]
  /\ \E place \in [DOMAIN answer[r] -> DOMAIN answer[r]] : IsArrangement(place, r)

\* A group to be ordered is that of a record with a policy.
GroupsKept(r) ==
  /\ phase[r] \notin {"sorting", "finding"} => groups[r] = {}
  /\ \A g \in groups[r] : \E i \in DOMAIN answer[r] :
       /\ GroupOf(sources[r], answer[r][i]) = g
       /\ HasPolicy(policies[r], sources[r], answer[r][i])

\* A responder that read the map of the cursors got the counter of its RRset, or
\* found none, whatever the others put into the map since.
HandleKept(r) ==
  /\ phase[r] = "finding" =>
       /\ working[r] \in groups[r]
       /\ RRsetOf(r, working[r]) \in RRsets
       /\ handle[r] \in {0, cursors[RRsetOf(r, working[r])]}
  /\ phase[r] # "finding" => working[r] = <<>> /\ handle[r] = 0

RespondersKept == \A r \in Responders : AnswerKept(r) /\ GroupsKept(r) /\ HandleKept(r)

\* No two RRsets share a counter, and a counter counts the turns taken at it.
CursorsKept ==
  /\ counters \in Seq(Nat)
  /\ cursors \in [RRsets -> 0..Len(counters)]
  /\ turns \in [RRsets -> Seq(Nat)]
  /\ \A x, y \in RRsets : cursors[x] = cursors[y] /\ cursors[x] # 0 => x = y
  /\ \A x \in RRsets :
       /\ cursors[x] = 0 => turns[x] = <<>>
       /\ cursors[x] # 0 => counters[cursors[x]] = Len(turns[x])
       /\ \A i \in 1..Len(turns[x]) : turns[x][i] = i - 1

Inv ==
  /\ StateTypeOK /\ IsFinite(records) /\ ResponderTypes /\ RespondersKept /\ CursorsKept

-----------------------------------------------------------------------------
(***************************************************************************)
(* Ordering a group keeps the records of a message where they belong.      *)
(***************************************************************************)
LEMMA InverseOf ==
  ASSUME NEW seq, \A i, j \in DOMAIN seq : seq[i] = seq[j] => i = j
  PROVE  \A x \in ToSet(seq) :
           AntiFunction(seq)[x] \in DOMAIN seq /\ seq[AntiFunction(seq)[x]] = x
<1> SUFFICES ASSUME NEW x \in ToSet(seq)
             PROVE  AntiFunction(seq)[x] \in DOMAIN seq /\ seq[AntiFunction(seq)[x]] = x
  OBVIOUS
<1> DEFINE i == CHOOSE i \in DOMAIN seq : x \in Range(seq) => seq[i] = x
<1>1. x \in Range(seq) /\ \E j \in DOMAIN seq : seq[j] = x
  BY DEF ToSet, Range
<1>2. i \in DOMAIN seq /\ seq[i] = x
  <2> HIDE DEF ToSet
  <2> QED
    BY <1>1
<1>3. AntiFunction(seq)[x] = i
  BY <1>1 DEF AntiFunction, Inverse
<1> QED
  BY <1>2, <1>3

LEMMA RearrangedKeeps ==
  ASSUME NEW r \in Responders, AnswerKept(r), DOMAIN message = Responders, NEW g,
         NEW order \in Orders(Len(Positions(r, sources[r], g))),
         message' = Rearranged(r, Positions(r, sources[r], g), order),
         answer' = answer
  PROVE  AnswerKept(r)'
<1> DEFINE D == DOMAIN answer[r]
           at == Positions(r, sources[r], g)
           S == Members(r, sources[r], g)
           index == AntiFunction(at)
<1>1. PICK n \in Nat : D = 1..n
  BY DEF AnswerKept
<1>2. PICK place \in [D -> D] : IsArrangement(place, r)
  BY DEF AnswerKept
<1>3. /\ at \in Seq(S) /\ DOMAIN at = 1..Len(at)
      /\ \A x \in S : \E i \in DOMAIN at : at[i] = x
      /\ \A i, j \in DOMAIN at : at[i] = at[j] => i = j
  BY <1>1, PositionsAre
<1>4. /\ \A i, j \in D : place[i] = place[j] => i = j
      /\ \A i \in D : /\ place[i] \in D
                      /\ answer[r][place[i]].owner = answer[r][i].owner
                      /\ answer[r][place[i]].kind = answer[r][i].kind
                      /\ message[r][i] = answer[r][place[i]]
  BY <1>2 DEF IsArrangement
<1>5. ASSUME NEW i \in D, NEW j \in D, i \in S,
             answer[r][i].owner = answer[r][j].owner, answer[r][i].kind = answer[r][j].kind
      PROVE  j \in S
  BY <1>5 DEF Members, HasPolicy, GroupOf
<1>6. ASSUME NEW i \in S, NEW j \in S
      PROVE  answer[r][i].owner = answer[r][j].owner /\ answer[r][i].kind = answer[r][j].kind
  BY DEF Members, GroupOf
<1>7. S \subseteq D
  BY DEF Members
<1>8. /\ order \in [DOMAIN at -> DOMAIN at]
      /\ \A i, j \in DOMAIN at : order[i] = order[j] => i = j
  BY <1>3 DEF Orders, IsInjective
<1>9. message' = Rearranged(r, at, order)
  OBVIOUS
<1> HIDE DEF at, S
<1>10. ToSet(at) = S /\ \A i \in DOMAIN at : at[i] \in S
  BY <1>3 DEF ToSet
<1>11. \A i \in S : index[i] \in DOMAIN at /\ at[index[i]] = i
  BY <1>3, <1>10, InverseOf
<1> DEFINE new == [i \in D |-> IF i \in S THEN at[order[index[i]]] ELSE place[i]]
<1>12. message'[r] = [i \in D |-> IF i \in S THEN answer[r][at[order[index[i]]]]
                                  ELSE message[r][i]]
  <2> HIDE DEF index
  <2> QED
    BY <1>9, <1>10 DEF Rearranged, index
<1> HIDE DEF index
<1>13. \A i \in S : new[i] \in S /\ new[i] = at[order[index[i]]]
  BY <1>7, <1>8, <1>10, <1>11
<1>14. \A i \in D : i \notin S => new[i] = place[i] /\ new[i] \in D /\ new[i] \notin S
  BY <1>4, <1>5
<1>15. new \in [D -> D]
  BY <1>7, <1>13, <1>14
<1>16. \A i, j \in D : new[i] = new[j] => i = j
  <2>1. ASSUME NEW i \in S, NEW j \in S, new[i] = new[j] PROVE i = j
    <3>1. order[index[i]] \in DOMAIN at /\ order[index[j]] \in DOMAIN at
      BY <1>8, <1>11
    <3>2. order[index[i]] = order[index[j]]
      BY <1>3, <1>13, <2>1, <3>1
    <3>3. index[i] = index[j]
      BY <1>8, <1>11, <3>2
    <3> QED
      BY <1>11, <3>3
  <2> HIDE DEF new
  <2> QED
    BY <1>4, <1>13, <1>14, <2>1
<1>17. \A i \in D : /\ answer[r][new[i]].owner = answer[r][i].owner
                    /\ answer[r][new[i]].kind = answer[r][i].kind
                    /\ message'[r][i] = answer[r][new[i]]
  <2> SUFFICES ASSUME NEW i \in D
               PROVE  /\ answer[r][new[i]].owner = answer[r][i].owner
                      /\ answer[r][new[i]].kind = answer[r][i].kind
                      /\ message'[r][i] = answer[r][new[i]]
    OBVIOUS
  <2>1. CASE i \in S
    <3>1. message'[r][i] = answer[r][new[i]]
      BY <1>12, <1>13, <2>1
    <3> HIDE DEF new
    <3> QED
      BY <1>6, <1>13, <2>1, <3>1
  <2>2. CASE i \notin S
    <3>1. message'[r][i] = message[r][i]
      BY <1>12, <2>2
    <3> HIDE DEF new
    <3> QED
      BY <1>4, <1>14, <2>2, <3>1
  <2> QED
    BY <2>1, <2>2
<1>18. DOMAIN message'[r] = D
  BY <1>12
<1> HIDE DEF new
<1>19. PICK places : places = new
  OBVIOUS
<1>20. IsArrangement(places, r)'
  BY <1>16, <1>17, <1>19 DEF IsArrangement
<1> QED
  BY <1>1, <1>15, <1>18, <1>19, <1>20 DEF AnswerKept

\* A message that is an arrangement of the answer has the same records as often.
LEMMA ArrangementCounts ==
  ASSUME NEW r \in Responders, AnswerKept(r), NEW a
  PROVE  Cardinality({i \in DOMAIN message[r] : message[r][i] = a})
           = Cardinality({i \in DOMAIN answer[r] : answer[r][i] = a})
<1> DEFINE D == DOMAIN answer[r]
           Sent == {i \in DOMAIN message[r] : message[r][i] = a}
           Found == {i \in D : answer[r][i] = a}
<1>1. PICK n \in Nat : D = 1..n
  BY DEF AnswerKept
<1>2. PICK place \in [D -> D] : IsArrangement(place, r)
  BY DEF AnswerKept
<1>3. /\ \A i, j \in D : place[i] = place[j] => i = j
      /\ \A i \in D : place[i] \in D /\ message[r][i] = answer[r][place[i]]
      /\ DOMAIN message[r] = D
  BY <1>2 DEF IsArrangement, AnswerKept
<1>4. IsFiniteSet(D)
  <2>1. IsFiniteSet(1..n)
    BY FS_Interval
  <2> QED
    BY <1>1, <2>1
<1>5. \A x \in D : \E i \in D : place[i] = x
  <2> HIDE DEF D
  <2>1. place \in Injection(D, D)
    BY <1>2, <1>3 DEF Injection, IsInjective
  <2> QED
    BY <1>4, <2>1, FS_Injection DEF Surjection
<1> DEFINE part == [i \in Sent |-> place[i]]
<1>6. part \in Bijection(Sent, Found)
  <2>1. Sent \subseteq D /\ \A i \in Sent : part[i] \in Found
    BY <1>3
  <2>2. part \in Injection(Sent, Found)
    <3> HIDE DEF Sent, Found
    <3> QED
      BY <1>3, <2>1 DEF Injection, IsInjective
  <2>3. \A x \in Found : \E i \in Sent : part[i] = x
    BY <1>3, <1>5
  <2> HIDE DEF Sent, Found, part
  <2> QED
    BY <2>2, <2>3 DEF Bijection, Surjection, Injection
<1>7. IsFiniteSet(Sent)
  BY <1>3, <1>4, FS_Subset
<1> HIDE DEF Sent, Found, part
<1>8. ExistsBijection(Sent, Found)
  BY <1>6 DEF ExistsBijection
<1> QED
  BY <1>7, <1>8, FS_Bijection DEF Sent, Found

-----------------------------------------------------------------------------
(***************************************************************************)
(* An answer is a list of records, whatever the chain of its question.     *)
(***************************************************************************)
LEMMA SetToSeqIs ==
  ASSUME NEW S, IsFiniteSet(S)
  PROVE  SetToSeq(S) \in Seq(S)
<1>1. Cardinality(S) \in Nat /\ ExistsBijection(1..Cardinality(S), S)
  BY FS_CardinalityType
<1>2. \E f \in [1..Cardinality(S) -> S] : IsInjective(f)
  BY <1>1 DEF ExistsBijection, Bijection, Injection
<1>3. SetToSeq(S) \in [1..Cardinality(S) -> S]
  <2> DEFINE Is(f) == f \in [1..Cardinality(S) -> S] /\ IsInjective(f)
  <2>1. SetToSeq(S) = CHOOSE f \in [1..Cardinality(S) -> S] : IsInjective(f)
    BY DEF SetToSeq
  <2> QED
    BY <1>2, <2>1
<1> QED
  BY <1>1, <1>3

\* The first n of the sequences, joined.
IsJoined(joined, n, seqs) ==
  joined = [i \in 1..n |-> IF i = 1 THEN seqs[i] ELSE joined[i - 1] \o seqs[i]]

LEMMA JoinedExist ==
  ASSUME NEW seqs, NEW n \in Nat \ {0}
  PROVE  \E joined : IsJoined(joined, n, seqs)
<1> DEFINE Lengths == {m \in Nat : \E joined : IsJoined(joined, m, seqs)}
<1>1. ASSUME NEW m \in 1..n, m = 1 \/ m - 1 \in Lengths PROVE m \in Lengths
  <2>1. CASE m = 1
    <3> DEFINE joined == [i \in 1..1 |-> seqs[i]]
    <3>1. IsJoined(joined, 1, seqs)
      BY DEF IsJoined
    <3> QED
      BY <2>1, <3>1
  <2>2. CASE m # 1 /\ m - 1 \in Lengths
    <3>1. PICK joined : IsJoined(joined, m - 1, seqs)
      BY <2>2
    <3> DEFINE longer == [i \in 1..m |->
                 IF i = m THEN joined[m - 1] \o seqs[m] ELSE joined[i]]
    <3>2. \A i \in 1..m : i # 1 => longer[i - 1] = joined[i - 1]
      BY <2>2
    <3>3. \A i \in 1..m : i # m => i \in 1..m - 1
      OBVIOUS
    <3>4. \A i \in 1..m :
            longer[i] = IF i = 1 THEN seqs[i] ELSE longer[i - 1] \o seqs[i]
      BY <2>2, <3>1, <3>2, <3>3 DEF IsJoined
    <3>5. IsJoined(longer, m, seqs)
      BY <3>4 DEF IsJoined
    <3> QED
      BY <3>5
  <2> QED
    BY <1>1, <2>1, <2>2
<1>2. 1..n \subseteq Lengths
  <2> HIDE DEF Lengths
  <2>1. Lengths \in SUBSET Nat
    BY DEF Lengths
  <2> QED
    BY <1>1, <2>1, NoFirstFailure
<1> QED
  BY <1>2

LEMMA FlattenIs ==
  ASSUME NEW T, NEW seqs \in Seq(Seq(T))
  PROVE  FlattenSeq(seqs) \in Seq(T)
<1> DEFINE n == Len(seqs)
           joined == CHOOSE f : IsJoined(f, n, seqs)
           Holds == {m \in Nat : m <= n => joined[m] \in Seq(T)}
<1>1. CASE n = 0
  BY <1>1 DEF FlattenSeq
<1>2. CASE n # 0
  <2>1. n \in Nat \ {0}
    BY <1>2
  <2>2. FlattenSeq(seqs) = joined[n]
    BY <1>2 DEF FlattenSeq, IsJoined
  <2>3. IsJoined(joined, n, seqs)
    BY <2>1, JoinedExist
  <2> HIDE DEF joined
  <2>4. /\ \A i \in 1..n : seqs[i] \in Seq(T)
        /\ \A i \in 1..n :
             joined[i] = IF i = 1 THEN seqs[i] ELSE joined[i - 1] \o seqs[i]
    <3>1. joined = [i \in 1..n |-> IF i = 1 THEN seqs[i] ELSE joined[i - 1] \o seqs[i]]
      BY <2>3 DEF IsJoined
    <3>2. \A i \in 1..n : seqs[i] \in Seq(T)
      OBVIOUS
    <3> HIDE DEF n
    <3> QED
      BY <3>1, <3>2
  <2>5. ASSUME NEW m \in 1..n, m = 1 \/ m - 1 \in Holds PROVE m \in Holds
    <3>1. m \in Nat /\ m <= n
      BY <2>1
    <3>2. CASE m = 1
      BY <2>4, <3>1, <3>2
    <3>3. CASE m # 1
      <4>1. joined[m - 1] \in Seq(T)
        BY <2>1, <2>5, <3>3
      <4>2. joined[m - 1] \o seqs[m] \in Seq(T)
        BY <2>4, <4>1
      <4> QED
        BY <2>4, <3>1, <3>3, <4>2
    <3> QED
      BY <3>2, <3>3
  <2>6. 1..n \subseteq Holds
    <3> HIDE DEF Holds, n
    <3>1. Holds \in SUBSET Nat
      BY DEF Holds
    <3> QED
      BY <2>1, <2>5, <3>1, NoFirstFailure
  <2> QED
    BY <2>1, <2>2, <2>6
<1> QED
  BY <1>1, <1>2

LEMMA InChainOrderIs ==
  ASSUME NEW recs, IsFinite(recs), NEW q \in Questions,
         Resolve(recs, q).status = "answered"
  PROVE  \E n \in Nat : DOMAIN InChainOrder(recs, q) = 1..n
<1> DEFINE name == Canonical[q.name]
           chain == Chain(recs, name, q.kind)
           T == UNION {Values(recs, k) : k \in Keys}
           aliases == [i \in 1..Len(chain) - 1 |-> SetToSeq(Aliases(Values(recs, chain[i])))]
           found == SetToSeq(Matching(Values(recs, chain[Len(chain)]), q.kind))
<1>1. name # Invalid /\ chain[Len(chain)] # Invalid
  BY DEF Resolve, Failure, Outcome
<1>2. name \in Keys
  BY <1>1, NamesAssumption DEF Questions
<1>3. /\ Len(chain) \in Nat \ {0} /\ DOMAIN chain = 1..Len(chain)
      /\ \A i \in 1..Len(chain) - 1 : chain[i] \in Keys
      /\ chain[Len(chain)] \in Keys
  <2>1. MaxHops \in Nat
    BY ResolutionAssumption
  <2> HIDE DEF name
  <2> QED
    BY <1>1, <1>2, <2>1, ChainShape DEF IsChain
<1>4. InChainOrder(recs, q) = FlattenSeq(aliases) \o found
  BY DEF InChainOrder, Last
<1> HIDE DEF chain
<1>5. ASSUME NEW k \in Keys, NEW S, S \subseteq Values(recs, k) PROVE SetToSeq(S) \in Seq(T)
  <2>1. IsFiniteSet(S)
    BY <1>5, ValuesFinite, FS_Subset
  <2>2. SetToSeq(S) \in Seq(S)
    BY <2>1, SetToSeqIs
  <2>3. S \subseteq T
    BY <1>5
  <2> HIDE DEF T
  <2> QED
    BY <2>2, <2>3
<1> HIDE DEF T
<1>6. \A i \in 1..Len(chain) - 1 : aliases[i] \in Seq(T)
  BY <1>3, <1>5 DEF Aliases
<1>7. aliases \in Seq(Seq(T))
  <2> DEFINE n == Len(chain) - 1
  <2>1. n \in Nat /\ aliases = [i \in 1..n |-> aliases[i]]
    BY <1>3
  <2> HIDE DEF aliases, n
  <2> QED
    BY <1>6, <2>1 DEF n
<1>8. found \in Seq(T)
  BY <1>3, <1>5 DEF Matching
<1> HIDE DEF aliases, found
<1>9. InChainOrder(recs, q) \in Seq(T)
  BY <1>4, <1>7, <1>8, FlattenIs
<1> QED
  BY <1>9

-----------------------------------------------------------------------------
(***************************************************************************)
(* The invariant holds at first, and every step keeps it.                  *)
(***************************************************************************)
LEMMA InitInv == Init => Inv
<1> SUFFICES ASSUME Init PROVE Inv
  OBVIOUS
<1>1. StateTypeOK /\ IsFinite(records)
  BY StateInitType, StateInitFinite DEF Init
<1>2. ResponderTypes
  BY DEF Init, ResponderTypes
<1>3. ASSUME NEW r \in Responders PROVE AnswerKept(r) /\ GroupsKept(r) /\ HandleKept(r)
  <2>1. answer[r] = <<>> /\ message[r] = <<>> /\ DOMAIN answer[r] = 1..0 /\ 1..0 = {}
    BY DEF Init
  <2>2. AnswerKept(r)
    <3>1. <<>> \in [{} -> {}]
      OBVIOUS
    <3>2. IsArrangement(<<>>, r)
      BY <2>1 DEF IsArrangement
    <3> QED
      BY <2>1, <3>1, <3>2 DEF AnswerKept
  <2> QED
    BY <2>2 DEF Init, GroupsKept, HandleKept
<1>4. CursorsKept
  BY DEF Init, CursorsKept
<1> QED
  BY <1>1, <1>2, <1>3, <1>4 DEF Inv, RespondersKept

\* What a step leaves as it is for a responder.
Rests(s) ==
  /\ phase'[s] = phase[s] /\ peer'[s] = peer[s]
  /\ answer'[s] = answer[s] /\ message'[s] = message[s]
  /\ policies'[s] = policies[s] /\ sources'[s] = sources[s]
  /\ groups'[s] = groups[s] /\ working'[s] = working[s] /\ handle'[s] = handle[s]

\* A counter stays with its RRset.
Steady == \A x \in RRsets : cursors[x] # 0 => cursors'[x] = cursors[x]

LEMMA AnswerRests ==
  ASSUME NEW s, AnswerKept(s), answer'[s] = answer[s], message'[s] = message[s]
  PROVE  AnswerKept(s)'
<1>1. PICK place \in [DOMAIN answer[s] -> DOMAIN answer[s]] : IsArrangement(place, s)
  BY DEF AnswerKept
<1>2. IsArrangement(place, s)'
  BY <1>1 DEF IsArrangement
<1> QED
  BY <1>1, <1>2 DEF AnswerKept

LEMMA RestingKept ==
  ASSUME Inv, NEW s \in Responders, Rests(s), Steady
  PROVE  AnswerKept(s)' /\ GroupsKept(s)' /\ HandleKept(s)'
<1>1. AnswerKept(s) /\ GroupsKept(s) /\ HandleKept(s)
  BY DEF Inv, RespondersKept
<1>2. AnswerKept(s)'
  BY <1>1, AnswerRests DEF Rests
<1>3. GroupsKept(s)'
  BY <1>1 DEF Rests, GroupsKept, GroupOf, HasPolicy
<1>4. HandleKept(s)'
  BY <1>1 DEF Rests, Steady, HandleKept, RRsetOf
<1> QED
  BY <1>2, <1>3, <1>4

\* A step of one responder.
LEMMA StepKeeps ==
  ASSUME Inv, NEW r \in Responders, UNCHANGED state, ResponderTypes',
         \A s \in Responders : s # r => Rests(s), Steady, CursorsKept',
         AnswerKept(r)', GroupsKept(r)', HandleKept(r)'
  PROVE  Inv'
<1>1. StateTypeOK' /\ IsFinite(records)'
  BY DEF Inv, state, StateTypeOK, IsFinite, StoredPatterns
<1>2. ASSUME NEW s \in Responders PROVE AnswerKept(s)' /\ GroupsKept(s)' /\ HandleKept(s)'
  BY RestingKept
<1> QED
  BY <1>1, <1>2 DEF Inv, RespondersKept

LEMMA SharedRests == ASSUME Inv, UNCHANGED shared PROVE CursorsKept' /\ Steady
BY DEF Inv, CursorsKept, Steady, shared

LEMMA WriteInv ==
  ASSUME Inv, NEW j \in Jobs, Write(j)
  PROVE  Inv'
<1>1. Accepts(j) /\ Take(j) /\ records' = RecordsAfter(j) /\ UNCHANGED <<local, shared>>
  BY DEF Write, Take
<1>2. StateTypeOK' /\ IsFinite(records)'
  BY <1>1, TakeType, TakeFinite DEF Inv
<1>3. CursorsKept' /\ Steady /\ ResponderTypes'
  BY <1>1, SharedRests DEF Inv, ResponderTypes, local
<1>4. \A s \in Responders : Rests(s)
  BY <1>1 DEF Rests, local
<1> QED
  BY <1>2, <1>3, <1>4, RestingKept DEF Inv, RespondersKept

LEMMA RestartInv ==
  ASSUME Inv, Restart
  PROVE  Inv'
<1>1. StateTypeOK' /\ IsFinite(records)' /\ ResponderTypes'
  BY DEF Inv, Restart, state, StateTypeOK, IsFinite, StoredPatterns, ResponderTypes
<1>2. CursorsKept'
  BY DEF Restart, CursorsKept
<1>3. ASSUME NEW r \in Responders PROVE (AnswerKept(r) /\ GroupsKept(r) /\ HandleKept(r))'
  <2>1. answer'[r] = <<>> /\ message'[r] = <<>> /\ DOMAIN <<>> = 1..0 /\ 1..0 = {}
    BY DEF Restart
  <2>2. AnswerKept(r)'
    <3>1. <<>> \in [{} -> {}]
      OBVIOUS
    <3>2. IsArrangement(<<>>, r)'
      BY <2>1 DEF IsArrangement
    <3> QED
      BY <2>1, <3>1, <3>2 DEF AnswerKept
  <2>3. /\ phase'[r] = "idle" /\ phase[r] = "idle" /\ groups'[r] = groups[r]
        /\ working'[r] = working[r] /\ handle'[r] = handle[r]
    BY DEF Restart
  <2>4. groups[r] = {} /\ working[r] = <<>> /\ handle[r] = 0
    BY <2>3 DEF Inv, RespondersKept, GroupsKept, HandleKept
  <2> QED
    BY <2>2, <2>3, <2>4 DEF GroupsKept, HandleKept
<1> QED
  BY <1>1, <1>2, <1>3 DEF Inv, RespondersKept

LEMMA AskInv ==
  ASSUME Inv, NEW r \in Responders, NEW q \in Asked, NEW country \in Peers, Ask(r, q, country)
  PROVE  Inv'
<1> DEFINE list == IF Resolve(records, q).status = "answered"
                   THEN InChainOrder(records, q) ELSE <<>>
<1>1. /\ phase[r] = "idle" /\ phase'[r] = "answered"
      /\ answer'[r] = list /\ message'[r] = list
      /\ groups'[r] = groups[r] /\ working'[r] = working[r] /\ handle'[r] = handle[r]
      /\ UNCHANGED <<state, shared>>
  BY DEF Ask, Inv, ResponderTypes
<1>2. ResponderTypes'
  BY DEF Ask, Inv, ResponderTypes
<1>3. \A s \in Responders : s # r => Rests(s)
  BY DEF Ask, Inv, ResponderTypes, Rests
<1>4. \E n \in Nat : DOMAIN list = 1..n
  <2>1. q \in Questions
    BY OrderingAssumption
  <2>2. DOMAIN <<>> = 1..0
    OBVIOUS
  <2> QED
    BY <2>1, <2>2, InChainOrderIs DEF Inv
<1> HIDE DEF list
<1>5. AnswerKept(r)'
  <2>1. PICK domain : domain = DOMAIN list
    OBVIOUS
  <2> DEFINE place == [i \in domain |-> i]
  <2>2. place \in [domain -> domain]
    OBVIOUS
  <2>3. IsArrangement(place, r)'
    BY <1>1, <2>1 DEF IsArrangement
  <2> HIDE DEF place
  <2> QED
    BY <1>1, <1>4, <2>1, <2>2, <2>3 DEF AnswerKept
<1>6. GroupsKept(r)' /\ HandleKept(r)'
  BY <1>1 DEF Inv, RespondersKept, GroupsKept, HandleKept
<1> QED
  BY <1>1, <1>2, <1>3, <1>5, <1>6, SharedRests, StepKeeps

\* The steps that read the store, and the last one, move no record.
LEMMA ReadModesInv ==
  ASSUME Inv, NEW r \in Responders, ReadModes(r)
  PROVE  Inv'
<1>1. /\ phase[r] = "answered" /\ phase'[r] \in {"idle", "governed"}
      /\ answer'[r] = answer[r] /\ message'[r] = message[r]
      /\ groups'[r] = groups[r] /\ working'[r] = working[r] /\ handle'[r] = handle[r]
      /\ UNCHANGED <<state, shared>>
  BY DEF ReadModes, Inv, ResponderTypes
<1>2. ResponderTypes'
  BY DEF ReadModes, Inv, ResponderTypes
<1>3. \A s \in Responders : s # r => Rests(s)
  BY DEF ReadModes, Inv, ResponderTypes, Rests
<1>4. AnswerKept(r)'
  BY <1>1, AnswerRests DEF Inv, RespondersKept
<1>5. GroupsKept(r)' /\ HandleKept(r)'
  BY <1>1 DEF Inv, RespondersKept, GroupsKept, HandleKept
<1> QED
  BY <1>1, <1>2, <1>3, <1>4, <1>5, SharedRests, StepKeeps

LEMMA IdleInv ==
  ASSUME Inv, NEW r \in Responders, ReadFails(r) \/ Send(r)
  PROVE  Inv'
<1>1. /\ phase[r] \in {"answered", "governed"} \/ (phase[r] = "sorting" /\ groups[r] = {})
      /\ phase'[r] = "idle" /\ answer'[r] = answer[r] /\ message'[r] = message[r]
      /\ groups'[r] = groups[r] /\ working'[r] = working[r] /\ handle'[r] = handle[r]
      /\ UNCHANGED <<state, shared>>
  BY DEF ReadFails, Send, Inv, ResponderTypes
<1>2. ResponderTypes'
  BY DEF ReadFails, Send, Inv, ResponderTypes
<1>3. \A s \in Responders : s # r => Rests(s)
  BY DEF ReadFails, Send, Inv, ResponderTypes, Rests
<1>4. AnswerKept(r)'
  BY <1>1, AnswerRests DEF Inv, RespondersKept
<1>5. GroupsKept(r)' /\ HandleKept(r)'
  BY <1>1 DEF Inv, RespondersKept, GroupsKept, HandleKept
<1> QED
  BY <1>1, <1>2, <1>3, <1>4, <1>5, SharedRests, StepKeeps

LEMMA ReadSourcesInv ==
  ASSUME Inv, NEW r \in Responders, ReadSources(r)
  PROVE  Inv'
<1>1. PICK map : /\ sources' = [sources EXCEPT ![r] = map]
                 /\ groups' = [groups EXCEPT ![r] =
                      {g \in {GroupOf(map, answer[r][i]) : i \in DOMAIN answer[r]} :
                         Len(Positions(r, map, g)) >= 2}]
  BY DEF ReadSources
<1>2. /\ phase[r] = "governed" /\ phase'[r] = "sorting"
      /\ answer'[r] = answer[r] /\ message'[r] = message[r] /\ policies'[r] = policies[r]
      /\ working'[r] = working[r] /\ handle'[r] = handle[r]
      /\ UNCHANGED <<state, shared>>
  BY DEF ReadSources, Inv, ResponderTypes
<1>3. ResponderTypes'
  BY <1>1 DEF ReadSources, Inv, ResponderTypes
<1>4. \A s \in Responders : s # r => Rests(s)
  BY <1>1 DEF ReadSources, Inv, ResponderTypes, Rests
<1>5. AnswerKept(r) /\ AnswerKept(r)'
  BY <1>2, AnswerRests DEF Inv, RespondersKept
<1>6. ASSUME NEW g \in groups'[r]
      PROVE  \E i \in DOMAIN answer[r] :
               GroupOf(map, answer[r][i]) = g /\ HasPolicy(policies[r], map, answer[r][i])
  <2>1. Len(Positions(r, map, g)) >= 2
    BY <1>1 DEF Inv, ResponderTypes
  <2>2. PICK n \in Nat : DOMAIN answer[r] = 1..n
    BY <1>5 DEF AnswerKept
  <2>3. Len(Positions(r, map, g)) = Cardinality(Members(r, map, g))
    BY <2>2, PositionsAre
  <2>4. Members(r, map, g) # {}
    BY <2>1, <2>3, FS_EmptySet
  <2> QED
    BY <2>4 DEF Members
<1>7. sources'[r] = map
  BY <1>1 DEF Inv, ResponderTypes
<1>8. GroupsKept(r)'
  BY <1>2, <1>6, <1>7 DEF GroupsKept
<1>9. HandleKept(r)'
  BY <1>2 DEF Inv, RespondersKept, HandleKept
<1> QED
  BY <1>2, <1>3, <1>4, <1>5, <1>8, <1>9, SharedRests, StepKeeps

\* After a group is finished, the responder has no counter in its hand.
LEMMA FinishedKeeps ==
  ASSUME Inv, NEW r \in Responders, NEW g, Finished(r, g),
         UNCHANGED <<peer, answer, policies, sources>>,
         phase[r] \in {"sorting", "finding"},
         \E at, order : message' = Rearranged(r, at, order)
  PROVE  /\ ResponderTypes' /\ GroupsKept(r)' /\ HandleKept(r)'
         /\ \A s \in Responders : s # r => Rests(s)
<1>1. /\ DOMAIN message' = Responders
      /\ \A s \in Responders : s # r => message'[s] = message[s]
  BY DEF Inv, ResponderTypes, Rearranged
<1>2. ResponderTypes'
  BY <1>1 DEF Inv, ResponderTypes, Finished
<1>3. \A s \in Responders : s # r => Rests(s)
  BY <1>1 DEF Inv, ResponderTypes, Finished, Rests
<1>4. /\ groups'[r] = groups[r] \ {g} /\ working'[r] = <<>> /\ handle'[r] = 0
      /\ phase'[r] = "sorting"
  BY DEF Inv, ResponderTypes, Finished
<1>5. GroupsKept(r)'
  BY <1>4 DEF Inv, RespondersKept, GroupsKept, GroupOf, HasPolicy
<1>6. HandleKept(r)'
  BY <1>4 DEF HandleKept
<1> QED
  BY <1>2, <1>3, <1>5, <1>6

LEMMA SortInv ==
  ASSUME Inv, NEW r \in Responders, NEW g \in groups[r], Sort(r, g)
  PROVE  Inv'
<1> DEFINE at == Positions(r, sources[r], g)
<1>1. /\ phase[r] = "sorting" /\ Finished(r, g)
      /\ UNCHANGED <<state, peer, answer, policies, sources, shared>>
  BY DEF Sort
<1>2. AnswerKept(r) /\ DOMAIN message = Responders
  BY DEF Inv, RespondersKept, ResponderTypes
<1>3. DOMAIN at = 1..Len(at) /\ Len(at) \in Nat
  <2>1. PICK n \in Nat : DOMAIN answer[r] = 1..n
    BY <1>2 DEF AnswerKept
  <2>2. at \in Seq(Members(r, sources[r], g))
    BY <2>1, PositionsAre
  <2> HIDE DEF at
  <2> QED
    BY <2>2
<1>4. \E order \in Orders(Len(at)) : message' = Rearranged(r, at, order)
  <2>1. CASE \E order \in Orders(Len(at)) : message' = Rearranged(r, at, order)
    BY <2>1
  <2>2. CASE message' = Rearranged(r, at, LocalFirst(r, at))
    <3> HIDE DEF at
    <3> QED
      BY <1>3, <2>2, LocalFirstIsOrder
  <2> QED
    BY <2>1, <2>2 DEF Sort
<1>5. PICK order \in Orders(Len(at)) : message' = Rearranged(r, at, order)
  BY <1>4
<1>6. AnswerKept(r)'
  BY <1>1, <1>2, <1>5, RearrangedKeeps
<1>7. /\ ResponderTypes' /\ GroupsKept(r)' /\ HandleKept(r)'
      /\ \A s \in Responders : s # r => Rests(s)
  <2> HIDE DEF at
  <2> QED
    BY <1>1, <1>5, FinishedKeeps
<1> QED
  BY <1>1, <1>6, <1>7, SharedRests, StepKeeps

\* A group with a policy is one of an RRset that is stored.
LEMMA FindCursorInv ==
  ASSUME Inv, NEW r \in Responders, NEW g \in groups[r], FindCursor(r, g)
  PROVE  Inv'
<1>1. /\ phase[r] = "sorting" /\ ModeOf(r, g) = "lb"
      /\ phase'[r] = "finding" /\ working'[r] = g
      /\ handle'[r] = cursors[RRsetOf(r, g)]
      /\ answer'[r] = answer[r] /\ message'[r] = message[r] /\ policies'[r] = policies[r]
      /\ sources'[r] = sources[r] /\ groups'[r] = groups[r]
      /\ UNCHANGED <<state, shared>>
  BY DEF FindCursor, Inv, ResponderTypes
<1>2. ResponderTypes'
  BY DEF FindCursor, Inv, ResponderTypes
<1>3. \A s \in Responders : s # r => Rests(s)
  BY DEF FindCursor, Inv, ResponderTypes, Rests
<1>4. AnswerKept(r)'
  BY <1>1, AnswerRests DEF Inv, RespondersKept
<1>5. GroupsKept(r)'
  BY <1>1 DEF Inv, RespondersKept, GroupsKept, GroupOf, HasPolicy
<1>6. RRsetOf(r, g) \in RRsets
  BY <1>1, DataAssumption DEF ModeOf, PolicyOf, Modes
<1>7. RRsetOf(r, g)' = RRsetOf(r, g) /\ cursors' = cursors
  BY <1>1 DEF RRsetOf, shared
<1>8. HandleKept(r)'
  BY <1>1, <1>6, <1>7 DEF HandleKept
<1> QED
  BY <1>1, <1>2, <1>3, <1>4, <1>5, <1>8, SharedRests, StepKeeps

\* The second look at the map, under its write lock, keeps two responders from making
\* a counter each.
LEMMA MakeCursorInv ==
  ASSUME Inv, NEW r \in Responders, MakeCursor(r)
  PROVE  Inv'
<1> DEFINE rrset == RRsetOf(r, working[r])
<1>1. /\ phase[r] = "finding" /\ phase'[r] = phase[r] /\ working'[r] = working[r]
      /\ handle'[r] = cursors'[rrset]
      /\ answer'[r] = answer[r] /\ message'[r] = message[r] /\ policies'[r] = policies[r]
      /\ sources'[r] = sources[r] /\ groups'[r] = groups[r]
      /\ UNCHANGED <<state, turns>>
  BY DEF MakeCursor, Inv, ResponderTypes
<1>2. ResponderTypes'
  BY DEF MakeCursor, Inv, ResponderTypes
<1>3. \A s \in Responders : s # r => Rests(s)
  BY DEF MakeCursor, Inv, ResponderTypes, Rests
<1>4. rrset \in RRsets /\ working[r] \in groups[r]
  BY <1>1 DEF Inv, RespondersKept, HandleKept
<1> DEFINE n == Len(counters) + 1
<1>5. /\ counters \in Seq(Nat) /\ Len(counters) \in Nat
      /\ cursors \in [RRsets -> 0..Len(counters)]
      /\ turns \in [RRsets -> Seq(Nat)]
  BY DEF Inv, CursorsKept
<1>6. CursorsKept' /\ Steady
  <2>1. CASE cursors[rrset] = 0
    <3>1. counters' = Append(counters, 0) /\ cursors' = [cursors EXCEPT ![rrset] = n]
      <4>1. counters' = Append(counters, 0) /\ cursors' = [cursors EXCEPT ![rrset] = Len(counters')]
        BY <2>1 DEF MakeCursor, IsMissing
      <4> QED
        BY <1>5, <4>1
    <3>2. /\ counters' \in Seq(Nat) /\ Len(counters') = n /\ counters'[n] = 0
          /\ \A i \in 1..Len(counters) : counters'[i] = counters[i]
      BY <1>5, <3>1
    <3> HIDE DEF rrset
    <3>3. /\ cursors'[rrset] = n /\ n # 0 /\ n \notin 0..Len(counters)
          /\ \A x \in RRsets : x # rrset => cursors'[x] = cursors[x]
          /\ cursors' \in [RRsets -> 0..n]
      BY <1>4, <1>5, <3>1
    <3>4. turns[rrset] = <<>> /\ turns' = turns
      BY <1>1, <1>4, <2>1 DEF Inv, CursorsKept
    <3>5. \A x, y \in RRsets : cursors'[x] = cursors'[y] /\ cursors'[x] # 0 => x = y
      <4>1. \A x, y \in RRsets : cursors[x] = cursors[y] /\ cursors[x] # 0 => x = y
        BY DEF Inv, CursorsKept
      <4>2. \A x \in RRsets : cursors[x] # n
        BY <1>5, <3>3
      <4> HIDE DEF n
      <4> QED
        BY <3>3, <4>1, <4>2
    <3>6. ASSUME NEW x \in RRsets
          PROVE  /\ cursors'[x] = 0 => turns[x] = <<>>
                 /\ cursors'[x] # 0 => counters'[cursors'[x]] = Len(turns[x])
                 /\ \A i \in 1..Len(turns[x]) : turns[x][i] = i - 1
      <4>1. CASE x = rrset
        BY <3>2, <3>3, <3>4, <4>1
      <4>2. CASE x # rrset
        <5>1. /\ cursors[x] = 0 => turns[x] = <<>>
              /\ cursors[x] # 0 => counters[cursors[x]] = Len(turns[x])
              /\ \A i \in 1..Len(turns[x]) : turns[x][i] = i - 1
          BY DEF Inv, CursorsKept
        <5>2. cursors[x] # 0 => cursors[x] \in 1..Len(counters)
          BY <1>5
        <5> QED
          BY <3>2, <3>3, <4>2, <5>1, <5>2
      <4> QED
        BY <4>1, <4>2
    <3>7. Steady
      BY <2>1, <3>3 DEF Steady
    <3> HIDE DEF n
    <3> QED
      BY <1>5, <3>2, <3>3, <3>4, <3>5, <3>6, <3>7 DEF CursorsKept
  <2>2. CASE cursors[rrset] # 0
    <3>1. counters' = counters /\ cursors' = cursors
      BY <2>2 DEF MakeCursor, IsMissing
    <3> QED
      BY <1>1, <3>1, SharedRests DEF shared
  <2> QED
    BY <2>1, <2>2
<1>7. AnswerKept(r)'
  BY <1>1, AnswerRests DEF Inv, RespondersKept
<1>8. GroupsKept(r)'
  BY <1>1 DEF Inv, RespondersKept, GroupsKept, GroupOf, HasPolicy
<1>9. RRsetOf(r, working[r])' = rrset
  BY <1>1 DEF RRsetOf
<1>10. HandleKept(r)'
  <2> HIDE DEF rrset
  <2> QED
    BY <1>1, <1>4, <1>9 DEF HandleKept
<1> QED
  BY <1>1, <1>2, <1>3, <1>6, <1>7, <1>8, <1>10, StepKeeps

\* A turn is taken at the counter of the RRset, and no other counter.
LEMMA TakeTurnInv ==
  ASSUME Inv, NEW r \in Responders, TakeTurn(r)
  PROVE  Inv'
<1> DEFINE g     == working[r]
           at    == Positions(r, sources[r], g)
           rrset == RRsetOf(r, g)
           turn  == counters[handle[r]]
<1>1. /\ phase[r] = "finding" /\ handle[r] # 0 /\ Finished(r, g)
      /\ counters' = [counters EXCEPT ![handle[r]] = turn + 1]
      /\ turns' = [turns EXCEPT ![rrset] = Append(@, turn)]
      /\ message' = Rearranged(r, at, Rotation(Len(at), turn % Len(at)))
      /\ UNCHANGED <<state, peer, answer, policies, sources, cursors>>
  BY DEF TakeTurn
<1>2. g \in groups[r] /\ rrset \in RRsets /\ handle[r] = cursors[rrset]
  BY <1>1 DEF Inv, RespondersKept, HandleKept
<1>3. /\ counters \in Seq(Nat) /\ Len(counters) \in Nat
      /\ cursors \in [RRsets -> 0..Len(counters)] /\ turns \in [RRsets -> Seq(Nat)]
      /\ \A x, y \in RRsets : cursors[x] = cursors[y] /\ cursors[x] # 0 => x = y
      /\ \A x \in RRsets :
           /\ cursors[x] = 0 => turns[x] = <<>>
           /\ cursors[x] # 0 => counters[cursors[x]] = Len(turns[x])
           /\ \A i \in 1..Len(turns[x]) : turns[x][i] = i - 1
  BY DEF Inv, CursorsKept
<1> HIDE DEF rrset
<1>4. /\ handle[r] \in 1..Len(counters) /\ turn = Len(turns[rrset]) /\ turn \in Nat
      /\ turns[rrset] \in Seq(Nat)
  BY <1>1, <1>2, <1>3
<1>5. CursorsKept'
  <2> DEFINE longer == Append(turns[rrset], turn)
  <2>1. /\ counters' \in Seq(Nat) /\ Len(counters') = Len(counters)
        /\ counters'[handle[r]] = turn + 1
        /\ \A i \in 1..Len(counters) : i # handle[r] => counters'[i] = counters[i]
    BY <1>1, <1>3, <1>4
  <2>2. /\ longer \in Seq(Nat) /\ Len(longer) = turn + 1
        /\ \A i \in 1..turn + 1 : longer[i] = i - 1
    <3> HIDE DEF turn
    <3>1. \A i \in 1..turn + 1 : i \in 1..turn \/ i = turn + 1
      BY <1>4
    <3>2. \A i \in 1..turn : turns[rrset][i] = i - 1
      BY <1>2, <1>3, <1>4
    <3>3. longer \in Seq(Nat) /\ Len(longer) = turn + 1
      BY <1>4
    <3>4. (\A i \in 1..turn : longer[i] = turns[rrset][i]) /\ longer[turn + 1] = turn
      BY <1>4
    <3> QED
      BY <1>4, <3>1, <3>2, <3>3, <3>4
  <2>3. /\ turns' \in [RRsets -> Seq(Nat)] /\ turns'[rrset] = longer
        /\ \A x \in RRsets : x # rrset => turns'[x] = turns[x]
    <3> HIDE DEF turn
    <3> QED
      BY <1>1, <1>2, <1>3, <2>2
  <2> HIDE DEF longer, turn
  <2>4. ASSUME NEW x \in RRsets
        PROVE  /\ cursors[x] = 0 => turns'[x] = <<>>
               /\ cursors[x] # 0 => counters'[cursors[x]] = Len(turns'[x])
               /\ \A i \in 1..Len(turns'[x]) : turns'[x][i] = i - 1
    <3>1. CASE x = rrset
      BY <1>1, <1>2, <2>1, <2>2, <2>3, <3>1
    <3>2. CASE x # rrset
      <4>1. cursors[x] # 0 => cursors[x] \in 1..Len(counters) /\ cursors[x] # handle[r]
        BY <1>2, <1>3, <3>2
      <4>2. turns'[x] = turns[x]
        BY <2>3, <3>2
      <4> QED
        BY <1>3, <2>1, <4>1, <4>2
    <3> QED
      BY <3>1, <3>2
  <2>5. cursors' = cursors
    BY <1>1
  <2> QED
    BY <1>3, <2>1, <2>3, <2>4, <2>5 DEF CursorsKept
<1>6. Steady
  BY <1>1 DEF Steady
<1>7. AnswerKept(r) /\ DOMAIN message = Responders
  BY DEF Inv, RespondersKept, ResponderTypes
<1>8. Len(at) \in Nat /\ Len(at) # 0
  <2>1. PICK n \in Nat : DOMAIN answer[r] = 1..n
    BY <1>7 DEF AnswerKept
  <2>2. PICK i \in DOMAIN answer[r] :
          GroupOf(sources[r], answer[r][i]) = g /\ HasPolicy(policies[r], sources[r], answer[r][i])
    BY <1>2 DEF Inv, RespondersKept, GroupsKept
  <2> QED
    BY <2>1, <2>2, PositionsOfOne
<1>9. Rotation(Len(at), turn % Len(at)) \in Orders(Len(at))
  <2> HIDE DEF at, turn
  <2> QED
    BY <1>4, <1>8, RotationIsOrder
<1>10. AnswerKept(r)'
  <2> HIDE DEF turn
  <2> QED
    BY <1>1, <1>7, <1>9, RearrangedKeeps
<1>11. /\ ResponderTypes' /\ GroupsKept(r)' /\ HandleKept(r)'
       /\ \A s \in Responders : s # r => Rests(s)
  <2> HIDE DEF at, turn, g
  <2> QED
    BY <1>1, FinishedKeeps
<1> QED
  BY <1>1, <1>5, <1>6, <1>10, <1>11, StepKeeps

LEMMA NextInv ==
  ASSUME Inv, [Next]_vars
  PROVE  Inv'
<1>1. CASE UNCHANGED vars
  <2>1. UNCHANGED <<state, local, shared>>
    BY <1>1 DEF vars
  <2>2. StateTypeOK' /\ IsFinite(records)'
    BY <2>1 DEF Inv, state, StateTypeOK, IsFinite, StoredPatterns
  <2>3. CursorsKept' /\ Steady /\ ResponderTypes'
    BY <2>1, SharedRests DEF Inv, ResponderTypes, local
  <2>4. \A s \in Responders : Rests(s)
    BY <2>1 DEF Rests, local
  <2> QED
    BY <2>2, <2>3, <2>4, RestingKept DEF Inv, RespondersKept
<1>2. CASE Next
  <2>1. ASSUME NEW j \in Jobs, Write(j) PROVE Inv'
    BY <2>1, WriteInv
  <2>2. CASE Restart
    BY <2>2, RestartInv
  <2>3. ASSUME NEW r \in Responders, Respond(r) PROVE Inv'
    <3>1. ASSUME NEW q \in Asked, NEW country \in Peers, Ask(r, q, country) PROVE Inv'
      BY <3>1, AskInv
    <3>2. ASSUME NEW g \in groups[r], Sort(r, g) \/ FindCursor(r, g) PROVE Inv'
      BY <3>2, SortInv, FindCursorInv
    <3>3. CASE ReadModes(r) \/ ReadSources(r) \/ ReadFails(r) \/ Send(r)
      BY <3>3, ReadModesInv, ReadSourcesInv, IdleInv
    <3>4. CASE MakeCursor(r) \/ TakeTurn(r)
      BY <3>4, MakeCursorInv, TakeTurnInv
    <3> QED
      BY <2>3, <3>1, <3>2, <3>3, <3>4 DEF Respond
  <2> QED
    BY <1>2, <2>1, <2>2, <2>3 DEF Next
<1> QED
  BY <1>1, <1>2

LEMMA Invariance == Spec => []Inv
BY InitInv, NextInv, PTL DEF Spec

-----------------------------------------------------------------------------
(***************************************************************************)
(* Theorems.                                                               *)
(***************************************************************************)
\* The state has its types; above all, a group that is to be ordered has a policy among
\* those that were read for the response (Ordering::sort), whatever was written since.
THEOREM TypeCorrect == Spec => []TypeOK
<1>1. ASSUME Inv PROVE TypeOK
  <2>1. ASSUME NEW r \in Responders
        PROVE  /\ \A g \in groups[r] : ModeOf(r, g) # NoMode
               /\ handle[r] \in 0..Len(counters)
               /\ phase[r] = "finding" <=> working[r] # <<>>
    <3>1. GroupsKept(r) /\ HandleKept(r)
      BY <1>1 DEF Inv, RespondersKept
    <3>2. ASSUME NEW g \in groups[r] PROVE ModeOf(r, g) # NoMode
      <4>1. PICK i \in DOMAIN answer[r] :
              /\ g = <<answer[r][i].owner, answer[r][i].kind>>
              /\ PolicyOf(policies[r], <<SourceOf(sources[r], answer[r][i].owner),
                                         answer[r][i].kind>>) # NoMode
        BY <3>1 DEF GroupsKept, HasPolicy, GroupOf
      <4>2. g[1] = answer[r][i].owner /\ g[2] = answer[r][i].kind
        BY <4>1
      <4> QED
        BY <4>1, <4>2 DEF ModeOf, RRsetOf
    <3>3. handle[r] \in 0..Len(counters)
      BY <1>1, <3>1 DEF Inv, HandleKept, CursorsKept
    <3>4. \A g \in groups[r] : g # <<>>
      BY <3>1 DEF GroupsKept, GroupOf
    <3> QED
      BY <3>1, <3>2, <3>3, <3>4 DEF HandleKept
  <2> QED
    BY <1>1, <2>1 DEF Inv, ResponderTypes, CursorsKept, TypeOK
<1> QED
  BY <1>1, Invariance, PTL

\* Ordering changes only the order of records, never their membership, nor the RRset
\* that a place in a response belongs to (Ordering::sort), for any orders, however the
\* store changes between the three reads of a response.
THEOREM OrderingKeepsMembership == Spec => []MembershipKept
<1>1. ASSUME Inv PROVE MembershipKept
  <2>1. ASSUME NEW r \in Responders
        PROVE  \A i \in DOMAIN answer[r] : /\ message[r][i].owner = answer[r][i].owner
                                           /\ message[r][i].kind = answer[r][i].kind
    BY <1>1 DEF Inv, RespondersKept, AnswerKept, IsArrangement
  <2> QED
    BY <1>1, <2>1, ArrangementCounts DEF Inv, RespondersKept, MembershipKept
<1> QED
  BY <1>1, Invariance, PTL

\* The responses from an lb RRset take every turn once, those included that come to
\* make its cursor at the same time (Ordering::sort: the map is read, then written).
THEOREM EveryTurnIsTaken == Spec => []TurnsTaken
<1>1. ASSUME Inv PROVE TurnsTaken
  <2> SUFFICES ASSUME NEW x \in RRsets
               PROVE  IsInjective(turns[x]) /\ ToSet(turns[x]) = 0..Len(turns[x]) - 1
    BY DEF TurnsTaken
  <2>1. turns[x] \in Seq(Nat) /\ \A i \in 1..Len(turns[x]) : turns[x][i] = i - 1
    BY <1>1 DEF Inv, CursorsKept
  <2>2. DOMAIN turns[x] = 1..Len(turns[x]) /\ Len(turns[x]) \in Nat
    BY <2>1
  <2>3. \A n \in 0..Len(turns[x]) - 1 : n + 1 \in 1..Len(turns[x]) /\ (n + 1) - 1 = n
    BY <2>2
  <2> QED
    <3>1. IsInjective(turns[x])
      BY <2>1, <2>2 DEF IsInjective
    <3>2. \A n \in ToSet(turns[x]) : n \in 0..Len(turns[x]) - 1
      BY <2>1, <2>2 DEF ToSet
    <3>3. \A n \in 0..Len(turns[x]) - 1 : n \in ToSet(turns[x])
      BY <2>1, <2>2, <2>3 DEF ToSet
    <3> QED
      BY <3>1, <3>2, <3>3
<1> QED
  BY <1>1, Invariance, PTL
=============================================================================
