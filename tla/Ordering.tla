------------------------------- MODULE Ordering -------------------------------
(***************************************************************************)
(* The order of the records in a response: OrderedResponse and Ordering in *)
(* src/src/dnslogic/resolver.rs. The records were looked up in one         *)
(* transaction of LMDB, the policies are read in a second one, and which   *)
(* key each owner got its records from in a third; writes may come between.*)
(* Responses share the cursors of the lb policy, one for each RRset that   *)
(* is stored, made by the first response that needs it.                    *)
(***************************************************************************)
EXTENDS StoreState, Resolution, SequencesExt

CONSTANTS
  Responders,   \* the threads that send responses
  Asked,        \* what they answer
  Country,      \* the country of RDATA that is an address, or Unknown
  Peers,        \* the countries of those who ask, or Unknown
  Unknown,
  MaxTurns      \* bound: turns taken at one cursor

ASSUME OrderingAssumption ==
  /\ Asked \subseteq Questions
  /\ DOMAIN Country = RData
  /\ MaxTurns \in Nat

VARIABLES
  phase,      \* per responder: idle, answered, governed, sorting or finding
  peer,       \* per responder: the country of who asked
  answer,     \* per responder: the records as they were looked up
  message,    \* per responder: the records as they are sent
  policies,   \* per responder: the policies it read
  sources,    \* per responder: the key each owner's records come from
  groups,     \* per responder: the owners and types still to order
  working,    \* per responder: the one it orders by a cursor, or <<>>
  handle,     \* per responder: the counter it got for it, or 0
  cursors,    \* the counter of every stored RRset, or 0
  counters,   \* the values of the counters
  turns       \* history: the values taken for every stored RRset

local == <<phase, peer, answer, message, policies, sources, groups, working, handle>>
shared == <<cursors, counters, turns>>
vars == <<state, local, shared>>

Init ==
  /\ StateInit
  /\ phase = [r \in Responders |-> "idle"]
  /\ peer = [r \in Responders |-> Unknown]
  /\ answer = [r \in Responders |-> <<>>]
  /\ message = [r \in Responders |-> <<>>]
  /\ policies = [r \in Responders |-> modes]
  /\ sources = [r \in Responders |-> <<>>]
  /\ groups = [r \in Responders |-> {}]
  /\ working = [r \in Responders |-> <<>>]
  /\ handle = [r \in Responders |-> 0]
  /\ cursors = [rrset \in RRsets |-> 0]
  /\ counters = <<>>
  /\ turns = [rrset \in RRsets |-> <<>>]

Write(j) ==
  /\ IsChange(j)
  /\ Take(j)
  /\ UNCHANGED <<local, shared>>

\* A restart, or a reload, begins with no cursors. The responses are over, and
\* what they were does not matter any more.
Restart ==
  /\ \A r \in Responders : phase[r] = "idle"
  /\ answer' = [r \in Responders |-> <<>>]
  /\ message' = [r \in Responders |-> <<>>]
  /\ cursors' = [rrset \in RRsets |-> 0]
  /\ counters' = <<>>
  /\ turns' = [rrset \in RRsets |-> <<>>]
  /\ UNCHANGED <<state, phase, peer, policies, sources, groups, working, handle>>

-----------------------------------------------------------------------------
\* A lookup answers its aliases in the order of the chain, then what it found.
InChainOrder(recs, question) ==
  LET chain == Chain(recs, Canonical[question.name], question.kind)
      aliases == [i \in 1..Len(chain) - 1 |-> SetToSeq(Aliases(Values(recs, chain[i])))]
  IN  FlattenSeq(aliases) \o SetToSeq(Matching(Values(recs, Last(chain)), question.kind))

Ask(r, question, country) ==
  /\ phase[r] = "idle"
  /\ \A rrset \in RRsets : Len(turns[rrset]) < MaxTurns
  /\ phase' = [phase EXCEPT ![r] = "answered"]
  /\ peer' = [peer EXCEPT ![r] = country]
  /\ answer' = [answer EXCEPT ![r] =
       IF Resolve(records, question).status = "answered"
       THEN InChainOrder(records, question) ELSE <<>>]
  /\ message' = [message EXCEPT ![r] = answer'[r]]
  /\ UNCHANGED <<state, policies, sources, groups, working, handle, shared>>

\* Without any policy the response is sent as it is.
ReadModes(r) ==
  /\ phase[r] = "answered"
  /\ policies' = [policies EXCEPT ![r] = modes]
  /\ phase' = [phase EXCEPT ![r] =
       IF \A rrset \in RRsets : modes[rrset] = NoMode THEN "idle" ELSE "governed"]
  /\ UNCHANGED <<state, peer, answer, message, sources, groups, working, handle, shared>>

\* The key that now answers for an owner, or the owner itself.
SourceKey(owner) ==
  IF owner \notin Keys \/ Source(records, owner) = NoName THEN owner
  ELSE Source(records, owner)

SourceOf(map, owner) == IF owner \in DOMAIN map THEN map[owner] ELSE owner

PolicyOf(policy, rrset) == IF rrset \in RRsets THEN policy[rrset] ELSE NoMode

\* Faulty variant: the records of all owners with one source are one group.
SourceAndKind(map, record) == <<SourceOf(map, record.owner), record.kind>>

GroupOf(map, record) == <<record.owner, record.kind>>
HasPolicy(policy, map, record) ==
  PolicyOf(policy, <<SourceOf(map, record.owner), record.kind>>) # NoMode

\* The positions of a group in a response, and these in order.
Members(r, map, g) ==
  {i \in DOMAIN answer[r] :
     HasPolicy(policies[r], map, answer[r][i]) /\ GroupOf(map, answer[r][i]) = g}
Ascending(S) == Sorted(S, <)
Positions(r, map, g) == Ascending(Members(r, map, g))

\* sources: a key that matches a pattern now may have been a name of its own when
\* the records were looked up.
ReadSources(r) ==
  LET owners == {answer[r][i].owner : i \in DOMAIN answer[r]}
      map == [owner \in owners |-> SourceKey(owner)]
  IN
  /\ phase[r] = "governed"
  /\ sources' = [sources EXCEPT ![r] = map]
  /\ groups' = [groups EXCEPT ![r] =
       {g \in {GroupOf(map, answer[r][i]) : i \in DOMAIN answer[r]} :
          Len(Positions(r, map, g)) >= 2}]
  /\ phase' = [phase EXCEPT ![r] = "sorting"]
  /\ UNCHANGED <<state, peer, answer, message, policies, working, handle, shared>>

\* A read of the store fails, and the response is dropped.
ReadFails(r) ==
  /\ phase[r] \in {"answered", "governed"}
  /\ phase' = [phase EXCEPT ![r] = "idle"]
  /\ UNCHANGED <<state, peer, answer, message, policies, sources, groups, working,
                 handle, shared>>

-----------------------------------------------------------------------------
RRsetOf(r, g) == <<SourceOf(sources[r], g[1]), g[2]>>

\* Faulty variant: the policies are read once more for every group.
ModeNow(r, g) == PolicyOf(modes, RRsetOf(r, g))

ModeOf(r, g) == PolicyOf(policies[r], RRsetOf(r, g))

\* The records at these positions, in another order.
Rearranged(r, at, order) ==
  [message EXCEPT ![r] =
     [i \in DOMAIN answer[r] |->
        IF i \in ToSet(at)
        THEN answer[r][at[order[AntiFunction(at)[i]]]]
        ELSE message[r][i]]]

\* What a shuffle may make of the positions of a list.
Orders(n) == {order \in [1..n -> 1..n] : IsInjective(order)}

\* rotate_left
Rotation(n, by) == [i \in 1..n |-> IF i + by <= n THEN i + by ELSE i + by - n]

\* Those of the peer's country first, the others after them, else as they were: the
\* sort is stable.
LocalFirst(r, at) ==
  LET IsLocal(i) == Country[answer[r][at[i]].data] = peer[r]
      Comes(i, j) == IF IsLocal(i) = IsLocal(j) THEN i < j ELSE IsLocal(i)
  IN  IF peer[r] = Unknown THEN [i \in DOMAIN at |-> i] ELSE Sorted(DOMAIN at, Comes)

Finished(r, g) ==
  /\ groups' = [groups EXCEPT ![r] = @ \ {g}]
  /\ working' = [working EXCEPT ![r] = <<>>]
  /\ handle' = [handle EXCEPT ![r] = 0]
  /\ phase' = [phase EXCEPT ![r] = "sorting"]

\* Random and geo order need nothing that is shared.
Sort(r, g) ==
  LET at == Positions(r, sources[r], g) IN
  /\ phase[r] = "sorting"
  /\ g \in groups[r]
  /\ \/ /\ ModeOf(r, g) = "random"
        /\ \E order \in Orders(Len(at)) : message' = Rearranged(r, at, order)
     \/ /\ ModeOf(r, g) = "geo"
        /\ message' = Rearranged(r, at, LocalFirst(r, at))
  /\ Finished(r, g)
  /\ UNCHANGED <<state, peer, answer, policies, sources, shared>>

\* The map of the cursors is read ...
FindCursor(r, g) ==
  /\ phase[r] = "sorting"
  /\ g \in groups[r]
  /\ ModeOf(r, g) = "lb"
  /\ working' = [working EXCEPT ![r] = g]
  /\ handle' = [handle EXCEPT ![r] = cursors[RRsetOf(r, g)]]
  /\ phase' = [phase EXCEPT ![r] = "finding"]
  /\ UNCHANGED <<state, peer, answer, message, policies, sources, groups, shared>>

\* Faulty variant: what was missing when the map was read is still missing.
WasMissing(rrset) == TRUE

IsMissing(rrset) == cursors[rrset] = 0

\* ... and written where there was none.
MakeCursor(r) ==
  LET rrset == RRsetOf(r, working[r]) IN
  /\ phase[r] = "finding"
  /\ handle[r] = 0
  /\ IF IsMissing(rrset)
     THEN /\ counters' = Append(counters, 0)
          /\ cursors' = [cursors EXCEPT ![rrset] = Len(counters')]
     ELSE UNCHANGED <<counters, cursors>>
  /\ handle' = [handle EXCEPT ![r] = cursors'[rrset]]
  /\ UNCHANGED <<state, phase, peer, answer, message, policies, sources, groups,
                 working, turns>>

\* fetch_add, and the rotation by what it returned.
TakeTurn(r) ==
  LET g     == working[r]
      at    == Positions(r, sources[r], g)
      turn  == counters[handle[r]]
      rrset == RRsetOf(r, g)
  IN
  /\ phase[r] = "finding"
  /\ handle[r] # 0
  /\ counters' = [counters EXCEPT ![handle[r]] = turn + 1]
  /\ turns' = [turns EXCEPT ![rrset] = Append(@, turn)]
  /\ message' = Rearranged(r, at, Rotation(Len(at), turn % Len(at)))
  /\ Finished(r, g)
  /\ UNCHANGED <<state, peer, answer, policies, sources, cursors>>

Send(r) ==
  /\ phase[r] = "sorting"
  /\ groups[r] = {}
  /\ phase' = [phase EXCEPT ![r] = "idle"]
  /\ UNCHANGED <<state, peer, answer, message, policies, sources, groups, working,
                 handle, shared>>

Respond(r) ==
  \/ \E question \in Asked, country \in Peers : Ask(r, question, country)
  \/ ReadModes(r) \/ ReadSources(r) \/ ReadFails(r)
  \/ \E g \in groups[r] : Sort(r, g) \/ FindCursor(r, g)
  \/ MakeCursor(r) \/ TakeTurn(r) \/ Send(r)

Next == (\E j \in Jobs : Write(j)) \/ Restart \/ (\E r \in Responders : Respond(r))

Spec == Init /\ [][Next]_vars

-----------------------------------------------------------------------------
\* The types of the state. A group that is to be ordered has a policy among those
\* that were read: sort looks it up without a default.
TypeOK ==
  /\ StateTypeOK
  /\ phase \in [Responders -> {"idle", "answered", "governed", "sorting", "finding"}]
  /\ peer \in [Responders -> Peers \cup {Unknown}]
  /\ \A r \in Responders :
       /\ \A g \in groups[r] : ModeOf(r, g) # NoMode
       /\ handle[r] \in 0..Len(counters)
       /\ phase[r] = "finding" <=> working[r] # <<>>
  /\ \A rrset \in RRsets : cursors[rrset] \in 0..Len(counters)

\* records.rs: "Ordering changes only the order of records, never their membership."
\* Nor does it move a record out of its RRset, so that a chain of aliases reads in
\* its order, whatever was written between the three reads of a response.
MembershipKept ==
  \A r \in Responders :
    /\ \A a \in ToSet(answer[r]) :
         Cardinality({i \in DOMAIN message[r] : message[r][i] = a})
           = Cardinality({i \in DOMAIN answer[r] : answer[r][i] = a})
    /\ \A i \in DOMAIN answer[r] :
         /\ message[r][i].owner = answer[r][i].owner
         /\ message[r][i].kind = answer[r][i].kind

\* The responses from an lb RRset take turns: none is taken twice and none is left
\* out, the first ones included, which make the cursor.
TurnsTaken ==
  \A rrset \in RRsets :
    IsInjective(turns[rrset]) /\ ToSet(turns[rrset]) = 0..Len(turns[rrset]) - 1
=============================================================================
