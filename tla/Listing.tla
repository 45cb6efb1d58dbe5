------------------------------- MODULE Listing -------------------------------
(***************************************************************************)
(* The listings of the management API, src/src/graphql.rs, over those of   *)
(* the store: clients that page through the names, and clients that list   *)
(* the records of one name with their ordering policies, while writers     *)
(* commit between their reads. Every page is a read transaction of its     *)
(* own; so are the records of a name and the policies shown with them.     *)
(***************************************************************************)
EXTENDS StoreState, FiniteSetsExt

CONSTANTS
  Clients,
  Rank,        \* the place of a key in byte order, from 1
  Prefixes,
  HasPrefix,   \* the keys that start with a prefix
  ListedKinds, \* the types, or none, that are asked for
  Limits,      \* the page sizes that are asked for
  MaxLimit,    \* 500 in the code
  None

ASSUME ListingAssumption ==
  /\ IsFiniteSet(Keys)
  /\ Rank \in [Keys -> Nat \ {0}]
  /\ \A k, l \in Keys : k # l => Rank[k] # Rank[l]
  /\ HasPrefix \in [Prefixes -> SUBSET Keys]
  /\ Limits \subseteq Nat /\ MaxLimit \in Nat

VARIABLES
  versions,  \* the content of every revision so far
  phase,     \* per client: idle, paging, paged, asking, reading, listed or refused
  request,   \* per client: the prefix and page size, or the name and type, it asks for
  since,     \* per client: the revision when it began
  seen,      \* per client: the revision of its last read of names or records
  after,     \* per client: the place of the last name it was given, 0 at first
  pages,     \* per client: how many pages it was given
  names,     \* per client: the names it was given, each with the number of its page
  found,     \* per client: the records it read
  shown      \* per client: the records it was given, each with its policy

client == <<phase, request, since, seen, after, pages, names, found, shown>>
vars == <<records, modes, revision, versions, client>>

Content == [records |-> records, modes |-> modes]

Init ==
  /\ StateInit
  /\ versions = [n \in {0} |-> Content]
  /\ phase = [c \in Clients |-> "idle"]
  /\ request = [c \in Clients |-> None]
  /\ since = [c \in Clients |-> 0]
  /\ seen = [c \in Clients |-> 0]
  /\ after = [c \in Clients |-> 0]
  /\ pages = [c \in Clients |-> 0]
  /\ names = [c \in Clients |-> {}]
  /\ found = [c \in Clients |-> {}]
  /\ shown = [c \in Clients |-> {}]

\* A writer's commit; a job that changes nothing is no step here.
Write(j) ==
  /\ IsChange(j)
  /\ Take(j)
  /\ versions' = [n \in 0..revision' |-> IF n = revision' THEN Content' ELSE versions[n]]
  /\ UNCHANGED client

Become(c, p) == phase' = [phase EXCEPT ![c] = p]

\* A client asks anew, once it is done with what it asked before.
Begin(c, p, asked) ==
  /\ phase[c] \notin {"paging", "asking", "reading"}
  /\ Become(c, p)
  /\ request' = [request EXCEPT ![c] = asked]
  /\ since' = [since EXCEPT ![c] = revision]
  /\ seen' = [seen EXCEPT ![c] = revision]
  /\ after' = [after EXCEPT ![c] = 0]
  /\ pages' = [pages EXCEPT ![c] = 0]
  /\ names' = [names EXCEPT ![c] = {}]
  /\ found' = [found EXCEPT ![c] = {}]
  /\ shown' = [shown EXCEPT ![c] = {}]
  /\ UNCHANGED <<state, versions>>

-----------------------------------------------------------------------------
(***************************************************************************)
(* names. A client asks for the first page, then for those after the last  *)
(* name it was given, and is done when a page is not full.                 *)
(***************************************************************************)
IsServed(limit) == limit \in 1..MaxLimit

Page(c, prefix, limit) ==
  /\ Begin(c, IF IsServed(limit) THEN "paging" ELSE "refused",
           [prefix |-> prefix, limit |-> limit])

\* Faulty variants: the last name is given again; names are skipped by their number
\* and not by their place.
IsFrom(c, k) == Rank[k] >= after[c]
IsFurther(c, k) ==
  Cardinality({l \in Keys : records[l] # {} /\ Rank[l] < Rank[k]}) >= Cardinality(names[c])

\* The names a page is taken from: those stored now, after the last one given.
IsAfter(c, k) == Rank[k] > after[c]

Eligible(c) ==
  {k \in HasPrefix[request[c].prefix] : records[k] # {} /\ IsAfter(c, k)}

\* The cursor goes through the keys in byte order until the page is full.
FirstOf(keys, limit) ==
  {k \in keys : Cardinality({l \in keys : Rank[l] < Rank[k]}) < limit}

GetPage(c) ==
  LET page == FirstOf(Eligible(c), request[c].limit) IN
  /\ phase[c] = "paging"
  /\ pages' = [pages EXCEPT ![c] = @ + 1]
  /\ names' = [names EXCEPT ![c] = @ \cup ({pages'[c]} \X page)]
  /\ after' = [after EXCEPT ![c] = IF page = {} THEN @ ELSE Max({Rank[k] : k \in page})]
  /\ IF Cardinality(page) < request[c].limit THEN Become(c, "paged") ELSE phase' = phase
  /\ seen' = [seen EXCEPT ![c] = revision]
  /\ UNCHANGED <<state, versions, request, since, found, shown>>

-----------------------------------------------------------------------------
(***************************************************************************)
(* records, of one name and of one of its types or all of them.            *)
(***************************************************************************)
IsKind(kind) == kind \in Kinds \cup Pseudo \cup {AnyKind}

List(c, name, kind) ==
  Begin(c, IF IsKind(kind) THEN "asking" ELSE "refused", [name |-> name, kind |-> kind])

ReadRecords(c) ==
  LET k == Canonical[request[c].name] IN
  /\ phase[c] = "asking"
  /\ Become(c, IF k = Invalid THEN "refused" ELSE "reading")
  /\ found' = [found EXCEPT ![c] = IF k = Invalid THEN {} ELSE records[k]]
  /\ seen' = [seen EXCEPT ![c] = revision]
  /\ UNCHANGED <<state, versions, request, since, after, pages, names, shown>>

\* No type, and the type ANY, list all of them.
Selects(kind, r) == kind \in {AnyKind, "ANY", r.kind}

\* Faulty variant: the policies were read first.
PoliciesBefore(c) == versions[since[c]].modes

\* modes reads the policies in a transaction of its own.
PoliciesRead(c) == modes

Show(c) ==
  LET k == Canonical[request[c].name] IN
  /\ phase[c] = "reading"
  /\ Become(c, "listed")
  /\ shown' = [shown EXCEPT ![c] =
       {<<r, PoliciesRead(c)[<<k, r.kind>>]>> :
          r \in {s \in found[c] : Selects(request[c].kind, s)}}]
  /\ UNCHANGED <<state, versions, request, since, seen, after, pages, names, found>>

Next ==
  \/ \E j \in Jobs : Write(j)
  \/ \E c \in Clients :
       \/ \E prefix \in Prefixes, limit \in Limits : Page(c, prefix, limit)
       \/ GetPage(c)
       \/ \E name \in Spellings, kind \in ListedKinds : List(c, name, kind)
       \/ ReadRecords(c)
       \/ Show(c)

Spec == Init /\ [][Next]_vars

-----------------------------------------------------------------------------
Given(c) == {x[2] : x \in names[c]}

Phases == {"idle", "paging", "paged", "asking", "reading", "listed", "refused"}

ClientTypeOK(c) ==
  /\ phase[c] \in Phases
  /\ since[c] \in 0..revision /\ seen[c] \in since[c]..revision
  /\ after[c] \in Nat /\ pages[c] \in Nat
  /\ names[c] \subseteq (1..pages[c]) \X Keys
  /\ \A k \in Given(c) : Rank[k] <= after[c]
  /\ phase[c] = "paging" => Cardinality(Given(c)) = pages[c] * request[c].limit
  /\ found[c] \subseteq Stored
  /\ shown[c] \subseteq Stored \X (Modes \cup {NoMode})

\* The types of the state: no client has been given names beyond the place it asks
\* to go on from, nor waits for another page after one that was not full.
TypeOK ==
  /\ StateTypeOK
  /\ DOMAIN versions = 0..revision /\ versions[revision] = Content
  /\ \A c \in Clients : ClientTypeOK(c)

\* Whatever is written between two pages, they go on in byte order and no name is
\* given twice, whether the names before it, the last one given too, still exist.
IsOrdered(c) == \A x, y \in names[c] : x[1] < y[1] => Rank[x[2]] < Rank[y[2]]
PagesOrdered == \A c \in Clients : IsOrdered(c)

\* Whatever comes and goes between two pages, a name with the prefix that was
\* stored all the while has been given, and no name was given that never was.
StoredAt(n, k) == versions[n].records[k] # {}
IsComplete(c) ==
  LET span == since[c]..seen[c] IN
  /\ \A k \in Given(c) : \E n \in span : StoredAt(n, k)
  /\ phase[c] = "paged" =>
       \A k \in HasPrefix[request[c].prefix] :
         (\A n \in span : StoredAt(n, k)) => k \in Given(c)
PagesComplete == \A c \in Clients : IsComplete(c)

\* A record is never shown with a policy older than itself: whoever sees the
\* records of a write sees its policy, or a later one, although the records and the
\* policies are read in two transactions. All records of the type are shown.
IsFresh(c) ==
  phase[c] = "listed" =>
    LET k == Canonical[request[c].name]
        stored == {r \in versions[seen[c]].records[k] : Selects(request[c].kind, r)}
    IN  \A r \in stored : \E x \in shown[c], n \in seen[c]..revision :
          x[1] = r /\ x[2] = versions[n].modes[<<k, r.kind>>]
ListedFresh == \A c \in Clients : IsFresh(c)
=============================================================================
