# A TLA+ development for dnsuck

dnsuck is an authoritative DNS server that keeps its records in LMDB, answers
over UDP/TCP, DoH, DoT and DoQ, signs one zone on demand, and is managed over a
GraphQL API. This directory holds TLA+ modules that model the parts of it where
order, failure and shared state matter, TLC configurations that check them on
small instances, and TLAPS proofs of most of what they check for every instance.
Paths are
those of the repository, without their leading `src/`; every definition that
models code is listed with its lines in `PROJECT.json` under `map`.

## The system

| Part | Code | State | Operations |
| --- | --- | --- | --- |
| Record inputs and values | `src/dnslogic/records.rs`, `encode`/`decode` in `store.rs` | none | accept an input, expand a template, encode and decode a stored value |
| Record store | `src/dnslogic/store.rs` | LMDB tables `records` and `metadata` (policies, revision), the compiled patterns | add, put, delete, lookup, listings, snapshots |
| Signed zone | `src/dnslogic/dnssec.rs` | one cached catalog with its revision and age | answer a question from a signed zone built on demand |
| Resolver and ordering | `src/dnslogic/resolver.rs` | lb cursors | route a request, order the records of a response |
| Management API | `src/graphql.rs` | none | records, names, add, upsert, delete |
| Configuration and reload | `src/config.rs`, `src/main.rs` | running listeners | start, reload, stop |
| Control directory | `Control` in `src/config.rs` | a directory and a socket in the file system, shared by all servers of a user | bind, drop |
| Transports | `src/transport/` | listeners | bind, serve, stop |
| Client | `cmd/src/` | none | one command or a batch as GraphQL requests |
| Local commands | `src/main.rs` | none | put, record and write, from a process of their own |

API handlers and resolvers run on Tokio's blocking threads and share one `Store`
and one `SignedZone`. They meet in LMDB (one write transaction at a time, any
number of read transactions, each on the version it began on), in the mutex of
the compiled patterns, in the mutex of the cached catalog, and in the read-write
lock of the cursors. A second process (`dnsuckd put`) may write to the same
database. The *revision*, a counter in the metadata table, is how readers learn
that what they cached is out of date. The supervisor of a config-file server is
one task; it owns the listeners and takes reload requests, one at a time, from a
Unix socket. The path of that socket is the same for all servers of a user. A
client of the API sends one request after the other and waits 30 s for each; the
handler of a request it gave up on may go on.

What is hard about it:

* Writers merge a batch into what is stored, name by name, in one transaction.
  The rules of DNS (one TTL per RRset, nothing beside a CNAME) and the ordering
  policies must hold for the merged content, and no error, crash or early return
  may leave half of it, or the transaction, behind.
* Readers cache by revision. Two caches are filled in several steps while writes
  come in between, and lookups on older and newer snapshots replace one cache.
* A response is put together from three read transactions, so the records, the
  policies and the pattern a record came from may belong to different contents.
* A client pages through names that come and go, and sees the records of a name
  and their policies in one answer that is made of two read transactions.
* A request that timed out may still be done, before or after the client's next.
* Several servers make, check, use and remove one directory and one socket, and
  may be killed between any two of these calls.
* A reload stops what runs before it knows that what comes next can run, while
  sockets, signals, listeners and the store change under it.

What makes each part correct:

| Part | Must hold |
| --- | --- |
| Values | what is encoded is decoded unchanged; a repeated write changes no record |
| Store, writers | jobs are atomic and serial; names are consistent; policies belong to RRsets; content never changes under a revision; the transaction always ends |
| Store, readers | a lookup answers from one content; the compiled patterns are those of their revision; every lookup ends |
| Store, listings | pages neither repeat nor skip a name that stays; records are not shown with a policy older than they are |
| Signed zone | the catalog is the content of its revision; answers are not older than their question, nor are their signatures; newer content has a greater serial; the zone never lacks the apex records it is built on; denials are true |
| Ordering | no record is lost, gained or moved out of its RRset; turns are handed out once each |
| Reload | what runs is what was promised, down to the sockets; clients are answered; the server ends when it is told to, and no reload ends it of itself |
| Control directory | the socket at the path is that of the server that is up; only a kill leaves one behind; a server alone can start |
| Client | a run that fails at an item has done all those before it, in order, and none after it; a run ends |

`PROJECT.json` lists under `hazards` the lines where these could break.

## The modules

```
Records ─┬─ StoreState ─┬─ StorePromise ◄─implements─ Store ── Batch
         │              ├─ Listing
         │              ├─ Query ──────┐
         │              ├─ SignedZone ─┤
         │              └─ Ordering ───┤
         └─ Resolution ────────────────┘            Reload    Control

RecordsProofs ─┬─ StoreProofs                      (Store, StorePromise, Batch)
               └─ StateProofs ─┬─ ListingProofs    (Listing)
                  (StoreState, ├─ QueryProofs      (Query)
                   Resolution) ├─ SignedZoneProofs (SignedZone)
                               └─ OrderingProofs   (Ordering)
ConfigProofs                                       (Reload, Control)
```

`MC<module>` gives each specification its small values for TLC.

**Records** is the pure part: `IsAccepted` and `IntoRecord` are
`RecordInput::into_record`; `Merge`, `Fits` and `IsConsistent` are what
`write_records` does to the records of one name and checks about the result;
`Doomed` and `Dropped` are the same for `delete_matching`; `Encode` and `Decode`
are the three formats of a value (`DNS1` wire, tagged, and lines of text from
older versions). A name, a text and RDATA are opaque: parsing, canonical
spelling and pattern matching are constant functions (`Parse`, `Canonical`,
`Matches`), of which nothing is assumed but their types. The records of a name
are a set, since the code removes duplicates before it stores.

**StoreState** is the committed content (`records`, `modes`, `revision`) and the
effect of one whole job (`Take`). Readers are composed with it, because to them
a commit is one step.

**Store** is `write_records`, `delete_matching` and `bump_revision` in steps:
`Submit` (an API handler calls), `Reject` (`decode_inputs` fails, before any
transaction), `Begin` (LMDB's writer lock), then `Write` or `Delete` for each
name on the transaction's private copy, `Refuse` for a name that breaks a rule,
`Commit`, `Overflow` (`checked_add` fails), `Fault` (LMDB refuses anything, at
any point) and `Crash`. `txnDb` and `txnModes` are the transaction's view,
`changed` and `fresh` the local variables that decide the bump and the count.

**StorePromise** is what the callers of the store rely on: every job takes
effect as a whole, at one instant before its answer, or not at all, and is
answered with the right status and count, or loses its answer. `Store` implements
it under `records <- [k \in Keys |-> Contents(db[k])]`, so the encodings are hidden
too.

**Batch** puts the callers on top of `Store`. A client's run (`Start`) is a
sequence of items; each is sent to an API handler, a writer of `Store` (`Send`),
or only reads (`Read`), and its answer makes the client go on or stop (`Receive`).
`Fail` is the end of its 30 s, an error of the connection, or a request that never
got a handler. The handler it leaves goes on (`Handle`), or is dropped while it
waits (`Drop`): `Store`'s own steps, unchanged. `Local` is a `dnsuckd put`,
`record` or `write` beside them. `effects` remembers which items of a run were
committed, in the order of the commits, to compare with what the client reports.

**Resolution** defines the answer of a content: the key that answers for a name
(`Source`), the records made from a pattern (`Materialized`), the names a question
is passed along (`Visits`, a recursive function), and the answer that the whole
chain of aliases makes (`Resolve`).

**Query** is `Store::lookup`: it takes a snapshot (`Ask`) and goes hop by hop
(`Follow`, ended by `Match`, `Missing` or `FailToExpand`). At each hop
`source_in` consults the compiled patterns that all lookups share (`Consult`).

**Listing** is `records` and `names` of the API over `records`, `names` and
`modes` of the store. `Page` begins to ask for names, with a prefix and a page
size, and `GetPage` is one request with the last name as its `after`: a read
transaction that goes through the keys in byte order (`Rank`) until the page is
full. `List` asks for the records of a name and type, `ReadRecords` and `Show` are
the two transactions of the answer. The types, names and sizes that are refused
are among the inputs.

**SignedZone** is `SignedZone::catalog_for`: `Look` is `snapshot_for_query` with the
build for questions that patterns answer, `Lock`, `Reuse`, `Miss` and `Fill` are
`catalog`, whose mutex is held over two reads of the store (`Miss` reads the
revision, `Fill` the snapshot). `TouchesApex` is the guard of the API. A zone is
abstracted to the revision, its serial (`WrappingAdd`, modulo `SerialLimit` for
2^32), the answers and whether denials may be cached.

**Ordering** is `OrderedResponse::send_response` and `Ordering::sort`: `Ask`
takes the looked up answer, `ReadModes` and `ReadSources` are its two further
read transactions, and `sort` then treats one group after the other: `Sort`
(random, geo), or `FindCursor`, `MakeCursor` and `TakeTurn` (lb), which are the
read lock, the write lock and `fetch_add`. `ReadFails` drops the response.

**Reload** is `serve` with `Prepared::new`, `Running::start` and `stop`: one
phase for each await and for each check that something may come between
(loading, the geo check, the warming of the zone, stopping, every single bind,
restoring, replying). Around it, the file is edited, sockets are taken by other
processes and freed, listeners end, Ctrl-C is pressed, the API writes, and
clients ask, stay mute or give up. And the system may refuse the process what it
asks for, at any time and for as long as it likes (`refusing`, `RunOut`): it is out
of descriptors or memory, an address has gone, or nobody reads the standard output.
Then `accept` on the control socket fails and its error ends `serve` (`AcceptFails`,
`request?`), also with no client there, since the call takes a descriptor first and
may be made once more after the last connection; a bind fails, of the candidate
(`FallBack`) or of what ran (`CannotRestore`); and the `println!` after a bind panics
(`CannotReport`). To open the config file or a key may fail at any time
(`PrepareFails`).

**Control** is `Control::bind` and its `Drop`, one action for each file system
call (`Make`, `Check`, `Bind`, `Close`, `Unlink`, `RemoveDir`), for several servers
at once, each of which can be killed at any point. `Close` and `Unlink` act, as
the code does, on whatever is at the path. `Confirm` and `Clear` are the operator
that the README tells to remove a stale socket. `killed` and `obstacle` are
history: who was killed with the socket, and who met another server.

Most modules contain *faulty variants*: operators named and commented as such,
that stand right before the definition they could replace and are what a
plausible bug would make of it. They are used nowhere. Putting one in the place
of its definition must make TLC find the property violated that `PROJECT.json`
names with it under `mutants`, which shows that every property can fail.

## What is checked

`tlc -workers 2 -config X.cfg M` runs a configuration. None disables the
deadlock check.

| Run | Instance | Shows |
| --- | --- | --- |
| `store` | `MCStore.cfg`: one writer, 19 jobs, one name and one pattern, revision ≤ 6 | the rules of the stored content, in every transaction and after every fault and crash; the revision moves with the content; an acknowledged write is stored; the store keeps its promise |
| `batch` | `MCBatch.cfg`: one client with two runs of three conflicting items, two handlers, a local command, revision ≤ 3 | the promise with writers in competition; that the write transaction always ends; that a run did what the client says it did, with late handlers of this run and the last one about, and ends |
| `listing` | `MCListing.cfg`: one client, three names, 7 jobs, revision ≤ 3, page sizes from 0 to one more than the largest, 2 | names are paged through in order, completely and without repeats, whatever is written between pages; records come with a policy of their time or later |
| `query` | `MCQuery.cfg`: two readers, 8 jobs, three names, two overlapping patterns, a chain and a cycle of aliases, revision ≤ 2, 3 hops | lookups on different snapshots that replace each other's patterns all answer what `Resolve` says of their snapshot, and end, in loops of aliases too |
| `query_owner` | `MCQueryOwner.cfg` | finding 2 below |
| `signed_zone` | `MCSignedZone.cfg`: two questions at once, 7 jobs, three of which the API refuses or which change nothing, revision ≤ 2, clock ≤ 3, refresh at age 2, signatures expire at age 3, serials modulo 8 that start just below the wrap | the catalog is that of its revision, answers are fresh in content and signature, serials advance, no build lacks its apex |
| `signed_denial` | `MCSignedZoneDenial.cfg` | finding 1 |
| `ordering` | `MCOrdering.cfg`: two responses, a chain of two made aliases and an address pair, all three policies, revision ≤ 2, two turns per RRset | the membership and the RRsets of a response survive any write between its reads; turns are handed out once each |
| `reload` | `MCReload.cfg`: four configurations, a socket others may take, a system that refuses and relents, two clients | the sockets are those of what runs, failed reloads go back, the server ends only of one of four causes, every client is answered, gives up, or the server ends |
| `control` | `MCControl.cfg`: three servers | one server has the socket; only a kill leaves one; a start fails only for others |
| `reload_ctrlc`, `reload_geo` | `MCReloadCtrlC.cfg`, `MCReloadGeo.cfg` | findings 3 and 4 |

**Bounds.** `MaxRevision` bounds how many commits there are in a behaviour. In
`Store` it is the code's own limit, `u64::MAX`, made small: at the bound
`Overflow` fires as it would there; six commits leave room for any job to follow
any other several times over. In the readers' modules no write comes after it. Two
commits are enough there because what can go wrong needs one write between two
reads, and a second one to bring back or take away what the first had changed; the
overlap of two readers on three versions includes every order of older and newer.
`Listing` has three, one for each gap between four reads. Names: one ordinary and
one pattern that matches it suffice for the rules of a name, which are per name;
`Query` has two patterns, to make a priority between them, and three names, to make
cycles and a chain, and `Listing` three, to have a page between two others. `MaxHops` is 16 in the code and
3 here: there are successful chains of one, two and three names, the most that is
allowed, and cycles, which exceed it. `MaxLimit`, 500 in the
code, is 2, and a size above it is asked for. `MaxTime`, `RefreshAge` and
`SignatureLife` keep only the order of the code's one hour and seven days.
`SerialLimit` is 8, so that the wrap falls between two revisions and half the
range is more than all of them. `MaxTurns` lets two responses make a cursor at
once and one come after them. In `Reload`, one configuration names a socket twice,
so that a bind fails half way without any help, one has another database, and all
of them share sockets with the others. In `Control`, one server can be up while
two others get in each other's way. Responders and askers are interchangeable and
do not occur in temporal properties, so they are symmetric; where liveness is
checked there is no symmetry.

**Fairness.** In `Batch`, weak fairness of `HandlerWork`: a thread that has the
transaction waits for nothing; and of `ClientStep`: a client's timer runs out.
Nothing makes a client start, a fault happen, or a waiting handler get the lock.
In `Query`, weak fairness of `Hop` for each reader: its thread waits only for the
mutex of the patterns, held within a step. In `Reload`, weak fairness of
`Supervise`: each await of `serve` has a timeout or waits for work of its own
process. With a client waiting, `accept` is tried, and succeeds or fails; with none,
it need not be. Clients, signals, edits, other processes and the system owe
nothing. The other
modules state safety alone: what they describe is made of reads that no client
has to make, and of servers that may be killed.

## Findings

1. `DenialsTrue` (`signed_zone`, `dnssec.rs:76`). The lookup that decides whether
   patterns answer, and the catalog that is then used, are two snapshots. If the
   name is stored when the first is taken and then moves to a pattern, the
   shared catalog, which has no made names, denies a name that was served by every
   content the server ever had. `store.rs` says of `snapshot_for_query` that
   both come from "the same LMDB snapshot".
2. `OwnersReplaced` (`store.rs:322`). A question for the literal name of a
   pattern, `*.t.`, is answered with the stored records and their placeholder
   owner, the root; the documentation says that it is "replaced by the queried
   name in responses".
3. `InterruptStops` (`config.rs:356`). The future that waits for Ctrl-C is made
   anew in every round of the select. A signal that comes while a reload request
   is worked on is swallowed.
4. `GeoOrdered` (`config.rs:275`). A reload checks that no geo policy is stored
   while the old API still takes them. A policy written in that window leaves a
   server without an MMDB on a store it would refuse to start on.

## What is proved

With TLAPS, for all values of the constants under the named assumptions of the
modules: every type invariant, every safety invariant and every action property
that a passing run checks (`SerialsAdvance` under a condition on what is stored, see
below), and that `Store` and `Batch` implement `StorePromise`. `PROJECT.json` lists
the theorems with the property each one states. The assumptions say what the code guarantees of its parsers and types
(`NamesAssumption`, `DataAssumption`: the types of the constant functions; ordinary
names and patterns differ; a pseudo type cannot be stored), what callers may ask
(`JobsAssumption`, `AskedAssumption`, `BatchAssumption`), what older versions left
(`LegacyAssumption`), that values that stand for nothing are no others
(`AbsentAssumption`, `WriterAssumption`, `ServersAssumption`), that byte order is
one (`ListingAssumption`, `ResolutionAssumption`), that the records with a country
are known (`OrderingAssumption`), which age is the greater and what a server starts on
(`ZoneAssumption`; `CanStart` is what `SignedZone::build` and `write_records` demand
of it), and what a configuration is (`ConfigAssumption`). TLC evaluates each of them
on the instances of the runs.

**Values** (`RecordsProofs`). `CodecRoundTrip`: `Decode(Encode(recs)) = recs` for
every set of stored records, by the three cases of `encode`. `MergeIdempotent`: a
batch merged twice is a batch merged once, so that a client may repeat a write
whose answer it lost.

**Store** (`StoreProofs`). `TypeCorrect`, `NamesStayConsistent`,
`PoliciesStayOwned`, `TransactionsStaySound` are the invariants of the run `store`,
`RevisionGuardsReaders` is `RevisionNamesContent`, on which both caches rest. The
inductive invariant is
`Inv == TypeOK /\ NamesConsistent /\ PoliciesOwned /\ TransactionSound /\ Finite`.
What is committed is a copy of the transaction's view, so the rules must hold of
that view (`TransactionSound`), and the type of the view makes its values ones
that `Decode` reads back. `TransactionSound` also says that an unchanged
transaction equals what is committed, which is what makes a commit without a bump
harmless, and that the holder of the lock still waits with a well-formed job, so
that `Merge` is only applied to records. `Finite` (the records of a name are a
finite set) is needed because the count in an answer is a cardinality. There is
one lemma for each action; those that end a transaction share `DropTxnInv`, and
`Write` and `Delete` share `StageSound`.

**Promise** (`StoreProofs`). `StoreKeepsPromise` is `Spec => KeepsPromise`: the
detailed store implements the abstract one. It needs to know how far a transaction
has come, which is `Progress`: the names in `todo` are as they are committed, the
others of the job are as the whole job leaves them (`IsDone`), `changed` says
whether there is a difference, and `fresh` is that difference, by which the answer
counts. `StageProgress` does one name for `Write` and `Delete` alike. At a commit
`todo` is empty, so the view is the effect of the whole job (`CommitTakes`); a
refused name is still untouched, so the whole job is refused; all else is a
failure, a crash, or invisible. The lemmas `Same...` say that the definitions seen
through the mapping are the store's own. `WritesAreStored` is
`AcknowledgedStored`, from `Progress` and `Unanswered` (who waits has not been
answered: an answer is for the job it answers).

**Clients** (`StoreProofs`). `ClientsStayInStep`, `RunsStayInOrder` and
`BatchesKeepPromise`, for any number of clients, runs, handlers and local commands.
A handler that a client has given up can still commit, so the order of the effects
is not the order of the requests by construction. The invariant `RunsKept` adds
what makes it so: all handlers that still work on a client's run (`WorksFor`) work
on the item the run is at, there is one of them at most, that item has not taken
effect while it works, and an answered handler said `ok` exactly if the item did
(`HandlerKept`, `WorkKept`); before that item the effects are those of the items
that write, ascending (`ClientKept`). A run that failed sends nothing more. What a
late handler commits after the client has begun its next run counts for no run
(`Start`): of that the theorem says nothing, see the plan. The steps of the store in
between are `Store`'s own, so `Inv` and `Progress` carry over; what is new, `Drop`,
is `Lose` of `StorePromise`.

**Resolution** (`StateProofs`). What all readers rest on. A finite set under a
strict order has its sorted sequence (`SortedExists`, by the well-foundedness of
the naturals on the first length for which it fails), it lists exactly the set
(`SortedOnto`), and `Precedes` is such an order (`InOrderSorts`). The recursive
function `Visits` exists (`WalksExist`: a function for `n` steps extends to one for
`n + 1`, and the first `n` without one is impossible), so it satisfies its own
equation (`VisitsStep`); from it the names on a chain are keys, none but the last
is spoilt, and there are at most `MaxHops + 1` (`ChainEnds`, `ChainShape`). What
jobs do to the committed content (`TakeType`, `WriteKeepsStatic`, `TakeFinite`) and
what a lookup can find (`SourceType`, `MaterializedType`, `ValuesFinite`) complete it.

**Lookup** (`QueryProofs`). `LookupsAnswerSnapshots` is `AnswersSnapshot`: the hops
of `lookup_in`, between which other lookups replace the compiled patterns and
writers commit, compute what `Resolve` defines on the snapshot. The invariant
`OnItsWay` says that after `h` hops the key is name `h + 1` of `Visits`, and that
the answers and made records are those of the first `h`. `PatternsStayCoherent` is
`PatternsCoherent`: each compiled list is that of its revision (`PatternsKept`), so
that the first pattern in it which matches is the `Source` of the snapshot
(`FirstHit`). `VersionsKept` ties revisions to contents.

**Listings** (`ListingProofs`). `PagesStayOrdered`, `PagesAreComplete` and
`ListingsFresh` for any names, limits and number of clients. A page is a prefix, in
byte order, of what is left (`PageIsPrefix`), and one that is not full is all of it
(`ShortPageIsLast`); both rest on cardinalities, and on the least element of a set
of ranks. The inductive invariant adds that whatever was stored throughout and is
not beyond the last name given has been given.

**Ordering** (`OrderingProofs`). `OrderingKeepsMembership` is `MembershipKept`: the
invariant names the rearrangement (`IsArrangement`: an injection from positions to
positions that keeps owner and type), and each of the three policies composes it
with a permutation of one group. That group lies in one owner and one type because
`GroupOf` is evaluated on the sources the response read once (`GroupsKept`), not on
what is stored when it is sorted. `EveryTurnIsTaken` is `TurnsTaken`: no two RRsets
share a counter, a counter is the number of turns taken at it, and a response that
looked a cursor up has this one or none (`HandleKept`), because a cursor that was
made is never replaced (`Steady`), which is what the second look under the write
lock is for.

**Signed zone** (`SignedZoneProofs`). `CatalogStaysCoherent`, `AnswersStayFresh`,
`SignaturesStayCurrent` and `ApexStays`. The invariant says that the
history of contents ends with the present one, that the catalog is of a revision
that was, that the mutex has one holder, who alone is between reading the revision
and filling the catalog (`LockKept`), and that the apex has its two types, of which
`WriteKeepsApex` shows that no job the API lets through takes the last record. That is all `ApexKept` says: what the signer itself refuses
(`upsert_mut`) is not in the model.
`SerialsGoUp` is `Spec => [](SerialsStored => SerialsAdvance)`: every served zone has
a serial that was stored in an SOA of its revision, plus the revision, wrapped
(`IsZone`); so it advances, in the arithmetic of RFC 1982, in every state up to
which nobody has stored a lower serial than there was and the sum of serial and
revision has gone less than half round. The hypothesis is necessary: the code takes
any SOA an API client stores. The instance of `signed_zone` satisfies it, across a
wrap.

**Reload** (`ConfigProofs`). `SocketsAreThoseThatRun`, `RejectedReloadsKeep` and
`ServerEndsOnlyProvoked`, for any configurations, also ones with a socket twice.
While sockets are bound one by one the process has exactly those before the next
(`BoundTo`), no two the same; so a configuration that has run can bind all its
sockets again unless another process has one or the system refuses it. The server
therefore ends only with a Ctrl-C it can see, with a listener that ended, with a
system that refuses it something at that moment (a connection on the control socket
included), or with another process at a socket of what ran. These are causes the
code has, each with an exit of its own; the theorem excludes a fifth, that a
candidate, bound however far, or the reloads before it bring the server down.

**Control** (`ConfigProofs`). `OneServerReloadable`, `OnlyKillLeavesSocket` and
`AloneServerStarts`, for any number of servers. Added to the properties: two
servers that are up know of each other (`Met`), and a directory that vanished under
a server was removed by one it knows of (`NotAlone`).

The theorems named `TypeCorrect` (`ControlTypeCorrect`) are the type invariants.

**Only model-checked.** The liveness properties (`LookupsEnd`, `TransactionEnds`,
`BatchesEnd`, `Answered`): what fairness gives rests on `ENABLED`, which is out of
the prover's reach. And the four properties that the code violates,
which are findings and not theorems.

## What is abstracted

* Names, texts and RDATA are opaque, so parsing, regular expressions, the
  expansion of a template into text and the wire format are given functions.
  That a stored wire record can be read back is part of the model; how its bytes
  look is not.
* A set has no order. Where the order of records matters (`Ordering`) the stored
  duplicates come in one fixed order.
* Several processes writing to one database are writers like any other: LMDB's
  lock is between processes. `Crash` ends all of them at once.
* `Query`, `SignedZone` and `Ordering` take commits as atomic, which `Store` is
  proved to provide. `SignedZone` and `Ordering` take a lookup as `Resolve` on
  one content, which `Query` is proved to provide.
* `Restart` in `Ordering` waits for the responses to end. Those that a reload
  overtakes keep the old cursors, and nothing relates them to the new ones.
* The bind of a socket fails because someone has it, or because the system refuses
  it then (`refusing`), whatever the reason. All refusals are one flag: there is no
  descriptor limit that is reached, and what one call is refused every call is.
* In `Reload`, a listener ends by itself only once all of its configuration are up,
  so the cleanup of a failed start meets none that failed; `stop` fails only for a
  listener that has ended; and `ctrl_c` yields the signal, never an error.
* A value in the format of lines (`Text`, from older versions) is a set with one
  TTL. The code reads a list, in which a line could be there twice or with another
  TTL. `LegacyAssumption` leaves both out: nothing in the repository shows an older
  version that wrote them. It matters to `add`, which takes the number of records
  before it removed duplicates from the number after (`store.rs:158`): over a doubled
  line it would count one record too few, and if that makes it none, take the
  batch for no change and store nothing of it at that name.
* What the API refuses before it opens a transaction is one refusal, for whichever
  reason (`IsWellFormed`, `Reject`): a name or a record that does not parse stands
  for a `recordType` that is none or is missing as well. Two refusals are where the
  state they look at is: `geo` without an MMDB in `Reload` (`WritePolicy`), and the
  guard of the apex in `SignedZone` (`TouchesApex`). The jobs of `Store` pass both.

## What is not modelled

* The I/O of the transports (hickory and actix), TLS, and key and certificate
  files: no state of the program's own. Their start and stop are in `Reload`.
* `install.sh`, `doctor.sh`, the build script and the development scripts.
* The text of the config file and of the command line: parsing.
* The local commands in the signed zone. `Batch` has them as writers of the store;
  they do not pass the guard of the apex, and `SignedZone` has only what the API
  lets through.
* What the signer refuses: hickory may reject a record while the zone is built
  (`dnssec.rs:118`), which fails the build although the apex is there, and it
  computes the SOA minimum. `Zone` keeps the records, not their signatures.
* Two templates of one name may expand to equal records; the model's answers are
  sets, and the code's may list both.
* The rules of HTTP (methods, content types, sizes of bodies) in `doh.rs`: each
  request is decided by itself, in one expression.

## Plan

1. *Repeats*: a failed batch that is run again while the handler of its late item
   still waits for the write transaction. `MergeIdempotent` covers a repeat that
   comes after it.
2. *Refusals of the signer*: a record that the API stores and the signer rejects
   turns every shared answer into an error until it is removed.
3. Proofs: one theorem that `Query` implements a lookup in one step, and that the
   readers which take a lookup as `Resolve` could be composed with it; and one that
   `SerialsStored` follows from what the jobs may store.
