------------------------------- MODULE Records -------------------------------
(***************************************************************************)
(* Records, RRsets and stored values of dnsuck: what a submitted record    *)
(* becomes (records.rs), what a batch does to the records of one owner     *)
(* name, and the three formats of a stored LMDB value (store.rs).          *)
(*                                                                         *)
(* Names, texts and RDATA are opaque values. Parsing is given by constant  *)
(* functions, so that nothing here depends on how a name is spelled. The   *)
(* records of a name are a set: the order of a list is dealt with where    *)
(* records are ordered, and the code removes duplicates before it stores.  *)
(***************************************************************************)
EXTENDS Naturals, Sequences, FiniteSets

CONSTANTS
  Owners,        \* canonical ordinary names
  Patterns,      \* canonical names with a '*' label or a parenthesised regex
  Spellings,     \* names as clients write them
  Canonical,     \* the canonical form of a spelling, or Invalid
  Captures,      \* how many capture groups a pattern has
  Kinds,         \* record types that can be stored, by name
  Pseudo,        \* query and pseudo types, which cannot (ANY, AXFR, OPT, ...)
  TTLs,
  Texts,         \* RDATA as submitted, text or base64
  RData,         \* RDATA
  Parse,         \* the RDATA a text denotes for a type, or Invalid
  Placeholders,  \* the numbers in the {n} placeholders of a text
  Family,        \* A or AAAA, for the RDATA that are addresses
  Invalid, NoTemplate, NullData, NoMode, Absent

Keys == Owners \cup Patterns
Modes == {"lb", "geo", "random"}

(***************************************************************************)
(* StoredRecord: a template keeps the submitted text and no RDATA.         *)
(***************************************************************************)
Static   == [kind : Kinds, ttl : TTLs, data : RData, template : {NoTemplate}]
Template == [kind : Kinds, ttl : TTLs, data : {NullData}, template : Texts]
Stored   == Static \cup Template

(***************************************************************************)
(* RecordInput.                                                            *)
(***************************************************************************)
Inputs == [name : Spellings, kind : Kinds \cup Pseudo, ttl : TTLs, text : Texts]

ASSUME NamesAssumption ==
  /\ Owners \cap Patterns = {}
  /\ Canonical \in [Spellings -> Keys \cup {Invalid}]
  /\ Invalid \notin Keys
  /\ Captures \in [Patterns -> Nat]

ASSUME DataAssumption ==
  /\ Parse \in [Kinds \X Texts -> RData \cup {Invalid}]
  /\ Invalid \notin RData
  /\ Placeholders \in [Texts -> SUBSET Nat]
  /\ Pseudo \cap Kinds = {}
  /\ NoTemplate \notin Texts /\ NoMode \notin Modes
  /\ DOMAIN Family \subseteq RData
  /\ \A ip \in DOMAIN Family : Family[ip] \in Kinds \cap {"A", "AAAA"}

IsTemplate(input) ==
  Placeholders[input.text] # {} /\ Canonical[input.name] \in Patterns

\* A text that is no template must parse now; a template may only name
\* capture groups that its pattern has.
IsAccepted(input) ==
  /\ Canonical[input.name] # Invalid
  /\ input.kind \in Kinds
  /\ IF IsTemplate(input)
     THEN \A i \in Placeholders[input.text] : i < Captures[Canonical[input.name]]
     ELSE Parse[<<input.kind, input.text>>] # Invalid

IntoRecord(input) ==
  IF IsTemplate(input)
  THEN [kind |-> input.kind, ttl |-> input.ttl,
        data |-> NullData, template |-> input.text]
  ELSE [kind |-> input.kind, ttl |-> input.ttl,
        data |-> Parse[<<input.kind, input.text>>], template |-> NoTemplate]

\* decode_inputs: one bad record refuses the whole batch.
IsDecodable(batch) == \A i \in DOMAIN batch : IsAccepted(batch[i])

\* The batch grouped by canonical owner name.
BatchKeys(batch) == {Canonical[batch[i].name] : i \in DOMAIN batch}
Incoming(batch, k) ==
  {IntoRecord(batch[i]) : i \in {j \in DOMAIN batch : Canonical[batch[j].name] = k}}

-----------------------------------------------------------------------------
(***************************************************************************)
(* RRsets.                                                                 *)
(***************************************************************************)
KindsOf(recs) == {r.kind : r \in recs}

\* put: the records of every type in the batch are replaced.
Retained(old, incoming) == {r \in old : r.kind \notin KindsOf(incoming)}

\* Faulty variant: duplicates are removed before the TTLs are checked, and the
\* equality of records leaves the TTL out.
MergeIgnoringTTL(old, incoming, replace) ==
  LET kept == IF replace THEN Retained(old, incoming) ELSE old IN
  kept \cup {r \in incoming : \A s \in kept :
                s.kind # r.kind \/ s.data # r.data \/ s.template # r.template}

Merge(old, incoming, replace) ==
  (IF replace THEN Retained(old, incoming) ELSE old) \cup incoming

\* All records of a type at a name have one TTL. The code checks this before it
\* removes duplicates, so records that differ in their TTL alone are refused.
UniformTTL(recs) == \A r, s \in recs : r.kind = s.kind => r.ttl = s.ttl

SoleCname(recs) ==
  \A c \in recs : c.kind = "CNAME" =>
    \A r \in recs : r = c \/ r.kind \in {"RRSIG", "NSEC"}

IsConsistent(recs) == UniformTTL(recs) /\ SoleCname(recs)

\* Geo ordering needs an address to look up.
ModeFits(mode, incoming) == mode = "geo" => KindsOf(incoming) \subseteq {"A", "AAAA"}

\* Faulty variant: the new records are checked on their own.
FitsAlone(old, incoming, replace, mode) ==
  ModeFits(mode, incoming) /\ IsConsistent(incoming)

Fits(old, incoming, replace, mode) ==
  ModeFits(mode, incoming) /\ IsConsistent(Merge(old, incoming, replace))

-----------------------------------------------------------------------------
(***************************************************************************)
(* Values in LMDB. DNS1 holds the records in wire form; DNS2, used as soon *)
(* as one record is a template, holds each one tagged; untagged text is    *)
(* the format of old databases, one address a line, which is only read.    *)
(***************************************************************************)
Wire == [kind : Kinds, ttl : TTLs, data : RData]
Line == [ttl : TTLs, ip : DOMAIN Family]
TaggedWire     == [tag : {"Wire"}, wire : Wire]
TaggedTemplate == [tag : {"Template"}, kind : Kinds, ttl : TTLs, text : Texts]

Text  == [format : {"text"}, lines : SUBSET Line]
Value == [format : {"DNS1"}, wires : SUBSET Wire]
    \cup [format : {"DNS2"}, values : SUBSET (TaggedWire \cup TaggedTemplate)]
    \cup Text

ToWire(r) == [kind |-> r.kind, ttl |-> r.ttl, data |-> r.data]
FromWire(w) ==
  [kind |-> w.kind, ttl |-> w.ttl, data |-> w.data, template |-> NoTemplate]

ToTagged(r) ==
  IF r.template = NoTemplate
  THEN [tag |-> "Wire", wire |-> ToWire(r)]
  ELSE [tag |-> "Template", kind |-> r.kind, ttl |-> r.ttl, text |-> r.template]
FromTagged(v) ==
  IF v.tag = "Wire"
  THEN FromWire(v.wire)
  ELSE [kind |-> v.kind, ttl |-> v.ttl, data |-> NullData, template |-> v.text]

FromLine(l) ==
  [kind |-> Family[l.ip], ttl |-> l.ttl, data |-> l.ip, template |-> NoTemplate]

\* Faulty variant: DNS2 only where every record is a template.
EncodeMixedAsWire(recs) ==
  IF \A r \in recs : r.template # NoTemplate
  THEN [format |-> "DNS2", values |-> {ToTagged(r) : r \in recs}]
  ELSE [format |-> "DNS1", wires |-> {ToWire(r) : r \in recs}]

Encode(recs) ==
  IF \E r \in recs : r.template # NoTemplate
  THEN [format |-> "DNS2", values |-> {ToTagged(r) : r \in recs}]
  ELSE [format |-> "DNS1", wires |-> {ToWire(r) : r \in recs}]

Decode(value) ==
  IF value.format = "DNS1" THEN {FromWire(w) : w \in value.wires}
  ELSE IF value.format = "DNS2" THEN {FromTagged(v) : v \in value.values}
  ELSE {FromLine(l) : l \in value.lines}

\* What a key holds; a key without a value holds nothing.
Contents(value) == IF value = Absent THEN {} ELSE Decode(value)

ASSUME AbsentAssumption == Absent \notin Value

-----------------------------------------------------------------------------
(***************************************************************************)
(* The jobs a client can submit.                                           *)
(***************************************************************************)
CONSTANTS AnyKind, NoData

\* add and upsert, with or without an ordering policy.
WriteJob == [op : {"write"}, batch : Seq(Inputs), replace : BOOLEAN,
             mode : Modes \cup {NoMode}]

\* delete, of a name, of one of its types, or of one record.
DeleteJob == [op : {"delete"}, name : Spellings, kind : Kinds \cup {AnyKind},
              data : Stored \cup {NoData}]

\* What is refused before any transaction, for whichever reason: here, what does not
\* parse. (The checks on a geo policy and on the apex are in Reload and SignedZone.)
IsWellFormed(job) ==
  IF job.op = "write" THEN IsDecodable(job.batch) ELSE Canonical[job.name] # Invalid

KeysOf(job) ==
  IF job.op = "write" THEN BatchKeys(job.batch) ELSE {Canonical[job.name]}

\* The records at the name that a deletion considers, and those it removes. A
\* record is identified by its type, its data and its template, not by its TTL.
Considered(recs, job) == {r \in recs : job.kind \in {AnyKind, r.kind}}
Doomed(recs, job) ==
  {r \in Considered(recs, job) :
     job.data # NoData => r.data = job.data.data /\ r.template = job.data.template}

\* Faulty variant: looks for what is left among the records before the deletion.
DroppedTooLate(recs, job) == KindsOf(Considered(recs, job)) \ KindsOf(recs)

\* The types whose last record a deletion removes, and their policies with it.
Dropped(recs, job) ==
  KindsOf(Considered(recs, job)) \ KindsOf(recs \ Doomed(recs, job))

-----------------------------------------------------------------------------
(***************************************************************************)
(* The interface of the store: who submits jobs, and what they may hear.   *)
(***************************************************************************)
CONSTANTS
  Writers,      \* API handlers, each with one job at a time
  Jobs,         \* the jobs they may submit
  Idle,
  Legacy,       \* values an old database may hold for an ordinary name
  MaxRevision   \* the largest revision; u64::MAX in the code

ASSUME JobsAssumption ==
  /\ Jobs \subseteq WriteJob \cup DeleteJob
  /\ Idle \notin Jobs
  /\ MaxRevision \in Nat

\* Old databases hold non-empty RRsets of one TTL each, and no line of one twice.
ASSUME LegacyAssumption ==
  /\ Legacy \subseteq Text
  /\ \A v \in Legacy : Decode(v) # {} /\ IsFiniteSet(Decode(v)) /\ UniformTTL(Decode(v))

RRsets == Keys \X Kinds
Statuses == {"none", "ok", "refused", "failed", "lost"}
Replies == [status : Statuses, count : Nat]
NoReply == [status |-> "none", count |-> 0]
Replied(status) == [status |-> status, count |-> 0]
=============================================================================
