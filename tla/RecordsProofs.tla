---------------------------- MODULE RecordsProofs ----------------------------
(***************************************************************************)
(* What the operators of module Records return, preserve and bound.        *)
(***************************************************************************)
EXTENDS Records, FiniteSetTheorems, TLAPS

(***************************************************************************)
(* decode_inputs: a record that is accepted is one that can be stored, and *)
(* belongs under the canonical form of its name.                           *)
(***************************************************************************)
LEMMA IntoRecordType ==
  ASSUME NEW input \in Inputs, IsAccepted(input)
  PROVE  IntoRecord(input) \in Stored /\ Canonical[input.name] \in Keys
<1>1. Canonical[input.name] \in Keys
  BY NamesAssumption DEF IsAccepted, Inputs
<1>2. CASE IsTemplate(input)
  <2>1. IntoRecord(input) \in Template
    BY <1>2 DEF IntoRecord, IsAccepted, Inputs, Template
  <2> QED BY <1>1, <2>1 DEF Stored
<1>3. CASE ~IsTemplate(input)
  <2>1. Parse[<<input.kind, input.text>>] \in RData
    BY <1>3, DataAssumption DEF IsAccepted, Inputs
  <2>2. IntoRecord(input) \in Static
    BY <1>3, <2>1 DEF IntoRecord, IsAccepted, Inputs, Static
  <2> QED BY <1>1, <2>2 DEF Stored
<1> QED BY <1>2, <1>3

(***************************************************************************)
(* The batch of a decodable write job, grouped by name: finitely many      *)
(* records that can be stored, and at least one for each name of the batch.*)
(***************************************************************************)
LEMMA IncomingType ==
  ASSUME NEW batch \in Seq(Inputs), IsDecodable(batch), NEW k
  PROVE  /\ Incoming(batch, k) \subseteq Stored
         /\ IsFiniteSet(Incoming(batch, k))
         /\ BatchKeys(batch) \subseteq Keys
         /\ k \in BatchKeys(batch) => Incoming(batch, k) # {}
<1> DEFINE Of(n) == {j \in DOMAIN batch : Canonical[batch[j].name] = n}
<1>1. \A i \in DOMAIN batch : batch[i] \in Inputs /\ IsAccepted(batch[i])
  BY DEF IsDecodable
<1>2. \A i \in DOMAIN batch :
        IntoRecord(batch[i]) \in Stored /\ Canonical[batch[i].name] \in Keys
  BY <1>1, IntoRecordType
<1>3. Incoming(batch, k) = {IntoRecord(batch[i]) : i \in Of(k)}
  BY DEF Incoming
<1>4. IsFiniteSet(Incoming(batch, k))
  <2>1. DOMAIN batch = 1..Len(batch) /\ Len(batch) \in Nat
    OBVIOUS
  <2>2. IsFiniteSet(DOMAIN batch)
    BY <2>1, FS_Interval
  <2>3. IsFiniteSet(Of(k))
    BY <2>2, FS_Subset, Of(k) \subseteq DOMAIN batch
  <2>4. IsFiniteSet({IntoRecord(batch[i]) : i \in Of(k)})
    <3> DEFINE f == [i \in Of(k) |-> IntoRecord(batch[i])]
    <3>1. f \in Surjection(Of(k), {IntoRecord(batch[i]) : i \in Of(k)})
      BY DEF Surjection
    <3> QED BY <2>3, <3>1, FS_Surjection
  <2> QED BY <2>4, <1>3
<1> QED BY <1>2, <1>3, <1>4 DEF BatchKeys

-----------------------------------------------------------------------------
(***************************************************************************)
(* encode and decode in store.rs lose nothing: what is read back from a    *)
(* stored value is what was stored, templates and their types included,    *)
(* whichever format the value was given.                                   *)
(***************************************************************************)
LEMMA WireRoundTrip ==
  ASSUME NEW r \in Static
  PROVE  ToWire(r) \in Wire /\ FromWire(ToWire(r)) = r
BY DEF Static, ToWire, FromWire, Wire

\* One tagged value of the DNS2 format: a record in wire form, or a template.
LEMMA TaggedRoundTrip ==
  ASSUME NEW r \in Stored
  PROVE  /\ ToTagged(r) \in TaggedWire \cup TaggedTemplate
         /\ FromTagged(ToTagged(r)) = r
<1>1. CASE r.template = NoTemplate
  <2>1. r \in Static
    BY <1>1, DataAssumption DEF Stored, Template, Static
  <2>2. ToTagged(r) = [tag |-> "Wire", wire |-> ToWire(r)]
    BY <1>1 DEF ToTagged
  <2>3. ToTagged(r) \in TaggedWire
    BY <2>1, <2>2, WireRoundTrip DEF TaggedWire
  <2>4. FromTagged(ToTagged(r)) = FromWire(ToWire(r))
    BY <2>2 DEF FromTagged
  <2> QED BY <2>1, <2>3, <2>4, WireRoundTrip
<1>2. CASE r.template # NoTemplate
  <2>1. r \in Template
    BY <1>2 DEF Stored, Static
  <2>2. ToTagged(r) =
          [tag |-> "Template", kind |-> r.kind, ttl |-> r.ttl, text |-> r.template]
    BY <1>2 DEF ToTagged
  <2>3. ToTagged(r) \in TaggedTemplate
    BY <2>1, <2>2 DEF TaggedTemplate, Template
  <2>4. FromTagged(ToTagged(r)) = r
    BY <2>1, <2>2 DEF FromTagged, Template
  <2> QED BY <2>3, <2>4
<1> QED BY <1>1, <1>2

\* encode and decode are inverse on whatever a batch can store at a name.
THEOREM CodecRoundTrip ==
  ASSUME NEW recs \in SUBSET Stored
  PROVE  Encode(recs) \in Value /\ Decode(Encode(recs)) = recs
<1>1. CASE \E r \in recs : r.template # NoTemplate
  <2> DEFINE vs == {ToTagged(r) : r \in recs}
  <2>1. Encode(recs) = [format |-> "DNS2", values |-> vs]
    BY <1>1 DEF Encode
  <2>2. vs \subseteq TaggedWire \cup TaggedTemplate
    BY TaggedRoundTrip
  <2>3. {FromTagged(v) : v \in vs} = recs
    BY TaggedRoundTrip
  <2>4. Decode(Encode(recs)) = {FromTagged(v) : v \in vs}
    <3> HIDE DEF vs
    <3> QED BY <2>1 DEF Decode
  <2>5. Encode(recs) \in Value
    <3> HIDE DEF vs
    <3> QED BY <2>1, <2>2 DEF Value
  <2> QED BY <2>3, <2>4, <2>5
<1>2. CASE \A r \in recs : r.template = NoTemplate
  <2> DEFINE ws == {ToWire(r) : r \in recs}
  <2>0. recs \subseteq Static
    BY <1>2, DataAssumption DEF Stored, Template
  <2>1. Encode(recs) = [format |-> "DNS1", wires |-> ws]
    BY <1>2 DEF Encode
  <2>2. ws \subseteq Wire
    BY <2>0, WireRoundTrip
  <2>3. {FromWire(w) : w \in ws} = recs
    BY <2>0, WireRoundTrip
  <2>4. Decode(Encode(recs)) = {FromWire(w) : w \in ws}
    <3> HIDE DEF ws
    <3> QED BY <2>1 DEF Decode
  <2>5. Encode(recs) \in Value
    <3> HIDE DEF ws
    <3> QED BY <2>1, <2>2 DEF Value
  <2> QED BY <2>3, <2>4, <2>5
<1> QED BY <1>1, <1>2

\* A stored value is never mistaken for a missing one.
LEMMA ContentsOfEncode ==
  ASSUME NEW recs \in SUBSET Stored
  PROVE  Encode(recs) # Absent /\ Contents(Encode(recs)) = recs
<1>1. Encode(recs) # Absent
  BY CodecRoundTrip, AbsentAssumption
<1> QED BY <1>1, CodecRoundTrip DEF Contents

\* What any stored value holds can be stored again, the old text format's too.
LEMMA DecodeType ==
  ASSUME NEW v \in Value
  PROVE  Decode(v) \subseteq Stored
<1>1. CASE v \in [format : {"DNS1"}, wires : SUBSET Wire]
  <2>1. Decode(v) = {FromWire(w) : w \in v.wires}
    BY <1>1 DEF Decode
  <2>2. \A w \in Wire : FromWire(w) \in Static
    BY DEF Wire, FromWire, Static
  <2> QED BY <1>1, <2>1, <2>2 DEF Stored
<1>2. CASE v \in [format : {"DNS2"}, values : SUBSET (TaggedWire \cup TaggedTemplate)]
  <2>1. Decode(v) = {FromTagged(u) : u \in v.values}
    BY <1>2 DEF Decode
  <2>2. \A u \in TaggedWire : FromTagged(u) \in Static
    BY DEF TaggedWire, Wire, FromTagged, FromWire, Static
  <2>3. \A u \in TaggedTemplate : FromTagged(u) \in Template
    BY DEF TaggedTemplate, FromTagged, Template
  <2> QED BY <1>2, <2>1, <2>2, <2>3 DEF Stored
<1>3. CASE v \in Text
  <2>1. Decode(v) = {FromLine(l) : l \in v.lines}
    BY <1>3 DEF Decode, Text
  <2>2. \A l \in Line : FromLine(l) \in Static
    BY DataAssumption DEF Line, FromLine, Static
  <2> QED BY <1>3, <2>1, <2>2 DEF Stored, Text
<1> QED BY <1>1, <1>2, <1>3 DEF Value

\* A key holds records that can be stored, or nothing.
LEMMA ContentsType ==
  ASSUME NEW v \in Value \cup {Absent}
  PROVE  Contents(v) \subseteq Stored
BY DecodeType DEF Contents

-----------------------------------------------------------------------------
(***************************************************************************)
(* Deleting records cannot break the rules of a name, whatever is deleted. *)
(***************************************************************************)
LEMMA ConsistentSubset ==
  ASSUME NEW recs, NEW sub \in SUBSET recs, IsConsistent(recs)
  PROVE  IsConsistent(sub)
BY DEF IsConsistent, UniformTTL, SoleCname

(***************************************************************************)
(* A write that is repeated because its answer was lost changes no record. *)
(***************************************************************************)
THEOREM MergeIdempotent ==
  ASSUME NEW old, NEW incoming, NEW replace \in BOOLEAN
  PROVE  Merge(Merge(old, incoming, replace), incoming, replace)
           = Merge(old, incoming, replace)
<1>1. CASE replace
  BY <1>1 DEF Merge, Retained, KindsOf
<1>2. CASE ~replace
  BY <1>2 DEF Merge
<1> QED BY <1>1, <1>2
=============================================================================
