------------------------- MODULE FragmentationProofs -------------------------
(***************************************************************************)
(* Theorems about Fragmentation for payloads and fragments of every size.  *)
(***************************************************************************)
EXTENDS Fragmentation, SequenceTheorems, TLAPS

\* What the arguments of a generator are.
LEMMA InputFacts ==
  ASSUME FragmentationAssumption, input \in Inputs
  PROVE  /\ input.data \in Seq(Nat) /\ input.metadata \in Seq(Nat)
         /\ input.fragmentSize \in Nat /\ input.fragmentSize > METADATA + REQUEST
         /\ input.type \in FrameTypes
         /\ {input.isComplete, input.hasMetadata} \subseteq BOOLEAN
         /\ ~input.hasMetadata => input.metadata = <<>>
         /\ RequestLength(input.type) \in {0, REQUEST}
         /\ input.type = "PAYLOAD" => RequestLength(input.type) = 0
<1>1. \A n \in Nat : Bytes(n) \in Seq(Nat)
  BY DEF Bytes
<1>2. input \in Payloads
  BY DEF Inputs
<1>3. input.data \in {Bytes(n) : n \in DataLengths}
  BY <1>2 DEF Payloads
<1>4. input.metadata \in {<<>>} \cup {Bytes(n) : n \in MetadataLengths}
  BY <1>2 DEF Payloads
<1>5. input.data \in Seq(Nat)
  BY <1>1, <1>3 DEF FragmentationAssumption
<1>6. input.metadata \in Seq(Nat)
  <2>1. CASE input.metadata = <<>>
    BY <2>1
  <2>2. CASE input.metadata \in {Bytes(n) : n \in MetadataLengths}
    BY <1>1, <2>2 DEF FragmentationAssumption
  <2>. QED
    BY <1>4, <2>1, <2>2
<1>7. input.fragmentSize \in FragmentSizes /\ input.type \in FrameTypes
      /\ {input.isComplete, input.hasMetadata} \subseteq BOOLEAN
  BY <1>2 DEF Payloads
<1>8. ~input.hasMetadata => input.metadata = <<>>
  BY DEF Inputs
<1>. QED
  BY <1>5, <1>6, <1>7, <1>8 DEF FragmentationAssumption, RequestLength, METADATA, REQUEST

\* A payload is fragmented because it does not fit.
LEMMA InputTooBig ==
  ASSUME FragmentationAssumption, input \in Inputs
  PROVE  Len(input.data) + (IF input.hasMetadata THEN Len(input.metadata) + METADATA ELSE 0)
           + RequestLength(input.type) > input.fragmentSize
BY DEF Inputs, IsFragmentable

\* Buffer.slice returns bytes, whatever the positions.
LEMMA SliceType ==
  ASSUME NEW s \in Seq(Nat), NEW from \in Int, NEW to \in Int
  PROVE  Slice(s, from, to) \in Seq(Nat)
<1> DEFINE Position(i) == IF i >= 0 THEN i ELSE IF Len(s) + i < 0 THEN 0 ELSE Len(s) + i
<1>1. Position(from) \in Nat /\ Position(to) \in Nat
  OBVIOUS
<1>2. Min2(Position(to), Len(s)) \in 0 .. Len(s)
  BY <1>1 DEF Min2
<1>3. \A i \in Position(from) + 1 .. Min2(Position(to), Len(s)) : s[i] \in Nat
  BY <1>1, <1>2
<1>. HIDE DEF Position
<1>4. SubSeq(s, Position(from) + 1, Min2(Position(to), Len(s))) \in Seq(Nat)
  BY <1>1, <1>2, <1>3, SubSeqProperties
<1>. QED
  BY <1>4 DEF Slice, Position

\* Between positions in order it returns what lies between them.
LEMMA SliceInOrder ==
  ASSUME NEW s \in Seq(Nat), NEW from \in 0 .. Len(s), NEW to \in from .. Len(s)
  PROVE  /\ Slice(s, from, to) = SubSeq(s, from + 1, to)
         /\ Len(Slice(s, from, to)) = to - from
<1>1. Slice(s, from, to) = SubSeq(s, from + 1, to)
  BY DEF Slice, Min2
<1>2. \A i \in from + 1 .. to : s[i] \in Nat
  OBVIOUS
<1>3. Len(SubSeq(s, from + 1, to)) = to - from
  BY <1>2, SubSeqProperties
<1>. QED
  BY <1>1, <1>3

\* A slice extends the bytes before it.
LEMMA SliceExtends ==
  ASSUME NEW s \in Seq(Nat), NEW from \in 0 .. Len(s), NEW to \in from .. Len(s)
  PROVE  SubSeq(s, 1, from) \o Slice(s, from, to) = SubSeq(s, 1, to)
<1>1. SubSeq(s, 1, from) \o SubSeq(s, from + 1, to) = SubSeq(s, 1, to)
  <2>1. 1 \in 1 .. Len(s) + 1 /\ from \in 1 - 1 .. Len(s)
    OBVIOUS
  <2>. QED
    BY <2>1, ConcatAdjacentSubSeq
<1>2. Slice(s, from, to) = SubSeq(s, from + 1, to)
  BY SliceInOrder
<1>. QED
  BY <1>1, <1>2

-----------------------------------------------------------------------------
(* The shape of the generator's state, for every payload. *)

\* How the stages relate to the positions and to what is cut.
StageInv ==
  /\ stage = "start" => /\ metadataPosition = 0 /\ dataPosition = 0
                        /\ remaining = input.fragmentSize
                        /\ ~flagged /\ metadata = <<>>
                        /\ firstFrame = (input.type # "PAYLOAD")
                        /\ holder = NoFragments /\ received = Nothing
  /\ stage = "metadata" => /\ metadataPosition < Len(input.metadata) /\ dataPosition = 0
                           /\ remaining = input.fragmentSize
                           /\ ~flagged /\ metadata = <<>> /\ ~firstFrame
  /\ stage = "data" => /\ metadataPosition = Len(input.metadata)
                       /\ firstFrame => dataPosition = 0

ShapeInv == TypeOK /\ StageInv

FrameRecords == [data : Seq(Nat), metadata : Seq(Nat), size : Nat, follows : BOOLEAN]
Holders == [hasFragments : BOOLEAN, data : Seq(Nat), metadata : Seq(Nat)]
Outcomes == [outcome : {"none", "TypeError"}]
            \cup [outcome : {"payload"}, data : Seq(Nat), metadata : Seq(Nat)]

\* A fragment keeps the types of what the receiver holds.
LEMMA YieldType ==
  ASSUME TypeOK, NEW cutData \in Seq(Nat), NEW cutMetadata \in Seq(Nat), NEW header \in Nat,
         NEW follows \in BOOLEAN, Yield(cutData, cutMetadata, header, follows)
  PROVE  frame' \in FrameRecords /\ holder' \in Holders /\ received' \in Outcomes
<1> DEFINE f == [data |-> cutData, metadata |-> cutMetadata, follows |-> follows,
                 size |-> Len(cutData) + Len(cutMetadata) + header]
<1>1. f \in FrameRecords
  BY DEF FrameRecords
<1>2. frame' = f /\ Receive(f)
  BY DEF Yield
<1>3. holder \in Holders /\ received \in Outcomes
  BY DEF TypeOK, Holders, Outcomes
<1>4. f.data \in Seq(Nat) /\ f.metadata \in Seq(Nat)
  OBVIOUS
<1>. HIDE DEF f
<1>5. CASE Add(f)
  <2>1. holder.data \o f.data \in Seq(Nat) /\ holder.metadata \o f.metadata \in Seq(Nat)
    BY <1>3, <1>4 DEF Holders
  <2>2. holder' \in Holders
    BY <1>5, <2>1 DEF Add, Holders
  <2>3. received' \in Outcomes
    BY <1>3, <1>5 DEF Add, Outcomes
  <2>. QED
    BY <1>1, <1>2, <2>2, <2>3
<1>6. CASE Reassemble(f)
  <2>1. holder.data \o f.data \in Seq(Nat) /\ holder.metadata \o f.metadata \in Seq(Nat)
    BY <1>3, <1>4 DEF Holders
  <2>2. holder' \in Holders
    BY <1>6 DEF Reassemble, NoFragments, Holders
  <2>3. received' \in Outcomes
    BY <1>6, <2>1 DEF Reassemble, Outcomes
  <2>. QED
    BY <1>1, <1>2, <2>2, <2>3
<1>7. CASE UNCHANGED <<holder, received>>
  BY <1>1, <1>2, <1>3, <1>7
<1>. QED
  BY <1>2, <1>5, <1>6, <1>7 DEF Receive

\* It has its shape before the first step.
LEMMA ShapeInit ==
  ASSUME FragmentationAssumption, Init
  PROVE  ShapeInv
<1>1. input \in Inputs
  BY DEF Init
<1>2. input.fragmentSize \in Nat /\ input.metadata \in Seq(Nat) /\ input.data \in Seq(Nat)
  BY <1>1, InputFacts
<1>3. StageInv
  BY DEF Init, StageInv
<1>4. holder \in Holders /\ received \in Outcomes /\ frame \in FrameRecords
  BY DEF Init, NoFrame, NoFragments, Nothing, Holders, Outcomes, FrameRecords
<1>5. stage = "start" /\ remaining \in Int /\ metadata \in Seq(Nat) /\ metadataPosition = 0 /\ dataPosition = 0
  BY <1>2 DEF Init
<1>6. firstFrame \in BOOLEAN /\ flagged \in BOOLEAN
  BY Zenon DEF Init
<1>. QED
  BY <1>1, <1>2, <1>3, <1>4, <1>5, <1>6 DEF ShapeInv, TypeOK, Holders, Outcomes, FrameRecords

\* One step keeps the shape, also that of a payload the generators get wrong.
LEMMA ShapeStep ==
  ASSUME FragmentationAssumption, ShapeInv, [Next]_vars
  PROVE  ShapeInv'
<1> DEFINE M == input.metadata
           D == input.data
           R == RequestLength(input.type)
           F == input.fragmentSize
<1>1. /\ D \in Seq(Nat) /\ M \in Seq(Nat) /\ R \in {0, 3} /\ F \in Nat /\ F > 6
      /\ input.type \in FrameTypes /\ input.isComplete \in BOOLEAN /\ input.hasMetadata \in BOOLEAN
  BY InputFacts DEF ShapeInv, TypeOK, METADATA, REQUEST
<1>2. /\ remaining \in Int /\ dataPosition \in Int /\ dataPosition <= Len(D)
      /\ metadataPosition \in 0 .. Len(M) /\ metadata \in Seq(Nat)
      /\ firstFrame \in BOOLEAN /\ flagged \in BOOLEAN /\ StageInv
  BY DEF ShapeInv, TypeOK
<1>3. CASE SkipFirstMetadata
  <2>1. UNCHANGED <<input, firstFrame, metadataPosition, dataPosition, metadata, frame, holder, received>>
    BY <1>3 DEF SkipFirstMetadata
  <2>2. stage' \in {"metadata", "data"} /\ flagged' \in BOOLEAN /\ remaining' \in Int
    BY <1>1, <1>2, <1>3 DEF SkipFirstMetadata, METADATA
  <2>3. StageInv'
    <3>1. CASE M = <<>>
      BY <1>1, <1>2, <1>3, <2>1, <3>1 DEF SkipFirstMetadata, StageInv
    <3>2. CASE M # <<>>
      <4>1. Len(M) > 0
        BY <1>1, <3>2
      <4>. QED
        BY <1>1, <1>2, <1>3, <2>1, <3>2, <4>1 DEF SkipFirstMetadata, StageInv
    <3>. QED
      BY <3>1, <3>2
  <2>. QED
    BY <2>1, <2>2, <2>3 DEF ShapeInv, TypeOK
<1>4. CASE FirstMetadata
  <2> DEFINE room == remaining - METADATA - R
             next == Min2(Len(M), room)
             cut == Slice(M, 0, next)
             full == room = Len(cut)
  <2>1. /\ room = F - 3 - R /\ room > 0 /\ room \in Int
        /\ dataPosition = 0 /\ ~flagged /\ metadata = <<>>
    BY <1>1, <1>2, <1>4 DEF FirstMetadata, StageInv, METADATA
  <2>2. next \in 0 .. Len(M) /\ (next = room \/ (next = Len(M) /\ next < room))
    BY <1>1, <2>1 DEF Min2
  <2>3. Len(cut) = next /\ cut \in Seq(Nat)
    <3>1. M \in Seq(Nat) /\ 0 \in 0 .. Len(M) /\ next \in 0 .. Len(M) /\ next \in Int /\ 0 \in Int
      BY <1>1, <2>2
    <3>. HIDE DEF next, M
    <3>2. cut \in Seq(Nat)
      BY <3>1, SliceType
    <3>3. Len(cut) = next - 0
      BY <3>1, SliceInOrder
    <3>. QED
      BY <3>1, <3>2, <3>3
  <2>4. /\ metadataPosition' = next /\ stage' = IF next = Len(M) THEN "data" ELSE "metadata"
        /\ firstFrame' = ~full /\ flagged' = ~full
        /\ metadata' = IF full THEN <<>> ELSE cut
        /\ remaining' = IF full THEN F ELSE room - Len(cut)
        /\ UNCHANGED <<input, dataPosition>>
        /\ IF full THEN Yield(<<>>, cut, METADATA + R, TRUE) ELSE UNCHANGED <<frame, holder, received>>
    BY <1>4 DEF FirstMetadata
  <2>5. frame' \in FrameRecords /\ holder' \in Holders /\ received' \in Outcomes
    <3>1. CASE full
      <4>1. METADATA + R \in Nat /\ <<>> \in Seq(Nat)
        BY <1>1 DEF METADATA
      <4>. QED
        BY <2>3, <2>4, <3>1, <4>1, YieldType DEF ShapeInv
    <3>2. CASE ~full
      BY <2>4, <3>2 DEF ShapeInv, TypeOK, FrameRecords, Holders, Outcomes
    <3>. QED
      BY <3>1, <3>2
  <2>. HIDE DEF cut, room, next
  <2>6. StageInv'
    <3>1. CASE full
      <4>1. ~firstFrame' /\ ~flagged' /\ metadata' = <<>> /\ remaining' = F
        BY <2>4, <3>1
      <4>. QED
        BY <1>1, <2>1, <2>2, <2>4, <4>1 DEF StageInv
    <3>2. CASE ~full
      <4>1. next = Len(M)
        BY <1>1, <2>1, <2>2, <2>3, <3>2
      <4>. QED
        BY <2>1, <2>4, <3>2, <4>1 DEF StageInv
    <3>. QED
      BY <3>1, <3>2
  <2>7. /\ stage' \in {"metadata", "data"} /\ remaining' \in Int
        /\ firstFrame' \in BOOLEAN /\ flagged' \in BOOLEAN /\ metadata' \in Seq(Nat)
    BY <1>1, <2>1, <2>3, <2>4
  <2>. QED
    BY <1>2, <2>2, <2>4, <2>5, <2>6, <2>7 DEF ShapeInv, TypeOK, FrameRecords, Holders, Outcomes
<1>5. CASE MoreMetadata
  <2> DEFINE room == remaining - METADATA
             next == Min2(Len(M), metadataPosition + room)
             cut == Slice(M, metadataPosition, next)
             full == room = Len(cut) \/ D = <<>>
             follows == ~(next = Len(M) /\ input.isComplete /\ D = <<>>)
  <2>1. /\ room = F - 3 /\ room > 0 /\ room \in Int
        /\ dataPosition = 0 /\ ~flagged /\ metadata = <<>> /\ ~firstFrame
        /\ metadataPosition < Len(M)
    BY <1>1, <1>2, <1>5 DEF MoreMetadata, StageInv, METADATA
  <2>2. /\ next \in metadataPosition .. Len(M)
        /\ next = metadataPosition + room \/ (next = Len(M) /\ next < metadataPosition + room)
    BY <1>1, <1>2, <2>1, SMTT(30) DEF Min2
  <2>3. Len(cut) = next - metadataPosition /\ cut \in Seq(Nat)
    <3>1. /\ M \in Seq(Nat) /\ metadataPosition \in 0 .. Len(M) /\ next \in metadataPosition .. Len(M)
          /\ next \in Int /\ metadataPosition \in Int
      BY <1>1, <1>2, <2>2
    <3>. HIDE DEF next, M
    <3>2. cut \in Seq(Nat)
      BY <3>1, SliceType
    <3>3. Len(cut) = next - metadataPosition
      BY <3>1, SliceInOrder
    <3>. QED
      BY <3>1, <3>2, <3>3
  <2>4. /\ metadataPosition' = next /\ stage' = IF next = Len(M) THEN "data" ELSE "metadata"
        /\ flagged' = ~full
        /\ metadata' = IF full THEN <<>> ELSE cut
        /\ remaining' = IF full THEN F ELSE room - Len(cut)
        /\ UNCHANGED <<input, firstFrame, dataPosition>>
        /\ IF full THEN Yield(<<>>, cut, METADATA, follows) ELSE UNCHANGED <<frame, holder, received>>
    BY <1>5 DEF MoreMetadata
  <2>5. frame' \in FrameRecords /\ holder' \in Holders /\ received' \in Outcomes
    <3>1. CASE full
      <4>1. METADATA \in Nat /\ <<>> \in Seq(Nat) /\ follows \in BOOLEAN
        BY DEF METADATA
      <4>. QED
        BY <2>3, <2>4, <3>1, <4>1, YieldType DEF ShapeInv
    <3>2. CASE ~full
      BY <2>4, <3>2 DEF ShapeInv, TypeOK, FrameRecords, Holders, Outcomes
    <3>. QED
      BY <3>1, <3>2
  <2>. HIDE DEF cut, room, next, follows
  <2>6. StageInv'
    <3>1. CASE full
      BY <1>1, <1>2, <2>1, <2>2, <2>3, <2>4, <3>1 DEF StageInv
    <3>2. CASE ~full
      <4>1. next = Len(M)
        BY <1>1, <1>2, <2>1, <2>2, <2>3, <3>2
      <4>. QED
        BY <2>1, <2>4, <3>2, <4>1 DEF StageInv
    <3>. QED
      BY <3>1, <3>2
  <2>7. /\ stage' \in {"metadata", "data"} /\ remaining' \in Int
        /\ flagged' \in BOOLEAN /\ metadata' \in Seq(Nat)
        /\ metadataPosition' \in 0 .. Len(M)
    BY <1>1, <1>2, <2>1, <2>2, <2>3, <2>4
  <2>. QED
    BY <1>2, <2>4, <2>5, <2>6, <2>7 DEF ShapeInv, TypeOK, FrameRecords, Holders, Outcomes
<1>6. CASE FirstData
  <2> DEFINE next == Min2(Len(D), remaining - R)
             cut == Slice(D, 0, next)
             header == R + IF flagged THEN METADATA ELSE 0
  <2>1. next \in Int /\ next <= Len(D)
    BY <1>1, <1>2 DEF Min2
  <2>2. cut \in Seq(Nat) /\ header \in Nat
    <3>1. header \in Nat
      BY <1>1 DEF METADATA
    <3>2. D \in Seq(Nat) /\ 0 \in Int /\ next \in Int
      BY <1>1, <2>1
    <3>. HIDE DEF D, next
    <3>3. cut \in Seq(Nat)
      BY <3>2, SliceType
    <3>. QED
      BY <3>1, <3>3
  <2>3. /\ stage = "data" /\ ~firstFrame' /\ dataPosition' = next
        /\ ~flagged' /\ metadata' = <<>> /\ remaining' = F
        /\ Yield(cut, metadata, header, TRUE)
        /\ UNCHANGED <<input, stage, metadataPosition>>
        /\ firstFrame' \in BOOLEAN /\ flagged' \in BOOLEAN
    BY <1>6 DEF FirstData
  <2>. HIDE DEF cut, next, header
  <2>4. frame' \in FrameRecords /\ holder' \in Holders /\ received' \in Outcomes
    BY <1>2, <2>2, <2>3, YieldType DEF ShapeInv
  <2>5. StageInv'
    BY <1>2, <2>3 DEF StageInv
  <2>. QED
    BY <1>1, <1>2, <2>1, <2>3, <2>4, <2>5 DEF ShapeInv, TypeOK, FrameRecords, Holders, Outcomes
<1>7. CASE MoreData
  <2> DEFINE next == Min2(Len(D), dataPosition + remaining)
             cut == Slice(D, dataPosition, next)
             header == IF flagged THEN METADATA ELSE 0
             follows == next # Len(D)
  <2>1. next \in Int /\ next <= Len(D)
    BY <1>1, <1>2 DEF Min2
  <2>2. cut \in Seq(Nat) /\ header \in Nat /\ follows \in BOOLEAN
    BY <1>1, <1>2, <2>1, SliceType DEF METADATA
  <2>3. /\ stage = "data" /\ ~firstFrame /\ dataPosition' = next
        /\ ~flagged' /\ metadata' = <<>> /\ remaining' = F
        /\ Yield(cut, metadata, header, follows)
        /\ UNCHANGED <<input, stage, firstFrame, metadataPosition>>
        /\ flagged' \in BOOLEAN
    BY <1>7 DEF MoreData
  <2>. HIDE DEF cut, next, header, follows
  <2>4. frame' \in FrameRecords /\ holder' \in Holders /\ received' \in Outcomes
    BY <1>2, <2>2, <2>3, YieldType DEF ShapeInv
  <2>5. StageInv'
    BY <1>2, <2>3 DEF StageInv
  <2>. QED
    BY <1>1, <1>2, <2>1, <2>3, <2>4, <2>5 DEF ShapeInv, TypeOK, FrameRecords, Holders, Outcomes
<1>8. CASE UNCHANGED vars
  BY <1>8 DEF vars, generatorVars, ShapeInv, TypeOK, StageInv
<1>. QED
  BY <1>3, <1>4, <1>5, <1>6, <1>7, <1>8 DEF Next

\* The generator and the receiver keep their types, and no position leaves its
\* buffer at the upper end, whatever is sent in fragments of whatever size.
THEOREM FragmentationTypeCorrect ==
  ASSUME FragmentationAssumption
  PROVE  Spec => []TypeOK
<1>1. Init => ShapeInv
  BY ShapeInit
<1>2. ShapeInv /\ [Next]_vars => ShapeInv'
  BY ShapeStep
<1>3. ShapeInv => TypeOK
  BY DEF ShapeInv
<1>. QED
  BY <1>1, <1>2, <1>3, PTL DEF Spec

-----------------------------------------------------------------------------
(* The round trip. *)

Room == remaining - IF firstFrame THEN RequestLength(input.type) ELSE 0

\* No fragment was too big, and what is cut for the next one fits with its
\* headers, which leave some room.
FitInv ==
  /\ frame.size <= input.fragmentSize
  /\ ~flagged => metadata = <<>>
  /\ stage = "data" /\ received = Nothing =>
       /\ remaining > 0 /\ Room >= 0
       /\ Len(metadata) + (IF flagged THEN METADATA ELSE 0) + remaining <= input.fragmentSize

\* While fragments follow the receiver holds the bytes before the positions,
\* but for the metadata cut for the next fragment.  The first fragment does not
\* end the data, and only a payload that never ends runs out of fragments.
Underway ==
  /\ received = Nothing
  /\ dataPosition \in 0 .. Len(input.data)
  /\ holder.data = SubSeq(input.data, 1, dataPosition)
  /\ holder.metadata \o metadata = SubSeq(input.metadata, 1, metadataPosition)
  /\ holder.hasFragments /\ input.metadata # <<>> => holder.metadata # <<>>
  /\ ~holder.hasFragments =>
       /\ holder.metadata = <<>> /\ dataPosition = 0
       /\ stage = "metadata" => metadataPosition = 0 /\ RequestLength(input.type) = 0
       /\ stage = "data" => Room < Len(input.data)
  /\ firstFrame => ~holder.hasFragments
  /\ Finished => NeverEnds

Delivered == Finished /\ ArrivedWhole

RoundTripInv == ShapeInv /\ (HeaderTwice \/ (FitInv /\ (Underway \/ Delivered)))

\* A fragment that others follow is put behind what is held.
LEMMA YieldAdds ==
  ASSUME received = Nothing, holder \in Holders,
         NEW cutData \in Seq(Nat), NEW cutMetadata \in Seq(Nat), NEW header \in Nat,
         Yield(cutData, cutMetadata, header, TRUE),
         holder.data # <<>> => cutData # <<>>,
         holder.hasFragments /\ holder.metadata = <<>> => cutMetadata = <<>>
  PROVE  /\ received' = Nothing /\ holder'.hasFragments
         /\ holder'.data = holder.data \o cutData
         /\ holder'.metadata = holder.metadata \o cutMetadata
         /\ frame'.size = Len(cutData) + Len(cutMetadata) + header
<1> DEFINE f == [data |-> cutData, metadata |-> cutMetadata, follows |-> TRUE,
                 size |-> Len(cutData) + Len(cutMetadata) + header]
<1>1. f.data = cutData /\ f.metadata = cutMetadata /\ f.follows /\ f.size = Len(cutData) + Len(cutMetadata) + header
  OBVIOUS
<1>2. frame' = f /\ Receive(f)
  BY DEF Yield
<1>. HIDE DEF f
<1>3. Add(f)
  BY <1>1, <1>2 DEF Receive, Nothing
<1>4. received' = Nothing
  BY <1>1, <1>3 DEF Add
<1>5. /\ holder'.hasFragments /\ holder'.data = holder.data \o cutData
      /\ holder'.metadata = IF holder.hasFragments /\ holder.metadata = <<>> THEN <<>>
                            ELSE holder.metadata \o cutMetadata
  BY <1>1, <1>3 DEF Add
<1>6. holder.hasFragments /\ holder.metadata = <<>> => holder.metadata \o cutMetadata = <<>>
  OBVIOUS
<1>. QED
  BY <1>1, <1>2, <1>4, <1>5, <1>6

\* The last fragment makes a payload of what is held and itself.
LEMMA YieldEnds ==
  ASSUME received = Nothing, holder \in Holders,
         NEW cutData \in Seq(Nat), NEW cutMetadata \in Seq(Nat), NEW header \in Nat,
         Yield(cutData, cutMetadata, header, FALSE),
         holder.data # <<>> => cutData # <<>>,
         holder.metadata = <<>> => cutMetadata = <<>>
  PROVE  /\ received'.outcome = "payload"
         /\ received'.data = holder.data \o cutData
         /\ received'.metadata = holder.metadata \o cutMetadata
         /\ frame'.size = Len(cutData) + Len(cutMetadata) + header
<1> DEFINE f == [data |-> cutData, metadata |-> cutMetadata, follows |-> FALSE,
                 size |-> Len(cutData) + Len(cutMetadata) + header]
<1>1. f.data = cutData /\ f.metadata = cutMetadata /\ ~f.follows /\ f.size = Len(cutData) + Len(cutMetadata) + header
  OBVIOUS
<1>2. frame' = f /\ Receive(f)
  BY DEF Yield
<1>. HIDE DEF f
<1>3. Reassemble(f)
  BY <1>1, <1>2 DEF Receive, Nothing
<1>4. holder.metadata = <<>> => holder.metadata \o cutMetadata = <<>>
  OBVIOUS
<1>. QED
  BY <1>1, <1>2, <1>3, <1>4 DEF Reassemble

\* Everything the steps need to know of the arguments.
LEMMA Facts ==
  ASSUME FragmentationAssumption, ShapeInv
  PROVE  /\ input.data \in Seq(Nat) /\ input.metadata \in Seq(Nat)
         /\ Len(input.data) \in Nat /\ Len(input.metadata) \in Nat
         /\ input.data = <<>> <=> Len(input.data) = 0
         /\ input.metadata = <<>> <=> Len(input.metadata) = 0
         /\ input.fragmentSize \in Nat /\ input.fragmentSize > 6
         /\ RequestLength(input.type) \in {0, 3}
         /\ input.type = "PAYLOAD" => RequestLength(input.type) = 0
         /\ RequestLength(input.type) = 3 => input.type = "REQUEST_CHANNEL"
         /\ input.metadata # <<>> => Len(input.data) + Len(input.metadata) + 3 + RequestLength(input.type)
                                      > input.fragmentSize
         /\ input.metadata = <<>> /\ input.hasMetadata =>
              Len(input.data) + 3 + RequestLength(input.type) > input.fragmentSize
         /\ input.metadata = <<>> /\ ~input.hasMetadata =>
              Len(input.data) + RequestLength(input.type) > input.fragmentSize
         /\ remaining \in Int /\ metadataPosition \in 0 .. Len(input.metadata)
         /\ metadata \in Seq(Nat) /\ Len(metadata) \in Nat
         /\ holder \in Holders /\ frame.size \in Nat
         /\ stage \in {"start", "metadata", "data"}
<1>1. input \in Inputs
  BY DEF ShapeInv, TypeOK
<1>2. /\ input.data \in Seq(Nat) /\ input.metadata \in Seq(Nat)
      /\ input.fragmentSize \in Nat /\ input.fragmentSize > 6
      /\ RequestLength(input.type) \in {0, 3}
      /\ input.type = "PAYLOAD" => RequestLength(input.type) = 0
      /\ ~input.hasMetadata => input.metadata = <<>>
  BY <1>1, InputFacts DEF METADATA, REQUEST
<1>3. RequestLength(input.type) = 3 => input.type = "REQUEST_CHANNEL"
  BY DEF RequestLength
<1>4. Len(input.data) + (IF input.hasMetadata THEN Len(input.metadata) + 3 ELSE 0)
        + RequestLength(input.type) > input.fragmentSize
  BY <1>1, InputTooBig DEF METADATA
<1>5. /\ Len(input.data) \in Nat /\ Len(input.metadata) \in Nat
      /\ input.data = <<>> <=> Len(input.data) = 0
      /\ input.metadata = <<>> <=> Len(input.metadata) = 0
  BY <1>2
<1>6. input.metadata # <<>> =>
        Len(input.data) + Len(input.metadata) + 3 + RequestLength(input.type) > input.fragmentSize
  <2> SUFFICES ASSUME input.metadata # <<>>
               PROVE  Len(input.data) + Len(input.metadata) + 3 + RequestLength(input.type)
                        > input.fragmentSize
    OBVIOUS
  <2>1. input.hasMetadata
    BY <1>2
  <2>2. Len(input.data) + (Len(input.metadata) + 3) + RequestLength(input.type) > input.fragmentSize
    BY <1>4, <2>1
  <2>3. /\ Len(input.data) \in Nat /\ Len(input.metadata) \in Nat /\ input.fragmentSize \in Nat
        /\ RequestLength(input.type) \in Int
    BY <1>2, <1>5
  <2> DEFINE d == Len(input.data)
             m == Len(input.metadata)
             r == RequestLength(input.type)
             f == input.fragmentSize
  <2>4. d \in Int /\ m \in Int /\ r \in Int /\ f \in Int /\ d + (m + 3) + r > f
    <3>1. d \in Int
      BY <2>3
    <3>2. m \in Int
      BY <2>3
    <3>3. r \in Int
      BY <2>3
    <3>4. f \in Int
      BY <2>3
    <3>5. d + (m + 3) + r > f
      BY <2>2
    <3>. QED
      BY <3>1, <3>2, <3>3, <3>4, <3>5
  <2>. HIDE DEF d, m, r, f
  <2>5. d + m + 3 + r > f
    BY <2>4
  <2>. QED
    BY <2>5 DEF d, m, r, f
<1>8. input.metadata = <<>> /\ input.hasMetadata =>
        Len(input.data) + 3 + RequestLength(input.type) > input.fragmentSize
  <2> SUFFICES ASSUME input.metadata = <<>>, input.hasMetadata
               PROVE  Len(input.data) + 3 + RequestLength(input.type) > input.fragmentSize
    OBVIOUS
  <2>1. Len(input.data) + (Len(input.metadata) + 3) + RequestLength(input.type) > input.fragmentSize
    BY <1>4
  <2>2. Len(input.metadata) = 0
    BY <1>5
  <2>. QED
    BY <2>1, <2>2
<1>9. input.metadata = <<>> /\ ~input.hasMetadata =>
        Len(input.data) + RequestLength(input.type) > input.fragmentSize
  <2> SUFFICES ASSUME ~input.hasMetadata
               PROVE  Len(input.data) + RequestLength(input.type) > input.fragmentSize
    OBVIOUS
  <2>1. Len(input.data) + 0 + RequestLength(input.type) > input.fragmentSize
    BY <1>4
  <2>2. Len(input.data) \in Nat /\ RequestLength(input.type) \in Int /\ input.fragmentSize \in Nat
    BY <1>2, <1>5
  <2>. QED
    BY <2>1, <2>2
<1>7. /\ remaining \in Int /\ metadataPosition \in 0 .. Len(input.metadata)
      /\ metadata \in Seq(Nat) /\ Len(metadata) \in Nat
      /\ holder \in Holders /\ frame.size \in Nat
      /\ stage \in {"start", "metadata", "data"}
  BY DEF ShapeInv, TypeOK, Holders
<1>. QED
  BY <1>2, <1>3, <1>5, <1>6, <1>7, <1>8, <1>9

\* A generator that has not started has sent nothing that could be wrong.
LEMMA RoundTripInit ==
  ASSUME FragmentationAssumption, Init, ShapeInv
  PROVE  FitInv /\ Underway
<1>1. SubSeq(input.data, 1, 0) = <<>> /\ SubSeq(input.metadata, 1, 0) = <<>>
  BY SubSeqEmpty
<1>2. input.fragmentSize \in Nat /\ Len(input.data) \in Nat
  BY Facts
<1>3. FitInv
  BY <1>2 DEF Init, FitInv, NoFrame
<1>. QED
  BY <1>1, <1>2, <1>3 DEF Init, Underway, NoFragments, Finished

\* Going on to the data leaves room for the first fragment, but not for all of it.
LEMMA SkipFirstMetadataStep ==
  ASSUME FragmentationAssumption, ShapeInv, FitInv, Underway, SkipFirstMetadata
  PROVE  FitInv' /\ Underway'
<1> DEFINE M == input.metadata
           D == input.data
           R == RequestLength(input.type)
           F == input.fragmentSize
<1>1. /\ stage = "start" /\ metadataPosition = 0 /\ dataPosition = 0 /\ remaining = F
      /\ ~flagged /\ metadata = <<>> /\ firstFrame = (input.type # "PAYLOAD")
      /\ holder = NoFragments
  BY DEF SkipFirstMetadata, ShapeInv, StageInv
<1>2. UNCHANGED <<input, firstFrame, metadataPosition, dataPosition, metadata, frame, holder, received>>
  BY DEF SkipFirstMetadata
<1>3. /\ F \in Nat /\ F > 6 /\ R \in {0, 3} /\ Len(D) \in Nat
      /\ M = <<>> /\ input.hasMetadata => Len(D) + 3 + R > F
      /\ M = <<>> /\ ~input.hasMetadata => Len(D) + R > F
  BY Facts
<1>4. ~firstFrame => R = 0
  <2>1. ~firstFrame => input.type = "PAYLOAD"
    BY <1>1
  <2>. QED
    BY <2>1, Facts
<1>5. received = Nothing /\ SubSeq(D, 1, 0) = <<>> /\ SubSeq(M, 1, 0) = <<>>
  BY SubSeqEmpty DEF Underway
<1>6. CASE M = <<>>
  <2>1. stage' = "data"
    BY <1>6 DEF SkipFirstMetadata
  <2>2. \/ flagged' /\ remaining' = F - 3 /\ input.hasMetadata
        \/ ~flagged' /\ remaining' = F /\ ~input.hasMetadata
    <3>1. flagged' = input.hasMetadata /\ remaining' = IF flagged' THEN F - 3 ELSE F
      <4>1. flagged' = (input.hasMetadata /\ M = <<>>)
        BY DEF SkipFirstMetadata
      <4>2. remaining' = IF flagged' THEN remaining - METADATA ELSE remaining
        BY DEF SkipFirstMetadata
      <4>3. input.hasMetadata \in BOOLEAN
        BY InputFacts DEF ShapeInv, TypeOK
      <4>4. flagged' = input.hasMetadata
        BY <1>6, <4>1, <4>3, Zenon
      <4>. QED
        BY <1>1, <4>2, <4>4 DEF METADATA
    <3>2. CASE flagged'
      BY <3>1, <3>2
    <3>3. CASE ~flagged'
      BY <3>1, <3>3
    <3>. QED
      BY <3>2, <3>3
  <2>3. Room' = remaining' - IF firstFrame THEN R ELSE 0
    BY <1>2 DEF Room
  <2>4. Room' = remaining' - R
    BY <1>3, <1>4, <2>2, <2>3
  <2>5. remaining' > 0 /\ Room' >= 0 /\ Room' < Len(D) /\ Len(D) > 0
    BY <1>3, <1>6, <2>2, <2>4
  <2>6. FitInv'
    <3>1. /\ frame'.size <= input'.fragmentSize /\ metadata' = <<>> /\ Len(metadata') = 0
          /\ input'.fragmentSize = F
      BY <1>1, <1>2 DEF FitInv
    <3>2. Len(metadata') + (IF flagged' THEN METADATA ELSE 0) + remaining' <= F
      BY <1>3, <2>2, <3>1 DEF METADATA
    <3>. QED
      BY <2>5, <3>1, <3>2 DEF FitInv
  <2>7. ~Finished'
    BY <1>1, <1>2, <2>5 DEF Finished
  <2>8. input' = input /\ metadataPosition' = 0 /\ dataPosition' = 0 /\ metadata' = <<>>
        /\ holder' = NoFragments /\ received' = Nothing
    BY <1>1, <1>2, <1>5
  <2>. QED
    BY <1>3, <1>5, <2>1, <2>5, <2>6, <2>7, <2>8 DEF Underway, NoFragments
<1>7. CASE M # <<>>
  <2>1. stage' = "metadata" /\ flagged' = FALSE /\ remaining' = F /\ ~firstFrame
    BY <1>1, <1>7 DEF SkipFirstMetadata
  <2>2. FitInv'
    BY <1>1, <1>2, <2>1 DEF FitInv
  <2>3. ~Finished'
    BY <2>1 DEF Finished
  <2>4. input' = input /\ metadataPosition' = 0 /\ dataPosition' = 0 /\ metadata' = <<>>
        /\ holder' = NoFragments /\ received' = Nothing /\ R = 0
    BY <1>1, <1>2, <1>4, <1>5, <2>1
  <2>. QED
    BY <1>3, <1>5, <2>1, <2>2, <2>3, <2>4 DEF Underway, NoFragments
<1>. QED
  BY <1>6, <1>7

\* The position behind what the generator cuts from a buffer, and the cut.
CutEnd(s, from, room) == Min2(Len(s), from + room)
Cut(s, from, room) == Slice(s, from, CutEnd(s, from, room))

\* The cut is not longer than the room, and shorter only at the end of the buffer.
LEMMA CutFacts ==
  ASSUME NEW s \in Seq(Nat), NEW from \in 0 .. Len(s), NEW room \in Nat
  PROVE  /\ CutEnd(s, from, room) \in from .. Len(s)
         /\ Cut(s, from, room) \in Seq(Nat)
         /\ Len(Cut(s, from, room)) = CutEnd(s, from, room) - from
         /\ SubSeq(s, 1, from) \o Cut(s, from, room) = SubSeq(s, 1, CutEnd(s, from, room))
         /\ Len(Cut(s, from, room)) <= room
         /\ Len(Cut(s, from, room)) # room => CutEnd(s, from, room) = Len(s)
         /\ room > 0 /\ from < Len(s) => CutEnd(s, from, room) > from /\ Cut(s, from, room) # <<>>
<1> DEFINE next == CutEnd(s, from, room)
           cut == Cut(s, from, room)
<1>1. Len(s) \in Nat
  OBVIOUS
<1>2. next \in from .. Len(s) /\ next - from <= room /\ (next - from # room => next = Len(s))
      /\ (room > 0 /\ from < Len(s) => next > from)
  BY <1>1 DEF Min2, CutEnd
<1>3. cut = Slice(s, from, next)
  BY DEF Cut
<1>. HIDE DEF next, cut
<1>4. next \in 0 .. Len(s) /\ from \in Int /\ next \in Int /\ from <= next
  BY <1>1, <1>2
<1>5. cut \in Seq(Nat)
  BY <1>3, <1>4, SliceType
<1>6. Len(cut) = next - from
  BY <1>2, <1>3, <1>4, SliceInOrder
<1>7. SubSeq(s, 1, from) \o cut = SubSeq(s, 1, next)
  BY <1>2, <1>3, <1>4, SliceExtends
<1>8. next > from => cut # <<>>
  BY <1>4, <1>5, <1>6
<1>9. Len(cut) <= room /\ (Len(cut) # room => next = Len(s))
  BY <1>2, <1>6
<1>. QED
  BY <1>2, <1>5, <1>6, <1>7, <1>8, <1>9 DEF next, cut

\* The metadata of the request frame is held, or it is cut and leaves room for the
\* request header, which only the payloads of HeaderTwice do not.
LEMMA FirstMetadataStep ==
  ASSUME FragmentationAssumption, ShapeInv, ~HeaderTwice, FitInv, Underway, FirstMetadata
  PROVE  FitInv' /\ Underway'
<1> DEFINE M == input.metadata
           D == input.data
           R == RequestLength(input.type)
           F == input.fragmentSize
           room == remaining - METADATA - R
           next == Min2(Len(M), room)
           cut == Slice(M, 0, next)
           full == room = Len(cut)
<1>1. /\ stage = "start" /\ metadataPosition = 0 /\ dataPosition = 0 /\ remaining = F
      /\ ~flagged /\ metadata = <<>> /\ firstFrame /\ M # <<>>
      /\ holder = NoFragments /\ received = Nothing
  BY DEF FirstMetadata, ShapeInv, StageInv
<1>2. /\ metadataPosition' = next /\ stage' = IF next = Len(M) THEN "data" ELSE "metadata"
      /\ firstFrame' = ~full /\ flagged' = ~full
      /\ metadata' = IF full THEN <<>> ELSE cut
      /\ remaining' = IF full THEN F ELSE room - Len(cut)
      /\ UNCHANGED <<input, dataPosition>>
      /\ IF full THEN Yield(<<>>, cut, METADATA + R, TRUE) ELSE UNCHANGED <<frame, holder, received>>
  BY DEF FirstMetadata
<1>3. /\ M \in Seq(Nat) /\ Len(M) \in Nat /\ D \in Seq(Nat) /\ Len(D) \in Nat
      /\ D = <<>> <=> Len(D) = 0
      /\ F \in Nat /\ F > 6 /\ R \in {0, 3} /\ Len(M) # 0
      /\ Len(D) + Len(M) + 3 + R > F /\ holder \in Holders
      /\ R = 3 => input.type = "REQUEST_CHANNEL"
  BY <1>1, Facts
<1>4. frame.size <= F
  BY DEF FitInv
<1>5. room = F - 3 - R /\ room \in Nat /\ room > 0
  BY <1>1, <1>3 DEF METADATA
<1>6. next = CutEnd(M, 0, room) /\ cut = Cut(M, 0, room)
  BY <1>5 DEF CutEnd, Cut
<1>. HIDE DEF M, D, R, F, room, next, cut
<1>7. 0 \in 0 .. Len(M)
  BY <1>3
<1>8. /\ next \in 0 .. Len(M) /\ cut \in Seq(Nat) /\ Len(cut) = next - 0
      /\ SubSeq(M, 1, 0) \o cut = SubSeq(M, 1, next)
      /\ Len(cut) <= room /\ (Len(cut) # room => next = Len(M))
      /\ 0 < Len(M) => next > 0 /\ cut # <<>>
  BY <1>3, <1>5, <1>6, <1>7, CutFacts
<1>9. SubSeq(M, 1, 0) = <<>> /\ SubSeq(D, 1, 0) = <<>>
  BY SubSeqEmpty
<1>10. cut = SubSeq(M, 1, next) /\ cut # <<>> /\ Len(cut) = next /\ next \in Nat
  BY <1>3, <1>8, <1>9
<1>11. input' = input /\ dataPosition' = 0
  BY <1>1, <1>2
<1>12. CASE full
  <2>1. ~firstFrame' /\ ~flagged' /\ metadata' = <<>> /\ remaining' = F
        /\ Yield(<<>>, cut, METADATA + R, TRUE)
    BY <1>2, <1>12
  <2>2. holder.data = <<>> /\ holder.metadata = <<>> /\ ~holder.hasFragments
    BY <1>1 DEF NoFragments
  <2>3. <<>> \in Seq(Nat) /\ METADATA + R \in Nat
    BY <1>3 DEF METADATA
  <2>4. /\ received' = Nothing /\ holder'.hasFragments
        /\ holder'.data = holder.data \o <<>>
        /\ holder'.metadata = holder.metadata \o cut
        /\ frame'.size = Len(<<>>) + Len(cut) + (METADATA + R)
    BY <1>1, <1>3, <1>8, <2>1, <2>2, <2>3, YieldAdds
  <2>5. holder'.data = <<>> /\ holder'.metadata = cut
    BY <1>8, <2>2, <2>4
  <2>6. frame'.size <= F
    BY <1>3, <1>5, <1>10, <1>12, <2>4 DEF METADATA
  <2>7. Room' = F /\ F > 0
    BY <1>3, <2>1 DEF Room
  <2>8. FitInv'
    <3>1. input'.fragmentSize = F /\ Len(metadata') = 0
      BY <1>11, <2>1 DEF F
    <3>2. Len(metadata') + (IF flagged' THEN METADATA ELSE 0) + remaining' <= F
      BY <1>3, <2>1, <3>1
    <3>. QED
      BY <1>3, <2>1, <2>6, <2>7, <3>1, <3>2 DEF FitInv
  <2>9. ~Finished'
    <3> SUFFICES ASSUME stage' = "data"
                 PROVE  Len(D) > 0
      BY <1>11 DEF Finished, D
    <3>1. next = Len(M)
      BY <1>2
    <3>. QED
      BY <1>3, <1>5, <1>10, <1>12, <3>1
  <2>10. holder'.metadata \o metadata' = cut
    BY <1>8, <2>1, <2>5
  <2>. QED
    BY <1>2, <1>3, <1>9, <1>10, <1>11, <2>1, <2>4, <2>5, <2>8, <2>9, <2>10 DEF Underway, M, D
<1>13. CASE ~full
  <2>1. next = Len(M) /\ Len(cut) < room /\ stage' = "data"
    BY <1>2, <1>5, <1>8, <1>10, <1>13
  <2>2. /\ firstFrame' /\ flagged' /\ metadata' = cut /\ remaining' = room - Len(M)
        /\ frame' = frame /\ holder' = NoFragments /\ received' = Nothing
    BY <1>1, <1>2, <1>10, <1>13, <2>1
  <2>3. Room' = remaining' - R
    BY <1>11, <2>2 DEF Room, R
  <2>4. remaining' > 0 /\ remaining' = F - 3 - R - Len(M) /\ remaining' \in Int
    BY <1>3, <1>5, <1>10, <2>1, <2>2
  <2>5. Room' >= 0
    <3>1. CASE R = 0
      BY <2>3, <2>4, <3>1
    <3>2. CASE R = 3
      <4>1. input.type = "REQUEST_CHANNEL"
        BY <1>3, <3>2
      <4>2. F - 3 - 3 - Len(M) \notin 1 .. 2
        <5>1. F - METADATA - REQUEST - Len(M) \notin 1 .. REQUEST - 1
          BY <1>1, <4>1 DEF HeaderTwice, M, F
        <5>. QED
          BY <1>3, <5>1 DEF METADATA, REQUEST
      <4>. QED
        BY <1>3, <2>3, <2>4, <3>2, <4>2
    <3>. QED
      BY <1>3, <3>1, <3>2
  <2>6. Room' < Len(D) /\ Len(D) > 0
    BY <1>3, <2>3, <2>4, <2>5
  <2>7. FitInv'
    <3>1. input'.fragmentSize = F /\ Len(metadata') = Len(M)
      BY <1>10, <1>11, <2>1, <2>2 DEF F
    <3>2. Len(metadata') + (IF flagged' THEN METADATA ELSE 0) + remaining' <= F
      BY <1>3, <2>2, <2>4, <3>1 DEF METADATA
    <3>. QED
      BY <1>4, <2>2, <2>4, <2>5, <3>1, <3>2 DEF FitInv
  <2>8. ~Finished'
    BY <2>2 DEF Finished
  <2>9. holder'.metadata \o metadata' = cut
    BY <1>8, <2>2 DEF NoFragments
  <2>. QED
    BY <1>2, <1>3, <1>9, <1>10, <1>11, <2>1, <2>2, <2>6, <2>7, <2>8, <2>9
    DEF Underway, M, D, NoFragments
<1>. QED
  BY <1>12, <1>13

\* More metadata extends what is held; without data its last fragment ends the
\* payload, which is not the first fragment.
LEMMA MoreMetadataStep ==
  ASSUME FragmentationAssumption, ShapeInv, FitInv, Underway, MoreMetadata
  PROVE  FitInv' /\ (Underway' \/ Delivered')
<1> DEFINE M == input.metadata
           D == input.data
           R == RequestLength(input.type)
           F == input.fragmentSize
           room == remaining - METADATA
           next == Min2(Len(M), metadataPosition + room)
           cut == Slice(M, metadataPosition, next)
           full == room = Len(cut) \/ D = <<>>
           ends == next = Len(M)
           follows == ~(ends /\ input.isComplete /\ D = <<>>)
<1>1. /\ stage = "metadata" /\ metadataPosition < Len(M) /\ dataPosition = 0 /\ remaining = F
      /\ ~flagged /\ metadata = <<>> /\ ~firstFrame /\ received = Nothing
  BY DEF MoreMetadata, ShapeInv, StageInv, Underway
<1>2. /\ metadataPosition' = next /\ stage' = IF ends THEN "data" ELSE "metadata"
      /\ flagged' = ~full
      /\ metadata' = IF full THEN <<>> ELSE cut
      /\ remaining' = IF full THEN F ELSE room - Len(cut)
      /\ UNCHANGED <<input, firstFrame, dataPosition>>
      /\ IF full THEN Yield(<<>>, cut, METADATA, follows) ELSE UNCHANGED <<frame, holder, received>>
  BY DEF MoreMetadata
<1>3. M \in Seq(Nat) /\ metadataPosition \in 0 .. Len(M) /\ Len(M) \in Nat /\ M # <<>>
  <2>1. M \in Seq(Nat) /\ metadataPosition \in 0 .. Len(M) /\ Len(M) \in Nat
    BY Facts
  <2>. QED
    BY <1>1, <2>1
<1>4. /\ D \in Seq(Nat) /\ Len(D) \in Nat /\ (D = <<>> <=> Len(D) = 0)
      /\ F \in Nat /\ F > 6 /\ R \in {0, 3} /\ holder \in Holders
      /\ Len(D) + Len(M) + 3 + R > F
  BY <1>3, Facts
<1>5. frame.size <= F
  BY DEF FitInv
<1>6. room = F - 3 /\ room \in Nat /\ room > 0
  BY <1>1, <1>4 DEF METADATA
<1>7. next = CutEnd(M, metadataPosition, room) /\ cut = Cut(M, metadataPosition, room)
  BY DEF CutEnd, Cut
<1>. HIDE DEF M, D, R, F, room, next, cut
<1>8. /\ next \in metadataPosition .. Len(M) /\ cut \in Seq(Nat)
      /\ Len(cut) = next - metadataPosition
      /\ SubSeq(M, 1, metadataPosition) \o cut = SubSeq(M, 1, next)
      /\ Len(cut) <= room /\ (Len(cut) # room => next = Len(M))
      /\ cut # <<>>
  BY <1>1, <1>3, <1>6, <1>7, CutFacts
<1>9. holder.data = <<>> /\ holder.metadata \in Seq(Nat) /\ holder.metadata \o cut = SubSeq(M, 1, next)
  <2>1. holder.data = SubSeq(D, 1, 0) /\ holder.metadata \o <<>> = SubSeq(M, 1, metadataPosition)
    BY <1>1 DEF Underway, D, M
  <2>2. holder.metadata \in Seq(Nat)
    BY <1>4 DEF Holders
  <2>3. holder.metadata \o <<>> = holder.metadata
    BY <2>2
  <2>4. holder.data = <<>>
    BY <2>1, SubSeqEmpty
  <2>5. holder.metadata = SubSeq(M, 1, metadataPosition)
    BY <2>1, <2>3
  <2>6. SubSeq(M, 1, metadataPosition) \o cut = SubSeq(M, 1, next)
    BY <1>8
  <2>. QED
    BY <2>2, <2>4, <2>5, <2>6
<1>10. holder.hasFragments => holder.metadata # <<>>
  BY <1>3 DEF Underway, M
<1>11. ~holder.hasFragments => holder.metadata = <<>> /\ metadataPosition = 0 /\ R = 0
  BY <1>1 DEF Underway, R
<1>12. input' = input /\ dataPosition' = 0 /\ ~firstFrame'
  BY <1>1, <1>2
<1>13. SubSeq(D, 1, 0) = <<>>
  BY SubSeqEmpty
<1>14. CASE full
  <2>1. ~flagged' /\ metadata' = <<>> /\ remaining' = F /\ Yield(<<>>, cut, METADATA, follows)
    BY <1>2, <1>14
  <2>2. <<>> \in Seq(Nat) /\ METADATA \in Nat
    BY DEF METADATA
  <2>3. Room' = F /\ F > 0
    BY <1>4, <1>12, <2>1 DEF Room
  <2>4. frame'.size <= F => FitInv'
    <3>1. input'.fragmentSize = F /\ Len(metadata') = 0
      BY <1>12, <2>1 DEF F
    <3>2. Len(metadata') + (IF flagged' THEN METADATA ELSE 0) + remaining' <= F
      BY <1>4, <2>1, <3>1
    <3>. QED
      BY <1>4, <2>1, <2>3, <3>1, <3>2 DEF FitInv
  <2>5. Len(<<>>) + Len(cut) + METADATA <= F
    BY <1>4, <1>6, <1>8 DEF METADATA
  <2>6. CASE follows
    <3>1. Yield(<<>>, cut, METADATA, TRUE)
      BY <2>1, <2>6
    <3>2. /\ received' = Nothing /\ holder'.hasFragments
          /\ holder'.data = holder.data \o <<>>
          /\ holder'.metadata = holder.metadata \o cut
          /\ frame'.size = Len(<<>>) + Len(cut) + METADATA
      BY <1>1, <1>4, <1>8, <1>9, <1>10, <2>2, <3>1, YieldAdds
    <3>3. /\ holder'.data = <<>> /\ holder'.metadata = SubSeq(M, 1, next)
          /\ holder'.metadata # <<>> /\ holder'.metadata \in Seq(Nat)
      <4>1. <<>> \o <<>> = <<>>
        OBVIOUS
      <4>2. holder.metadata \o cut # <<>> /\ holder.metadata \o cut \in Seq(Nat)
        <5>1. holder.metadata \in Seq(Nat) /\ cut \in Seq(Nat) /\ cut # <<>>
          BY <1>8, <1>9
        <5>2. \A s, t \in Seq(Nat) : t # <<>> => s \o t # <<>> /\ s \o t \in Seq(Nat)
          OBVIOUS
        <5>. QED
          BY <5>1, <5>2
      <4>. QED
        BY <1>9, <3>2, <4>1, <4>2
    <3>4. holder'.metadata \o metadata' = SubSeq(M, 1, next)
      BY <2>1, <3>3
    <3>5. Finished' => NeverEnds'
      <4> SUFFICES ASSUME Finished'
                   PROVE  NeverEnds'
        OBVIOUS
      <4>1. Len(D) = 0 /\ stage' = "data"
        BY <1>12 DEF Finished, D
      <4>2. ends
        BY <1>2, <4>1
      <4>. QED
        BY <1>4, <1>12, <2>6, <4>1, <4>2 DEF NeverEnds, D
    <3>. QED
      BY <1>2, <1>4, <1>12, <1>13, <2>4, <2>5, <3>2, <3>3, <3>4, <3>5 DEF Underway, M, D
  <2>7. CASE ~follows
    <3>1. ends /\ D = <<>> /\ Len(D) = 0 /\ Yield(<<>>, cut, METADATA, FALSE) /\ stage' = "data"
      BY <1>2, <1>4, <2>1, <2>7
    <3>2. holder.hasFragments
      BY <1>4, <1>6, <1>8, <1>11, <3>1
    <3>3. /\ received'.outcome = "payload"
          /\ received'.data = holder.data \o <<>>
          /\ received'.metadata = holder.metadata \o cut
          /\ frame'.size = Len(<<>>) + Len(cut) + METADATA
      BY <1>1, <1>4, <1>8, <1>9, <1>10, <2>2, <3>1, <3>2, YieldEnds
    <3>4. SubSeq(M, 1, next) = M
      BY <1>3, <3>1, SubSeqFull
    <3>5. received'.data = D /\ received'.metadata = M
      BY <1>9, <3>1, <3>3, <3>4
    <3>6. Delivered'
      BY <1>4, <1>12, <3>1, <3>3, <3>5 DEF Delivered, Finished, ArrivedWhole, D, M
    <3>. QED
      BY <2>4, <2>5, <3>3, <3>6
  <2>. QED
    BY <2>6, <2>7
<1>15. CASE ~full
  <2>1. /\ flagged' /\ metadata' = cut /\ remaining' = room - Len(cut) /\ Len(D) > 0
        /\ frame' = frame /\ holder' = holder /\ received' = Nothing
        /\ next = Len(M) /\ stage' = "data" /\ remaining' > 0
    <3>1. /\ flagged' /\ metadata' = cut /\ remaining' = room - Len(cut)
          /\ frame' = frame /\ holder' = holder /\ received' = Nothing
      BY <1>1, <1>2, <1>15
    <3>2. Len(D) > 0 /\ next = Len(M)
      BY <1>4, <1>8, <1>15
    <3>3. room - Len(cut) > 0
      <4>1. room \in Nat /\ Len(cut) \in Nat /\ Len(cut) <= room /\ Len(cut) # room
        BY <1>6, <1>8, <1>15
      <4>. QED
        BY <4>1
    <3>. QED
      BY <1>2, <3>1, <3>2, <3>3
  <2>2. Room' = remaining'
    BY <1>6, <1>8, <1>12, <2>1 DEF Room
  <2>3. FitInv'
    <3>1. input'.fragmentSize = F
      BY <1>12 DEF F
    <3>2. Len(metadata') + (IF flagged' THEN METADATA ELSE 0) + remaining' <= F
      BY <1>4, <1>6, <1>8, <2>1 DEF METADATA
    <3>. QED
      BY <1>5, <2>1, <2>2, <3>1, <3>2 DEF FitInv
  <2>4. ~Finished'
    BY <1>12, <2>1 DEF Finished, D
  <2>5. ~holder.hasFragments => Room' < Len(D)
    BY <1>4, <1>6, <1>8, <1>11, <2>1, <2>2
  <2>. QED
    BY <1>2, <1>4, <1>9, <1>10, <1>11, <1>12, <1>13, <2>1, <2>3, <2>4, <2>5 DEF Underway, M, D
<1>. QED
  BY <1>14, <1>15

\* The request frame extends what is held and is not the last fragment.
LEMMA FirstDataStep ==
  ASSUME FragmentationAssumption, ShapeInv, FitInv, Underway, FirstData
  PROVE  FitInv' /\ Underway'
<1> DEFINE M == input.metadata
           D == input.data
           R == RequestLength(input.type)
           F == input.fragmentSize
           room == remaining - R
           next == Min2(Len(D), room)
           cut == Slice(D, 0, next)
           header == R + IF flagged THEN METADATA ELSE 0
<1>1. /\ stage = "data" /\ metadataPosition = Len(M) /\ dataPosition = 0
      /\ firstFrame /\ received = Nothing /\ ~holder.hasFragments
  BY DEF FirstData, ShapeInv, StageInv, Underway
<1>2. /\ ~firstFrame' /\ dataPosition' = next /\ ~flagged' /\ metadata' = <<>> /\ remaining' = F
      /\ Yield(cut, metadata, header, TRUE)
      /\ UNCHANGED <<input, stage, metadataPosition>>
  BY DEF FirstData
<1>3. /\ M \in Seq(Nat) /\ Len(M) \in Nat /\ metadata \in Seq(Nat) /\ Len(metadata) \in Nat
      /\ D \in Seq(Nat) /\ Len(D) \in Nat
      /\ F \in Nat /\ F > 6 /\ R \in {0, 3} /\ holder \in Holders /\ remaining \in Int
  BY Facts
<1>4. Room = room
  BY <1>1 DEF Room
<1>5. /\ room >= 0 /\ room < Len(D)
      /\ Len(metadata) + (IF flagged THEN METADATA ELSE 0) + remaining <= F
  BY <1>1, <1>4 DEF FitInv, Underway
<1>6. room \in Nat /\ remaining = room + R
  BY <1>3, <1>5
<1>7. header \in Nat /\ Len(metadata) + header + room <= F
  <2>1. CASE flagged
    BY <1>3, <1>5, <1>6, <2>1 DEF METADATA
  <2>2. CASE ~flagged
    BY <1>3, <1>5, <1>6, <2>2
  <2>. QED
    BY <2>1, <2>2
<1>8. next = CutEnd(D, 0, room) /\ cut = Cut(D, 0, room)
  BY <1>6 DEF CutEnd, Cut
<1>. HIDE DEF M, D, R, F, room, next, cut, header
<1>9. 0 \in 0 .. Len(D)
  BY <1>3
<1>10. /\ next \in 0 .. Len(D) /\ cut \in Seq(Nat) /\ Len(cut) = next - 0
       /\ SubSeq(D, 1, 0) \o cut = SubSeq(D, 1, next)
       /\ Len(cut) <= room
  BY <1>3, <1>6, <1>8, <1>9, CutFacts
<1>11. holder.data = <<>> /\ holder.metadata = <<>> /\ metadata = M
  <2>1. holder.data = SubSeq(D, 1, 0) /\ holder.metadata = <<>>
        /\ holder.metadata \o metadata = SubSeq(M, 1, Len(M))
    BY <1>1 DEF Underway, D, M
  <2>2. holder.data = <<>>
    BY <2>1, SubSeqEmpty
  <2>3. SubSeq(M, 1, Len(M)) = M
    BY <1>3, SubSeqFull
  <2>4. <<>> \o metadata = metadata
    BY <1>3
  <2>. QED
    BY <2>1, <2>2, <2>3, <2>4
<1>12. /\ received' = Nothing /\ holder'.hasFragments
       /\ holder'.data = holder.data \o cut
       /\ holder'.metadata = holder.metadata \o metadata
       /\ frame'.size = Len(cut) + Len(metadata) + header
  BY <1>1, <1>2, <1>3, <1>7, <1>10, <1>11, YieldAdds
<1>13. holder'.data = SubSeq(D, 1, next) /\ holder'.metadata = M
  <2>1. <<>> \o cut = cut /\ <<>> \o M = M
    BY <1>3, <1>10
  <2>2. SubSeq(D, 1, 0) = <<>>
    BY SubSeqEmpty
  <2>. QED
    BY <1>10, <1>11, <1>12, <2>1, <2>2
<1>14. input' = input /\ stage' = "data" /\ metadataPosition' = Len(M)
  BY <1>1, <1>2
<1>15. FitInv'
  <2>1. frame'.size <= F
    BY <1>3, <1>6, <1>7, <1>10, <1>12
  <2>2. Room' = F /\ F > 0
    BY <1>2, <1>3 DEF Room
  <2>3. input'.fragmentSize = F /\ Len(metadata') = 0
    BY <1>2, <1>14 DEF F
  <2>4. Len(metadata') + (IF flagged' THEN METADATA ELSE 0) + remaining' <= F
    BY <1>2, <1>3, <2>3
  <2>. QED
    BY <1>2, <1>3, <2>1, <2>2, <2>3, <2>4 DEF FitInv
<1>16. ~Finished'
  <2>1. next # Len(D)
    BY <1>3, <1>5, <1>6, <1>10
  <2>. QED
    BY <1>2, <1>14, <2>1 DEF Finished, D
<1>17. holder'.metadata \o metadata' = SubSeq(M, 1, metadataPosition')
  <2>1. M \o <<>> = M /\ SubSeq(M, 1, Len(M)) = M
    BY <1>3, SubSeqFull
  <2>. QED
    BY <1>2, <1>13, <1>14, <2>1
<1>. QED
  BY <1>2, <1>10, <1>12, <1>13, <1>14, <1>15, <1>16, <1>17 DEF Underway, M, D

\* More data extends what is held, and the last fragment delivers the payload.
LEMMA MoreDataStep ==
  ASSUME FragmentationAssumption, ShapeInv, FitInv, Underway, MoreData
  PROVE  FitInv' /\ (Underway' \/ Delivered')
<1> DEFINE M == input.metadata
           D == input.data
           F == input.fragmentSize
           next == Min2(Len(D), dataPosition + remaining)
           cut == Slice(D, dataPosition, next)
           header == IF flagged THEN METADATA ELSE 0
<1>1. /\ stage = "data" /\ metadataPosition = Len(M) /\ ~firstFrame /\ received = Nothing
      /\ dataPosition < Len(D) /\ dataPosition \in 0 .. Len(D)
  BY DEF MoreData, ShapeInv, StageInv, Underway
<1>2. /\ ~firstFrame' /\ dataPosition' = next /\ ~flagged' /\ metadata' = <<>> /\ remaining' = F
      /\ Yield(cut, metadata, header, next # Len(D))
      /\ UNCHANGED <<input, stage, metadataPosition>>
  BY DEF MoreData
<1>3. /\ M \in Seq(Nat) /\ Len(M) \in Nat /\ metadata \in Seq(Nat) /\ Len(metadata) \in Nat
      /\ D \in Seq(Nat) /\ Len(D) \in Nat
      /\ F \in Nat /\ F > 6 /\ holder \in Holders /\ remaining \in Int
  BY Facts
<1>4. Room = remaining
  BY <1>1, <1>3 DEF Room
<1>5. /\ remaining > 0 /\ (~holder.hasFragments => remaining < Len(D) /\ dataPosition = 0)
      /\ Len(metadata) + (IF flagged THEN METADATA ELSE 0) + remaining <= F
  BY <1>1, <1>4 DEF FitInv, Underway
<1>6. header \in Nat /\ Len(metadata) + header + remaining <= F /\ remaining \in Nat
  BY <1>3, <1>5 DEF METADATA
<1>7. next = CutEnd(D, dataPosition, remaining) /\ cut = Cut(D, dataPosition, remaining)
  BY DEF CutEnd, Cut
<1>8. ~holder.hasFragments => next # Len(D)
  BY <1>3, <1>5, <1>6 DEF Min2
<1>. HIDE DEF M, D, F, next, cut, header
<1>9. /\ next \in dataPosition .. Len(D) /\ cut \in Seq(Nat) /\ Len(cut) = next - dataPosition
      /\ SubSeq(D, 1, dataPosition) \o cut = SubSeq(D, 1, next)
      /\ Len(cut) <= remaining /\ cut # <<>>
  <2>1. D \in Seq(Nat) /\ dataPosition \in 0 .. Len(D) /\ remaining \in Nat
    BY <1>1, <1>3, <1>6
  <2>2. remaining > 0 /\ dataPosition < Len(D)
    BY <1>1, <1>5
  <2>. QED
    BY <1>7, <2>1, <2>2, CutFacts
<1>10. next \in 0 .. Len(D)
  BY <1>1, <1>3, <1>9
<1>11. holder.data \o cut = SubSeq(D, 1, next)
  BY <1>9 DEF Underway, D
<1>12. holder.metadata \o metadata = M
  <2>1. SubSeq(M, 1, Len(M)) = M
    BY <1>3, SubSeqFull
  <2>. QED
    BY <1>1, <2>1 DEF Underway, M
<1>13. holder.hasFragments /\ holder.metadata = <<>> => metadata = <<>>
  <2> SUFFICES ASSUME holder.hasFragments, holder.metadata = <<>>
               PROVE  metadata = <<>>
    OBVIOUS
  <2>1. M = <<>>
    BY DEF Underway, M
  <2>2. <<>> \o metadata = metadata
    BY <1>3
  <2>. QED
    BY <1>12, <2>1, <2>2
<1>14. input' = input /\ stage' = "data" /\ metadataPosition' = Len(M)
  BY <1>1, <1>2
<1>15. Len(cut) + Len(metadata) + header <= F
  BY <1>3, <1>6, <1>9
<1>16. frame'.size = Len(cut) + Len(metadata) + header => FitInv'
  <2>1. Room' = F /\ F > 0
    BY <1>2, <1>3 DEF Room
  <2>2. input'.fragmentSize = F /\ Len(metadata') = 0
    BY <1>2, <1>14 DEF F
  <2>3. Len(metadata') + (IF flagged' THEN METADATA ELSE 0) + remaining' <= F
    BY <1>2, <1>3, <2>2
  <2>. QED
    BY <1>2, <1>3, <1>15, <2>1, <2>2, <2>3 DEF FitInv
<1>17. CASE next # Len(D)
  <2>1. Yield(cut, metadata, header, TRUE)
    BY <1>2, <1>17
  <2>2. /\ received' = Nothing /\ holder'.hasFragments
        /\ holder'.data = holder.data \o cut
        /\ holder'.metadata = holder.metadata \o metadata
        /\ frame'.size = Len(cut) + Len(metadata) + header
    BY <1>1, <1>3, <1>6, <1>9, <1>13, <2>1, YieldAdds
  <2>3. holder'.metadata \o metadata' = SubSeq(M, 1, metadataPosition')
    <3>1. M \o <<>> = M /\ SubSeq(M, 1, Len(M)) = M
      BY <1>3, SubSeqFull
    <3>. QED
      BY <1>2, <1>12, <1>14, <2>2, <3>1
  <2>4. ~Finished'
    BY <1>2, <1>14, <1>17 DEF Finished, D
  <2>. QED
    BY <1>2, <1>10, <1>11, <1>12, <1>14, <1>16, <2>2, <2>3, <2>4 DEF Underway, M, D
<1>18. CASE next = Len(D)
  <2>1. Yield(cut, metadata, header, FALSE)
    BY <1>2, <1>18
  <2>2. holder.hasFragments
    BY <1>8, <1>18
  <2>3. /\ received'.outcome = "payload"
        /\ received'.data = holder.data \o cut
        /\ received'.metadata = holder.metadata \o metadata
        /\ frame'.size = Len(cut) + Len(metadata) + header
    BY <1>1, <1>3, <1>6, <1>9, <1>13, <2>1, <2>2, YieldEnds
  <2>4. SubSeq(D, 1, next) = D
    <3>1. SubSeq(D, 1, Len(D)) = D
      BY <1>3, SubSeqFull
    <3>. QED
      BY <1>18, <3>1
  <2>5. Delivered'
    BY <1>2, <1>11, <1>12, <1>14, <1>18, <2>3, <2>4 DEF Delivered, Finished, ArrivedWhole, D, M
  <2>. QED
    BY <1>16, <2>3, <2>5
<1>. QED
  BY <1>17, <1>18

\* No step ends the round trip; once the payload is delivered there is none.
LEMMA RoundTripStep ==
  ASSUME FragmentationAssumption, RoundTripInv, [Next]_vars
  PROVE  RoundTripInv'
<1>1. ShapeInv /\ ShapeInv'
  BY ShapeStep DEF RoundTripInv
<1>2. CASE HeaderTwice
  <2>1. input' = input
    BY DEF Next, vars, generatorVars, SkipFirstMetadata, FirstMetadata, MoreMetadata, FirstData, MoreData
  <2>2. HeaderTwice'
    BY <1>2, <2>1 DEF HeaderTwice
  <2>. QED
    BY <1>1, <2>2 DEF RoundTripInv
<1>3. CASE ~HeaderTwice /\ FitInv /\ Underway
  <2>1. CASE SkipFirstMetadata
    BY <1>1, <1>3, <2>1, SkipFirstMetadataStep DEF RoundTripInv
  <2>2. CASE FirstMetadata
    BY <1>1, <1>3, <2>2, FirstMetadataStep DEF RoundTripInv
  <2>3. CASE MoreMetadata
    BY <1>1, <1>3, <2>3, MoreMetadataStep DEF RoundTripInv
  <2>4. CASE FirstData
    BY <1>1, <1>3, <2>4, FirstDataStep DEF RoundTripInv
  <2>5. CASE MoreData
    BY <1>1, <1>3, <2>5, MoreDataStep DEF RoundTripInv
  <2>6. CASE UNCHANGED vars
    <3>1. FitInv'
      BY <1>3, <2>6 DEF FitInv, Room, vars, generatorVars
    <3>2. Underway'
      BY <1>3, <2>6 DEF Underway, Room, Finished, NeverEnds, vars, generatorVars
    <3>. QED
      BY <1>1, <3>1, <3>2 DEF RoundTripInv
  <2>. QED
    BY <2>1, <2>2, <2>3, <2>4, <2>5, <2>6 DEF Next
<1>4. CASE ~HeaderTwice /\ FitInv /\ Delivered
  <2>1. stage = "data" /\ ~firstFrame /\ dataPosition = Len(input.data) /\ Len(input.data) \in Nat
    BY <1>1, <1>4, Facts DEF Delivered, Finished
  <2>2. ~Next
    <3>1. ~SkipFirstMetadata /\ ~FirstMetadata /\ ~MoreMetadata /\ ~FirstData
      BY <2>1 DEF SkipFirstMetadata, FirstMetadata, MoreMetadata, FirstData
    <3>2. ~MoreData
      BY <2>1 DEF MoreData
    <3>. QED
      BY <3>1, <3>2 DEF Next
  <2>3. UNCHANGED vars
    BY <2>2
  <2>4. FitInv'
    BY <1>4, <2>3 DEF FitInv, Room, vars, generatorVars
  <2>5. Delivered'
    BY <1>4, <2>3 DEF Delivered, Finished, ArrivedWhole, vars, generatorVars
  <2>. QED
    BY <1>1, <2>4, <2>5 DEF RoundTripInv
<1>. QED
  BY <1>2, <1>3, <1>4 DEF RoundTripInv

LEMMA RoundTripInductive ==
  ASSUME FragmentationAssumption
  PROVE  Spec => []RoundTripInv
<1>1. Init => RoundTripInv
  BY ShapeInit, RoundTripInit DEF RoundTripInv
<1>2. RoundTripInv /\ [Next]_vars => RoundTripInv'
  BY RoundTripStep
<1>. QED
  BY <1>1, <1>2, PTL DEF Spec

LEMMA RoundTripInvImplies ==
  ASSUME RoundTripInv
  PROVE  RoundTrip /\ FragmentsFit
<1>. SUFFICES ASSUME ~HeaderTwice
              PROVE  RoundTrip /\ FragmentsFit
  BY DEF RoundTrip, FragmentsFit
<1>1. FitInv /\ (Underway \/ Delivered)
  BY DEF RoundTripInv
<1>2. FragmentsFit
  BY <1>1 DEF FitInv, FragmentsFit
<1>3. CASE Underway
  BY <1>2, <1>3 DEF Underway, Nothing, RoundTrip, EveryPayloadArrives
<1>4. CASE Delivered
  BY <1>2, <1>4 DEF Delivered, RoundTrip, EveryPayloadArrives
<1>. QED
  BY <1>1, <1>3, <1>4

\* Every payload that is too big for a frame arrives byte for byte, when its last
\* fragment has been received and not before, but for the payloads that RoundTrip
\* names: for every length of data and metadata and every fragment size.
THEOREM RoundTripCorrect ==
  ASSUME FragmentationAssumption
  PROVE  Spec => []RoundTrip
<1>1. RoundTripInv => RoundTrip
  BY RoundTripInvImplies
<1>. QED
  BY <1>1, RoundTripInductive, PTL

\* No fragment is bigger than the application asked for, whatever is cut between
\* metadata and data: lengthOfFragment is a bound, and no room is ever negative.
THEOREM FragmentsFitCorrect ==
  ASSUME FragmentationAssumption
  PROVE  Spec => []FragmentsFit
<1>1. RoundTripInv => FragmentsFit
  BY RoundTripInvImplies
<1>. QED
  BY <1>1, RoundTripInductive, PTL
==============================================================================
