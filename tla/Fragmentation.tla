---------------------------- MODULE Fragmentation ----------------------------
(***************************************************************************)
(* One payload that is too big for a frame: the generators fragment and    *)
(* fragmentWithRequestN, which cut it, and the Reassembler of the peer,    *)
(* which is given the fragments in the order they were sent.               *)
(*                                                                         *)
(* The two generators are one here: fragment is fragmentWithRequestN where *)
(* the request header has length 0.  A byte is its position in the buffer, *)
(* so that a lost, repeated or misplaced byte shows; the empty sequence    *)
(* stands for an undefined buffer at the receiver, for readPayload makes   *)
(* none of zero bytes.                                                     *)
(***************************************************************************)
EXTENDS Integers, Sequences

CONSTANTS
  DataLengths, MetadataLengths,   \* of the payloads that are sent
  FragmentSizes                   \* values of maxOutboundFragmentSize

\* enum Lengths
METADATA == 3
REQUEST == 3

\* The code accepts any fragment size; with one that is no bigger than the
\* headers it sends empty fragments for ever.
ASSUME FragmentationAssumption ==
  /\ DataLengths \subseteq Nat
  /\ MetadataLengths \subseteq Nat
  /\ FragmentSizes \subseteq {n \in Nat : n > METADATA + REQUEST}

VARIABLES
  input,             \* the arguments of the generator
  stage,             \* how far the generator is
  remaining,         \* bytes left in the fragment
  firstFrame,        \* the request frame is still to be sent
  metadataPosition, dataPosition,
  flagged, metadata, \* the metadata cut for the next fragment, if any
  frame,             \* the last fragment, if any
  holder,            \* the FragmentsHolder of the receiver
  received           \* what the receiver made of the fragments

generatorVars == <<input, stage, remaining, firstFrame, metadataPosition, dataPosition, flagged, metadata>>
vars == <<generatorVars, frame, holder, received>>

Bytes(n) == [i \in 1 .. n |-> i]

RequestTypes == {"REQUEST_RESPONSE", "REQUEST_CHANNEL"}
FrameTypes == RequestTypes \cup {"PAYLOAD"}
RequestLength(type) == IF type = "REQUEST_CHANNEL" THEN REQUEST ELSE 0

\* A request-response, a fire-and-forget or a stream request does not complete.
Payloads ==
  [type : FrameTypes, fragmentSize : FragmentSizes, isComplete : BOOLEAN, hasMetadata : BOOLEAN,
   data : {Bytes(n) : n \in DataLengths}, metadata : {<<>>} \cup {Bytes(n) : n \in MetadataLengths}]

IsFragmentable(p) ==
  Len(p.data) + (IF p.hasMetadata THEN Len(p.metadata) + METADATA ELSE 0) + RequestLength(p.type)
    > p.fragmentSize

Inputs ==
  {p \in Payloads : /\ IsFragmentable(p)
                    /\ p.isComplete => p.type # "REQUEST_RESPONSE"
                    /\ ~p.hasMetadata => p.metadata = <<>>}

Min2(a, b) == IF a < b THEN a ELSE b

\* Buffer.slice: a negative position counts from the end.
Slice(s, from, to) ==
  LET Position(i) == IF i >= 0 THEN i ELSE IF Len(s) + i < 0 THEN 0 ELSE Len(s) + i
  IN SubSeq(s, Position(from) + 1, Min2(Position(to), Len(s)))

NoFrame == [data |-> <<>>, metadata |-> <<>>, size |-> 0, follows |-> TRUE]
NoFragments == [hasFragments |-> FALSE, data |-> <<>>, metadata |-> <<>>]
Nothing == [outcome |-> "none"]

TypeOK ==
  /\ input \in Inputs
  /\ stage \in {"start", "metadata", "data"}
  /\ remaining \in Int
  /\ {firstFrame, flagged} \subseteq BOOLEAN
  /\ metadataPosition \in 0 .. Len(input.metadata)
  /\ dataPosition \in Int
  /\ dataPosition <= Len(input.data)
  /\ metadata \in Seq(Nat)
  /\ frame \in [data : Seq(Nat), metadata : Seq(Nat), size : Nat, follows : BOOLEAN]
  /\ holder \in [hasFragments : BOOLEAN, data : Seq(Nat), metadata : Seq(Nat)]
  /\ received \in [outcome : {"none", "TypeError"}]
                  \cup [outcome : {"payload"}, data : Seq(Nat), metadata : Seq(Nat)]

Init ==
  /\ input \in Inputs
  /\ stage = "start"
  /\ remaining = input.fragmentSize
  /\ firstFrame = (input.type # "PAYLOAD")
  /\ metadataPosition = 0
  /\ dataPosition = 0
  /\ flagged = FALSE
  /\ metadata = <<>>
  /\ frame = NoFrame
  /\ holder = NoFragments
  /\ received = Nothing

-----------------------------------------------------------------------------
(* The receiver. *)

\* Reassembler.add and Reassembler.reassemble keep metadata only if the first
\* fragment had some, and throw a TypeError when they concatenate no data.
Add(f) ==
  /\ holder' = [hasFragments |-> TRUE,
                data |-> holder.data \o f.data,
                metadata |-> IF holder.hasFragments /\ holder.metadata = <<>> THEN <<>>
                             ELSE holder.metadata \o f.metadata]
  /\ received' = IF holder.data # <<>> /\ f.data = <<>> THEN [outcome |-> "TypeError"] ELSE received

\* Mutant: takes what is held for the payload, without the data of the last fragment.
ReassembleHeld(f) ==
  /\ holder' = NoFragments
  /\ received' = [outcome |-> "payload", data |-> holder.data, metadata |-> holder.metadata \o f.metadata]

Reassemble(f) ==
  /\ holder' = NoFragments
  /\ received' =
       IF holder.data # <<>> /\ f.data = <<>> THEN [outcome |-> "TypeError"]
       ELSE [outcome |-> "payload", data |-> holder.data \o f.data,
             metadata |-> IF holder.metadata = <<>> THEN <<>> ELSE holder.metadata \o f.metadata]

\* A stream that has failed gets no more fragments.
Receive(f) ==
  IF received.outcome = "TypeError" THEN UNCHANGED <<holder, received>>
  ELSE IF f.follows THEN Add(f) ELSE Reassemble(f)

Yield(cutData, cutMetadata, header, follows) ==
  LET f == [data |-> cutData, metadata |-> cutMetadata, follows |-> follows,
            size |-> Len(cutData) + Len(cutMetadata) + header]
  IN frame' = f /\ Receive(f)

-----------------------------------------------------------------------------
(* The generator. *)

\* No metadata, or an empty buffer of it, or a payload of a stream: nothing is
\* cut for the request frame.
SkipFirstMetadata ==
  /\ stage = "start"
  /\ input.metadata = <<>> \/ ~firstFrame
  /\ stage' = IF input.metadata = <<>> THEN "data" ELSE "metadata"
  /\ flagged' = (input.hasMetadata /\ input.metadata = <<>>)
  /\ remaining' = IF flagged' THEN remaining - METADATA ELSE remaining
  /\ UNCHANGED <<input, firstFrame, metadataPosition, dataPosition, metadata, frame, holder, received>>

\* Mutant: the position moves by the room there is, not by what was cut.
FirstMetadataUnclipped ==
  LET room == remaining - METADATA - RequestLength(input.type)
      next == Min2(Len(input.metadata), room)
      cut == Slice(input.metadata, 0, next)
      full == room = Len(cut)
  IN /\ stage = "start"
     /\ firstFrame
     /\ input.metadata # <<>>
     /\ metadataPosition' = room
     /\ stage' = IF next = Len(input.metadata) THEN "data" ELSE "metadata"
     /\ firstFrame' = ~full
     /\ flagged' = ~full
     /\ metadata' = IF full THEN <<>> ELSE cut
     /\ remaining' = IF full THEN input.fragmentSize ELSE room - Len(cut)
     /\ IF full THEN Yield(<<>>, cut, METADATA + RequestLength(input.type), TRUE)
        ELSE UNCHANGED <<frame, holder, received>>
     /\ UNCHANGED <<input, dataPosition>>

\* The metadata of the request frame; the frame is sent if it is full.
FirstMetadata ==
  LET room == remaining - METADATA - RequestLength(input.type)
      next == Min2(Len(input.metadata), room)
      cut == Slice(input.metadata, 0, next)
      full == room = Len(cut)
  IN /\ stage = "start"
     /\ firstFrame
     /\ input.metadata # <<>>
     /\ metadataPosition' = next
     /\ stage' = IF next = Len(input.metadata) THEN "data" ELSE "metadata"
     /\ firstFrame' = ~full
     /\ flagged' = ~full
     /\ metadata' = IF full THEN <<>> ELSE cut
     /\ remaining' = IF full THEN input.fragmentSize ELSE room - Len(cut)
     /\ IF full THEN Yield(<<>>, cut, METADATA + RequestLength(input.type), TRUE)
        ELSE UNCHANGED <<frame, holder, received>>
     /\ UNCHANGED <<input, dataPosition>>

\* Mutant: the header of the metadata takes no room.
MoreMetadataNoHeader ==
  LET room == remaining
      next == Min2(Len(input.metadata), metadataPosition + room)
      cut == Slice(input.metadata, metadataPosition, next)
      full == room = Len(cut) \/ input.data = <<>>
      ends == next = Len(input.metadata)
  IN /\ stage = "metadata"
     /\ metadataPosition' = next
     /\ stage' = IF ends THEN "data" ELSE "metadata"
     /\ flagged' = ~full
     /\ metadata' = IF full THEN <<>> ELSE cut
     /\ remaining' = IF full THEN input.fragmentSize ELSE room - Len(cut)
     /\ IF full THEN Yield(<<>>, cut, METADATA, ~(ends /\ input.isComplete /\ input.data = <<>>))
        ELSE UNCHANGED <<frame, holder, received>>
     /\ UNCHANGED <<input, firstFrame, dataPosition>>

\* More metadata; the fragment is sent if it is full or nothing else comes.
\* Without data the last one ends the payload only if it completes the stream.
MoreMetadata ==
  LET room == remaining - METADATA
      next == Min2(Len(input.metadata), metadataPosition + room)
      cut == Slice(input.metadata, metadataPosition, next)
      full == room = Len(cut) \/ input.data = <<>>
      ends == next = Len(input.metadata)
  IN /\ stage = "metadata"
     /\ metadataPosition' = next
     /\ stage' = IF ends THEN "data" ELSE "metadata"
     /\ flagged' = ~full
     /\ metadata' = IF full THEN <<>> ELSE cut
     /\ remaining' = IF full THEN input.fragmentSize ELSE room - Len(cut)
     /\ IF full THEN Yield(<<>>, cut, METADATA, ~(ends /\ input.isComplete /\ input.data = <<>>))
        ELSE UNCHANGED <<frame, holder, received>>
     /\ UNCHANGED <<input, firstFrame, dataPosition>>

\* The request frame, with the metadata cut for it and the room left for data.
\* The room for the request header is taken off again.
FirstData ==
  LET room == remaining - RequestLength(input.type)
      next == Min2(Len(input.data), room)
      cut == Slice(input.data, 0, next)
  IN /\ stage = "data"
     /\ firstFrame
     /\ firstFrame' = FALSE
     /\ dataPosition' = next
     /\ flagged' = FALSE
     /\ metadata' = <<>>
     /\ remaining' = input.fragmentSize
     /\ Yield(cut, metadata, RequestLength(input.type) + IF flagged THEN METADATA ELSE 0, TRUE)
     /\ UNCHANGED <<input, stage, metadataPosition>>

\* Mutant: the room is not reset when a fragment is sent.
MoreDataNoReset ==
  LET next == Min2(Len(input.data), dataPosition + remaining)
      cut == Slice(input.data, dataPosition, next)
  IN /\ stage = "data"
     /\ ~firstFrame
     /\ dataPosition < Len(input.data)
     /\ dataPosition' = next
     /\ flagged' = FALSE
     /\ metadata' = <<>>
     /\ remaining' = remaining - Len(cut)
     /\ Yield(cut, metadata, IF flagged THEN METADATA ELSE 0, next # Len(input.data))
     /\ UNCHANGED <<input, stage, firstFrame, metadataPosition>>

MoreData ==
  LET next == Min2(Len(input.data), dataPosition + remaining)
      cut == Slice(input.data, dataPosition, next)
  IN /\ stage = "data"
     /\ ~firstFrame
     /\ dataPosition < Len(input.data)
     /\ dataPosition' = next
     /\ flagged' = FALSE
     /\ metadata' = <<>>
     /\ remaining' = input.fragmentSize
     /\ Yield(cut, metadata, IF flagged THEN METADATA ELSE 0, next # Len(input.data))
     /\ UNCHANGED <<input, stage, firstFrame, metadataPosition>>

Next ==
  \/ SkipFirstMetadata
  \/ FirstMetadata
  \/ MoreMetadata
  \/ FirstData
  \/ MoreData

Spec == Init /\ [][Next]_vars

\* A generator is run to its end by the loop that sends the fragments.
FairSpec == Spec /\ WF_vars(Next)

-----------------------------------------------------------------------------
(* What fragmentation owes. *)

Finished == stage = "data" /\ ~firstFrame /\ dataPosition = Len(input.data)

\* When the metadata leaves one or two bytes of the request frame, taking the
\* room of the request header off twice makes it negative.
HeaderTwice ==
  /\ input.type = "REQUEST_CHANNEL"
  /\ input.metadata # <<>>
  /\ input.fragmentSize - METADATA - REQUEST - Len(input.metadata) \in 1 .. REQUEST - 1

\* Metadata without data whose last fragment says that others follow.
NeverEnds == input.data = <<>> /\ ~input.isComplete

ArrivedWhole ==
  /\ received.outcome = "payload"
  /\ received.data = input.data
  /\ received.metadata = input.metadata

\* Every payload that is sent is reassembled, once all its fragments have been
\* sent and not before, to the bytes it was made of.
\* Does not hold: the last fragment of a request without data says that others
\* follow.
EveryPayloadArrives ==
  /\ Finished => ArrivedWhole
  /\ received.outcome # "none" => Finished

\* The same but for the two kinds of payload the generators get wrong.
RoundTrip == HeaderTwice \/ NeverEnds \/ EveryPayloadArrives

\* No fragment is bigger than the size the application asked for, but for the
\* first of those payloads.
FragmentsFit == frame.size <= input.fragmentSize \/ HeaderTwice

\* Fragmentation ends, even of the payloads that it gets wrong.
Terminates == <>Finished
==============================================================================
