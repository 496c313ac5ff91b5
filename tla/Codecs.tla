------------------------------- MODULE Codecs -------------------------------
(***************************************************************************)
(* The binary form of every frame.  A buffer is a sequence of bytes, and a *)
(* buffer that may be absent is <<>> (null) or <<b>>.  A uint64 is the     *)
(* pair of its halves.  Serializers allocate a buffer and fill it field by *)
(* field; deserializers are given the whole frame.                         *)
(***************************************************************************)
EXTENDS Integers, Sequences, SequencesExt

SETUP == 1
LEASE == 2
KEEPALIVE == 3
REQUEST_RESPONSE == 4
REQUEST_FNF == 5
REQUEST_STREAM == 6
REQUEST_CHANNEL == 7
REQUEST_N == 8
CANCEL == 9
PAYLOAD == 10
ERROR == 11
METADATA_PUSH == 12
RESUME == 13
RESUME_OK == 14

NEXT == 32
COMPLETE == 64       \* LEASE on a SETUP frame
FOLLOWS == 128       \* RESPOND on KEEPALIVE, RESUME_ENABLE on SETUP
METADATA == 256
IGNORE == 512

Has(flags, flag) == (flags \div flag) % 2 = 1

\* Frames of the connection itself, and the four requests.
isConnection(frame) == frame.streamId = 0
isRequest(frame) == frame.type \in REQUEST_RESPONSE .. REQUEST_CHANNEL

-----------------------------------------------------------------------------
\* The numbers: big endian, unsigned when written.
Bytes(value, width) == [i \in 1 .. width |-> (value \div 256 ^ (width - i)) % 256]

Unsigned(bytes) ==
  LET upTo[i \in 0 .. Len(bytes)] == IF i = 0 THEN 0 ELSE 256 * upTo[i - 1] + bytes[i]
  IN upTo[Len(bytes)]

Signed(bytes) ==
  IF Head(bytes) < 128 THEN Unsigned(bytes)
  ELSE (Head(bytes) - 256) * 256 ^ (Len(bytes) - 1) + Unsigned(Tail(bytes))

\* buffer.slice: from an offset to another, or as far as there are bytes.
Slice(buffer, from, to) ==
  SubSeq(buffer, from + 1, IF to < Len(buffer) THEN to ELSE Len(buffer))
Rest(buffer, from) == Slice(buffer, from, Len(buffer))
Field(buffer, offset, width) == Slice(buffer, offset, offset + width)

readUInt16BE(buffer, offset) == Unsigned(Field(buffer, offset, 2))
readUInt24BE(buffer, offset) == Unsigned(Field(buffer, offset, 3))
readInt16BE(buffer, offset) == Signed(Field(buffer, offset, 2))
readInt32BE(buffer, offset) == Signed(Field(buffer, offset, 4))
readUInt32BE(buffer, offset) == Unsigned(Field(buffer, offset, 4))

writeUInt24BE(value) == Bytes(value, 3)
readUInt64BE(buffer, offset) ==
  <<readUInt32BE(buffer, offset), readUInt32BE(buffer, offset + 4)>>
writeUInt64BE(value) == Bytes(value[1], 4) \o Bytes(value[2], 4)

\* A buffer of the size that was allocated, filled from its start: what does
\* not fit is dropped, and what is not written is whatever the memory held.
Filled(size, content) ==
  SubSeq(content, 1, IF size < Len(content) THEN size ELSE Len(content))
    \o [i \in 1 .. size - Len(content) |-> 255]

\* What a nullable buffer contributes, and how a rest that may be empty is read.
Content(nullable) == IF nullable = <<>> THEN <<>> ELSE nullable[1]
ByteLength(nullable) == Len(Content(nullable))
OrNull(buffer) == IF buffer = <<>> THEN <<>> ELSE <<buffer>>

HEADER == 6
writeHeader(frame) ==
  Bytes(frame.streamId, 4) \o Bytes(1024 * frame.type + (frame.flags % 1024), 2)

-----------------------------------------------------------------------------
\* The payload part of the frames that may carry data and metadata.
getPayloadLength(frame) ==
  ByteLength(frame.data) +
    IF Has(frame.flags, METADATA) THEN 3 + ByteLength(frame.metadata) ELSE 0

writePayload(frame) ==
  (IF Has(frame.flags, METADATA)
   THEN writeUInt24BE(ByteLength(frame.metadata)) \o Content(frame.metadata)
   ELSE <<>>)
    \o Content(frame.data)

\* The frame with what the buffer holds from the offset on.
readPayload(frame, buffer, offset) ==
  LET length == IF Has(frame.flags, METADATA) THEN readUInt24BE(buffer, offset) ELSE 0
      start == IF Has(frame.flags, METADATA) THEN offset + 3 ELSE offset
  IN [frame EXCEPT !.metadata = OrNull(Field(buffer, start, length)),
                   !.data = OrNull(Rest(buffer, start + length))]

-----------------------------------------------------------------------------
\* SETUP.  A null mime type is written, and read, as an empty one.
ResumeTokenSize(frame) ==
  IF ByteLength(frame.resumeToken) > 0 THEN 2 + ByteLength(frame.resumeToken) ELSE 0

sizeOfSetupFrame(frame) ==
  HEADER + 14 + ResumeTokenSize(frame) + Len(frame.metadataMimeType)
    + Len(frame.dataMimeType) + getPayloadLength(frame)

serializeSetupFrame(frame) ==
  Filled(HEADER + 14 + ResumeTokenSize(frame) + Len(frame.metadataMimeType)
           + Len(frame.dataMimeType) + getPayloadLength(frame),
    writeHeader(frame)
      \o Bytes(frame.majorVersion, 2) \o Bytes(frame.minorVersion, 2)
      \o Bytes(frame.keepAlive, 4) \o Bytes(frame.lifetime, 4)
      \o (IF Has(frame.flags, FOLLOWS)
          THEN Bytes(ByteLength(frame.resumeToken), 2) \o Content(frame.resumeToken)
          ELSE <<>>)
      \o Bytes(Len(frame.metadataMimeType), 1) \o frame.metadataMimeType
      \o Bytes(Len(frame.dataMimeType), 1) \o frame.dataMimeType
      \o writePayload(frame))

deserializeSetupFrame(buffer, flags) ==
  LET resumes == Has(flags, FOLLOWS)
      length == IF resumes THEN readInt16BE(buffer, HEADER + 12) ELSE 0
      token == HEADER + 12 + IF resumes THEN 2 ELSE 0
      metadataMime == token + length
      dataMime == metadataMime + 1 + Unsigned(Field(buffer, metadataMime, 1))
      payload == dataMime + 1 + Unsigned(Field(buffer, dataMime, 1))
  IN readPayload(
       [type |-> SETUP, streamId |-> 0, flags |-> flags,
        majorVersion |-> readUInt16BE(buffer, HEADER),
        minorVersion |-> readUInt16BE(buffer, HEADER + 2),
        keepAlive |-> readInt32BE(buffer, HEADER + 4),
        lifetime |-> readInt32BE(buffer, HEADER + 8),
        resumeToken |-> IF resumes THEN <<Field(buffer, token, length)>> ELSE <<>>,
        metadataMimeType |-> Slice(buffer, metadataMime + 1, dataMime),
        dataMimeType |-> Slice(buffer, dataMime + 1, payload),
        data |-> <<>>, metadata |-> <<>>],
       buffer, payload)

-----------------------------------------------------------------------------
\* ERROR.  The message is text, of which only the bytes matter here.
sizeOfErrorFrame(frame) == HEADER + 4 + Len(frame.message)

serializeErrorFrame(frame) ==
  Filled(HEADER + 4 + Len(frame.message),
         writeHeader(frame) \o Bytes(frame.code, 4) \o frame.message)

deserializeErrorFrame(buffer, streamId, flags) ==
  [type |-> ERROR, streamId |-> streamId, flags |-> flags,
   code |-> readInt32BE(buffer, HEADER), message |-> Rest(buffer, HEADER + 4)]

\* KEEPALIVE.
sizeOfKeepAliveFrame(frame) == HEADER + 8 + ByteLength(frame.data)

serializeKeepAliveFrame(frame) ==
  Filled(HEADER + 8 + ByteLength(frame.data),
         writeHeader(frame) \o writeUInt64BE(frame.lastReceivedPosition)
           \o Content(frame.data))

deserializeKeepAliveFrame(buffer, flags) ==
  [type |-> KEEPALIVE, streamId |-> 0, flags |-> flags,
   lastReceivedPosition |-> readUInt64BE(buffer, HEADER),
   data |-> OrNull(Rest(buffer, HEADER + 8))]

\* LEASE.
sizeOfLeaseFrameFixed(frame) == HEADER + 8
sizeOfLeaseFrame(frame) == HEADER + 8 + ByteLength(frame.metadata)

serializeLeaseFrame(frame) ==
  Filled(HEADER + 8 + ByteLength(frame.metadata),
         writeHeader(frame) \o Bytes(frame.ttl, 4) \o Bytes(frame.requestCount, 4)
           \o Content(frame.metadata))

deserializeLeaseFrame(buffer, flags) ==
  [type |-> LEASE, streamId |-> 0, flags |-> flags,
   ttl |-> readUInt32BE(buffer, HEADER),
   requestCount |-> readUInt32BE(buffer, HEADER + 4),
   metadata |-> OrNull(Rest(buffer, HEADER + 8))]

-----------------------------------------------------------------------------
\* REQUEST_RESPONSE and REQUEST_FNF, and PAYLOAD, which has the same shape.
sizeOfRequestFrame(frame) == HEADER + getPayloadLength(frame)
sizeOfPayloadFrame(frame) == HEADER + getPayloadLength(frame)

serializeRequestFrame(frame) ==
  Filled(HEADER + getPayloadLength(frame), writeHeader(frame) \o writePayload(frame))

serializePayloadFrame(frame) ==
  Filled(HEADER + getPayloadLength(frame), writeHeader(frame) \o writePayload(frame))

deserializeRequestFrame(buffer, type, streamId, flags) ==
  readPayload([type |-> type, streamId |-> streamId, flags |-> flags,
               data |-> <<>>, metadata |-> <<>>], buffer, HEADER)

deserializePayloadFrame(buffer, streamId, flags) ==
  readPayload([type |-> PAYLOAD, streamId |-> streamId, flags |-> flags,
               data |-> <<>>, metadata |-> <<>>], buffer, HEADER)

\* REQUEST_STREAM and REQUEST_CHANNEL.
sizeOfRequestManyFrame(frame) == HEADER + 4 + getPayloadLength(frame)

serializeRequestManyFrame(frame) ==
  Filled(HEADER + 4 + getPayloadLength(frame),
         writeHeader(frame) \o Bytes(frame.requestN, 4) \o writePayload(frame))

deserializeRequestManyFrame(buffer, type, streamId, flags) ==
  readPayload([type |-> type, streamId |-> streamId, flags |-> flags,
               requestN |-> readInt32BE(buffer, HEADER),
               data |-> <<>>, metadata |-> <<>>], buffer, HEADER + 4)

\* METADATA_PUSH.  Its deserializer names a variable that does not exist
\* ("length"), so that it throws whatever it is given.
sizeOfMetadataPushFrame(frame) == HEADER + ByteLength(frame.metadata)

serializeMetadataPushFrame(frame) ==
  Filled(HEADER + ByteLength(frame.metadata),
         writeHeader(frame) \o Content(frame.metadata))

deserializeMetadataPushFrame == [throws |-> "ReferenceError"]

\* REQUEST_N and CANCEL.
sizeOfRequestNFrame(frame) == HEADER + 4
serializeRequestNFrame(frame) ==
  Filled(HEADER + 4, writeHeader(frame) \o Bytes(frame.requestN, 4))

deserializeRequestNFrame(buffer, streamId, flags) ==
  [type |-> REQUEST_N, streamId |-> streamId, flags |-> flags,
   requestN |-> readInt32BE(buffer, HEADER)]

sizeOfCancelFrame(frame) == HEADER
serializeCancelFrame(frame) == Filled(HEADER, writeHeader(frame))
deserializeCancelFrame(streamId, flags) ==
  [type |-> CANCEL, streamId |-> streamId, flags |-> flags]

-----------------------------------------------------------------------------
\* RESUME and RESUME_OK.
sizeOfResumeFrame(frame) == HEADER + 22 + Len(frame.resumeToken)

serializeResumeFrame(frame) ==
  Filled(HEADER + 22 + Len(frame.resumeToken),
    writeHeader(frame)
      \o Bytes(frame.majorVersion, 2) \o Bytes(frame.minorVersion, 2)
      \o Bytes(Len(frame.resumeToken), 2) \o frame.resumeToken
      \o writeUInt64BE(frame.serverPosition) \o writeUInt64BE(frame.clientPosition))

deserializeResumeFrame(buffer, flags) ==
  LET token == HEADER + 6
      positions == token + readInt16BE(buffer, HEADER + 4)
  IN [type |-> RESUME, streamId |-> 0, flags |-> flags,
      majorVersion |-> readUInt16BE(buffer, HEADER),
      minorVersion |-> readUInt16BE(buffer, HEADER + 2),
      resumeToken |-> Slice(buffer, token, positions),
      serverPosition |-> readUInt64BE(buffer, positions),
      clientPosition |-> readUInt64BE(buffer, positions + 8)]

sizeOfResumeOkFrame(frame) == HEADER + 8

serializeResumeOkFrame(frame) ==
  Filled(HEADER + 8, writeHeader(frame) \o writeUInt64BE(frame.clientPosition))

deserializeResumeOkFrame(buffer, flags) ==
  [type |-> RESUME_OK, streamId |-> 0, flags |-> flags,
   clientPosition |-> readUInt64BE(buffer, HEADER)]

-----------------------------------------------------------------------------
\* The three dispatchers on the type of the frame.
serializeFrame(frame) ==
  CASE frame.type = SETUP -> serializeSetupFrame(frame)
    [] frame.type = PAYLOAD -> serializePayloadFrame(frame)
    [] frame.type = ERROR -> serializeErrorFrame(frame)
    [] frame.type = KEEPALIVE -> serializeKeepAliveFrame(frame)
    [] frame.type \in {REQUEST_FNF, REQUEST_RESPONSE} -> serializeRequestFrame(frame)
    [] frame.type \in {REQUEST_STREAM, REQUEST_CHANNEL} -> serializeRequestManyFrame(frame)
    [] frame.type = METADATA_PUSH -> serializeMetadataPushFrame(frame)
    [] frame.type = REQUEST_N -> serializeRequestNFrame(frame)
    [] frame.type = RESUME -> serializeResumeFrame(frame)
    [] frame.type = RESUME_OK -> serializeResumeOkFrame(frame)
    [] frame.type = CANCEL -> serializeCancelFrame(frame)
    [] frame.type = LEASE -> serializeLeaseFrame(frame)

sizeOfFrame(frame) ==
  CASE frame.type = SETUP -> sizeOfSetupFrame(frame)
    [] frame.type = PAYLOAD -> sizeOfPayloadFrame(frame)
    [] frame.type = ERROR -> sizeOfErrorFrame(frame)
    [] frame.type = KEEPALIVE -> sizeOfKeepAliveFrame(frame)
    [] frame.type \in {REQUEST_FNF, REQUEST_RESPONSE} -> sizeOfRequestFrame(frame)
    [] frame.type \in {REQUEST_STREAM, REQUEST_CHANNEL} -> sizeOfRequestManyFrame(frame)
    [] frame.type = METADATA_PUSH -> sizeOfMetadataPushFrame(frame)
    [] frame.type = REQUEST_N -> sizeOfRequestNFrame(frame)
    [] frame.type = RESUME -> sizeOfResumeFrame(frame)
    [] frame.type = RESUME_OK -> sizeOfResumeOkFrame(frame)
    [] frame.type = CANCEL -> sizeOfCancelFrame(frame)
    [] frame.type = LEASE -> sizeOfLeaseFrame(frame)

deserializeFrame(buffer) ==
  LET streamId == readInt32BE(buffer, 0)
      word == readUInt16BE(buffer, 4)
      type == word \div 1024
      flags == word % 1024
  IN CASE type = SETUP -> deserializeSetupFrame(buffer, flags)
       [] type = PAYLOAD -> deserializePayloadFrame(buffer, streamId, flags)
       [] type = ERROR -> deserializeErrorFrame(buffer, streamId, flags)
       [] type = KEEPALIVE -> deserializeKeepAliveFrame(buffer, flags)
       [] type \in {REQUEST_FNF, REQUEST_RESPONSE} ->
            deserializeRequestFrame(buffer, type, streamId, flags)
       [] type \in {REQUEST_STREAM, REQUEST_CHANNEL} ->
            deserializeRequestManyFrame(buffer, type, streamId, flags)
       [] type = METADATA_PUSH -> deserializeMetadataPushFrame
       [] type = REQUEST_N -> deserializeRequestNFrame(buffer, streamId, flags)
       [] type = RESUME -> deserializeResumeFrame(buffer, flags)
       [] type = RESUME_OK -> deserializeResumeOkFrame(buffer, flags)
       [] type = CANCEL -> deserializeCancelFrame(streamId, flags)
       [] type = LEASE -> deserializeLeaseFrame(buffer, flags)
       [] OTHER -> [throws |-> "TypeError"]

-----------------------------------------------------------------------------
\* Length-prefixed frames, as TCP carries them.
serializeFrameWithLength(frame) ==
  LET buffer == serializeFrame(frame)
  IN Filled(Len(buffer) + 3, writeUInt24BE(Len(buffer)) \o buffer)

deserializeFrameWithLength(buffer) ==
  deserializeFrame(Field(buffer, 3, readUInt24BE(buffer, 0)))

\* Where the frame that starts at an offset ends, and whether it is all there.
frameEnd(buffer, offset) == offset + 3 + readUInt24BE(buffer, offset)
IsWholeAndMore(buffer, offset) ==
  offset + 3 < Len(buffer) /\ frameEnd(buffer, offset) < Len(buffer)
IsWhole(buffer, offset) ==
  /\ offset + 3 < Len(buffer)
  /\ frameEnd(buffer, offset) <= Len(buffer)

\* The offsets at which the whole frames of a buffer start.
Starts(buffer) ==
  LET next[offset \in 0 .. Len(buffer)] ==
        IF IsWhole(buffer, offset) THEN <<offset>> \o next[frameEnd(buffer, offset)]
        ELSE <<>>
  IN next[0]

\* The frames, and the offset after the last one, of a buffer of zero or more
\* frames and zero or more bytes of another.
deserializeFrames(buffer) ==
  LET Frame(start) == deserializeFrame(Slice(buffer, start + 3, frameEnd(buffer, start)))
  IN FoldLeft(LAMBDA frames, start : Append(frames, Frame(start)), <<>>, Starts(buffer))

lastOffset(buffer) ==
  IF Starts(buffer) = <<>> THEN 0 ELSE frameEnd(buffer, Last(Starts(buffer)))
=============================================================================
