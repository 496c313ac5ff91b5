------------------------- MODULE CompositeMetadata -------------------------
(***************************************************************************)
(* Composite metadata, and the routing and authentication metadata it      *)
(* carries.  An entry is its MIME type, either a well-known one by id or a *)
(* custom one as text (then the id is Explicit), and its content.  An      *)
(* encoder returns <<>> when it throws and <<buffer>> when it does not; a  *)
(* generator that throws ends with Thrown.                                 *)
(***************************************************************************)
EXTENDS Codecs

Explicit == -1
Thrown == [throws |-> "Error"]

\* The ids of WellKnownMimeType and of WellKnownAuthType that have a meaning:
\* the others are reserved.
WellKnownMimeTypes == (0 .. 40) \union (122 .. 127)
AUTHENTICATION == 124
ROUTING == 126
SIMPLE == 0
BEARER == 1
WellKnownAuthTypes == {SIMPLE, BEARER}

\* Neither text is a valid MIME or authentication type if it has no byte, more
\* than 128, or one that is not ASCII.
isAscii(text) == \A i \in DOMAIN text : text[i] <= 127
IsTypeName(text) == isAscii(text) /\ Len(text) \in 1 .. 128

encodeCustomMetadataHeaderWhole(mime, length) ==
  Filled(4 + Len(mime), Bytes(Len(mime), 1) \o mime \o writeUInt24BE(length))
encodeCustomMetadataHeader(mime, length) ==
  Filled(4 + Len(mime), Bytes(Len(mime) - 1, 1) \o mime \o writeUInt24BE(length))

encodeWellKnownMetadataHeader(id, length) ==
  Filled(4, Bytes(128 + (id % 128), 1) \o writeUInt24BE(length))

encodeAndAddCustomMetadata(compositeMetadata, mime, content) ==
  compositeMetadata \o encodeCustomMetadataHeader(mime, Len(content)) \o content

encodeAndAddWellKnownMetadata(compositeMetadata, id, content) ==
  compositeMetadata \o encodeWellKnownMetadataHeader(id, Len(content)) \o content

\* One throw on the way and nothing is encoded.
encodeCompositeMetadata(entries) ==
  LET Add(composite, entry) ==
        IF entry.id = Explicit
        THEN encodeAndAddCustomMetadata(composite, entry.mime, entry.content)
        ELSE encodeAndAddWellKnownMetadata(composite, entry.id, entry.content)
  IN IF \A i \in DOMAIN entries : entries[i].id = Explicit => IsTypeName(entries[i].mime)
     THEN <<FoldLeft(Add, <<>>, entries)>>
     ELSE <<>>

-----------------------------------------------------------------------------
\* The first byte of an entry has its high bit set for a well-known type, and
\* is otherwise the length of the name less one.  The slice of the type keeps
\* that byte.
MimeSlice(buffer, index) ==
  LET first == buffer[index + 1]
  IN IF first >= 128 THEN Field(buffer, index, 1) ELSE Field(buffer, index, first + 2)

\* The buffers of an entry's type and content, or Thrown when the buffer ends
\* before they do.
decodeMimeAndContentBuffersSlices(buffer, index) ==
  LET first == buffer[index + 1]
      mime == MimeSlice(buffer, index)
      start == index + Len(mime)
      length == readUInt24BE(buffer, start)
  IN IF \/ first < 128 /\ Len(buffer) <= index + first + 1
        \/ Len(buffer) < start + 3
        \/ Len(buffer) < start + 3 + length
     THEN Thrown
     ELSE [mime |-> mime, content |-> Field(buffer, start + 3, length)]

isWellKnownMimeType(mime) == Len(mime) = 1

\* A slice of one byte is an id, and any other a name behind its length.
decodeMime(mime) ==
  IF isWellKnownMimeType(mime) THEN [id |-> mime[1] % 128, mime |-> <<>>]
  ELSE [id |-> Explicit, mime |-> Tail(mime)]

computeNextEntryIndex(index, slices) == index + Len(slices.mime) + 3 + Len(slices.content)

\* The entries, in order, as far as they can be decoded.
decodeCompositeMetadata(buffer) ==
  LET decode[index \in 0 .. Len(buffer)] ==
        IF index >= Len(buffer) THEN <<>>
        ELSE LET slices == decodeMimeAndContentBuffersSlices(buffer, index)
             IN IF slices = Thrown THEN <<Thrown>>
                ELSE <<decodeMime(slices.mime) @@ [content |-> slices.content]>>
                       \o decode[computeNextEntryIndex(index, slices)]
  IN decode[0]

\* The well-known type an entry says it has.  Neither a reserved id nor a name
\* is one, whatever the name.
mimeType(entry) == IF entry.id \in WellKnownMimeTypes THEN entry.id ELSE Explicit

-----------------------------------------------------------------------------
\* Routes: each behind a byte with its length.
encodeRoute(route) == Bytes(Len(route), 1) \o route

encodeRoutes(routes) ==
  IF routes = <<>> \/ \E i \in DOMAIN routes : Len(routes[i]) > 255 THEN <<>>
  ELSE <<FlattenSeq([i \in DOMAIN routes |-> encodeRoute(routes[i])])>>

\* Mutant: only the first route of an entry is read.
decodeRoutesFirst(buffer) ==
  IF buffer = <<>> THEN <<>> ELSE <<[route |-> Field(buffer, 1, buffer[1])]>>

decodeRoutes(buffer) ==
  LET decode[offset \in 0 .. Len(buffer)] ==
        IF offset >= Len(buffer) THEN <<>>
        ELSE LET length == buffer[offset + 1]
             IN IF offset + 1 + length > Len(buffer) THEN <<Thrown>>
                ELSE <<[route |-> Field(buffer, offset + 1, length)]>>
                       \o decode[offset + 1 + length]
  IN decode[0]

-----------------------------------------------------------------------------
\* Authentication: a known type by id or a custom one by name, and a payload.
encodeWellKnownAuthMetadata(id, payload) ==
  IF id \in WellKnownAuthTypes THEN <<Bytes(id + 128, 1) \o payload>> ELSE <<>>

encodeCustomAuthMetadata(name, payload) ==
  IF IsTypeName(name)
  THEN <<Filled(1 + Len(name), Bytes(Len(name) - 1, 1) \o name) \o payload>>
  ELSE <<>>

\* The user's name may have as many bytes as an uint16 can tell.
encodeSimpleAuthMetadata(username, password) ==
  Filled(3, Bytes(SIMPLE + 128, 1) \o Bytes(Len(username), 2)) \o username \o password

encodeBearerAuthMetadata(token) == Bytes(BEARER + 128, 1) \o token

decodeAuthMetadata(metadata) ==
  LET first == metadata[1]
  IN IF metadata = <<>> THEN Thrown
     ELSE IF first >= 128
     THEN [id |-> IF first % 128 \in WellKnownAuthTypes THEN first % 128 ELSE Explicit,
           name |-> <<>>, payload |-> Tail(metadata)]
     ELSE IF Len(metadata) < first + 2 THEN Thrown
     ELSE [id |-> Explicit, name |-> Field(metadata, 1, first + 1),
           payload |-> Rest(metadata, first + 2)]

decodeSimpleAuthPayload(payload) ==
  LET length == readUInt16BE(payload, 0)
  IN IF Len(payload) < 2 \/ Len(payload) < length + 2 THEN Thrown
     ELSE [username |-> Field(payload, 2, length), password |-> Rest(payload, 2 + length)]
=============================================================================
