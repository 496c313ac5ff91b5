-------------------------------- MODULE Wire --------------------------------
(***************************************************************************)
(* One direction of a DuplexConnection, over TCP or over a WebSocket: what *)
(* a peer sends, the bytes or messages on their way, and the end that      *)
(* reads them.  A client listens from the start.  A server waits for the   *)
(* first data to make its connection of, and reads no more until the       *)
(* acceptor has taken that connection.                                     *)
(***************************************************************************)
EXTENDS CompositeMetadata

CONSTANTS
  Openers,      \* the frames a client's connection starts with
  Frames,       \* the frames that may follow, or that a server sends
  MaxFrames,    \* how many frames the peer sends
  ChunkSizes    \* how many bytes a TCP socket may hand over at a time

ASSUME WireAssumption ==
  MaxFrames \in Nat \ {0} /\ ChunkSizes \subseteq Nat \ {0}

VARIABLES
  link,         \* "tcp" or "ws"
  role,         \* the reading end: "server" or "client"
  sent,         \* the frames the peer has sent
  wire,         \* what the reading end has not been handed: bytes, or messages
  conn,         \* "none", "open", "closed", or "deaf" (nothing listens any more)
  awaiting,     \* the acceptor has been called and has not answered
  held,         \* what followed the first frame in the first chunk
  remaining,    \* remainingBuffer
  handled       \* the frames given to the acceptor or to the multiplexer

vars == <<link, role, sent, wire, conn, awaiting, held, remaining, handled>>

Init ==
  /\ link \in {"tcp", "ws"}
  /\ role \in {"server", "client"}
  /\ sent = <<>> /\ wire = <<>>
  /\ conn = IF role = "server" THEN "none" ELSE "open"
  /\ awaiting = FALSE
  /\ held = <<>> /\ remaining = <<>> /\ handled = <<>>

Encoded(frame) ==
  IF link = "tcp" THEN serializeFrameWithLength(frame) ELSE <<serializeFrame(frame)>>

Send(frame) ==
  /\ sent' = Append(sent, frame)
  /\ wire' = wire \o Encoded(frame)
  /\ UNCHANGED <<link, role, conn, awaiting, held, remaining, handled>>

Sends ==
  /\ Len(sent) < MaxFrames
  /\ \E frame \in IF role = "server" /\ sent = <<>> THEN Openers ELSE Frames : Send(frame)

-----------------------------------------------------------------------------
\* What the socket hands over at once: some bytes, or one message.
Sizes == IF link = "ws" THEN {1} ELSE {IF k < Len(wire) THEN k ELSE Len(wire) : k \in ChunkSizes}
Chunk(k) == SubSeq(wire, 1, k)

\* The frames in front of the first one that cannot be decoded.
Throws(frame) == "throws" \in DOMAIN frame
Decodable(frames) ==
  SubSeq(frames, 1, SelectInSeq(frames, Throws) - 1)

\* The frames of a chunk are handled one by one.  One that cannot be decoded
\* closes the connection, and remainingBuffer is not brought up to date.
HandleFrames(frames, rest) ==
  IF SelectInSeq(frames, Throws) = 0
  THEN handled' = handled \o frames /\ remaining' = rest /\ UNCHANGED conn
  ELSE handled' = handled \o Decodable(frames) /\ conn' = "closed" /\ UNCHANGED remaining

HandleData(chunk) ==
  LET buffer == remaining \o chunk
  IN HandleFrames(deserializeFrames(buffer), Rest(buffer, lastOffset(buffer)))

HandleMessage(message) == HandleFrames(<<deserializeFrame(message)>>, remaining)

Data(k) ==
  /\ conn = "open" /\ ~awaiting
  /\ wire' = Rest(wire, k)
  /\ IF link = "tcp" THEN HandleData(Chunk(k)) ELSE HandleMessage(Chunk(k)[1])
  /\ UNCHANGED <<link, role, sent, awaiting, held>>

\* The first data of a server's connection.  The multiplexer's factory may
\* close the connection it is being made for; otherwise the frame goes to the
\* acceptor.  Data that does not hold a whole frame leaves the listener gone
\* and no connection made.
FirstData(k) ==
  LET frames == IF link = "tcp" THEN deserializeFrames(Chunk(k))
                ELSE <<deserializeFrame(Chunk(k)[1])>>
      rest == IF link = "tcp" /\ frames # <<>> THEN Rest(Chunk(k), frameEnd(Chunk(k), 0))
              ELSE <<>>
  IN /\ conn = "none"
     /\ wire' = Rest(wire, k)
     /\ IF frames = <<>>
        THEN conn' = "deaf" /\ UNCHANGED <<awaiting, held, handled>>
        ELSE \/ conn' = "closed" /\ UNCHANGED <<awaiting, held, handled>>
             \/ /\ conn' = "open" /\ awaiting' = TRUE
                /\ held' = rest /\ handled' = <<frames[1]>>
     /\ UNCHANGED <<link, role, sent, remaining>>

\* The acceptor has taken the connection: the rest of the first chunk is
\* handled, and the socket goes on, whether or not the connection still does.
Accepted ==
  /\ awaiting /\ awaiting' = FALSE /\ held' = <<>>
  /\ IF held # <<>> THEN HandleData(held) ELSE UNCHANGED <<conn, remaining, handled>>
  /\ UNCHANGED <<link, role, sent, wire>>

AcceptorThrows ==
  /\ awaiting /\ awaiting' = FALSE /\ held' = <<>>
  /\ conn' = "closed"
  /\ UNCHANGED <<link, role, sent, wire, remaining, handled>>

\* close(), or the socket's "close" or "error": the listeners are removed.
Close ==
  /\ conn = "open" /\ conn' = "closed"
  /\ UNCHANGED <<link, role, sent, wire, awaiting, held, remaining, handled>>

ReadStep ==
  \/ wire # <<>> /\ \E k \in Sizes : Data(k) \/ FirstData(k)
  \/ Accepted
  \/ AcceptorThrows

Next == Sends \/ ReadStep \/ Close

Spec == Init /\ [][Next]_vars

-----------------------------------------------------------------------------
\* A frame as the other end gets it: what is empty arrives as null.
Received(frame) ==
  [field \in DOMAIN frame |->
     IF field \in {"data", "metadata"} /\ frame[field] = <<<<>>>> THEN <<>>
     ELSE frame[field]]

\* What the peer's frames were made of is what the reading end handles, in
\* order and without a gap.  As long as it listens, every byte that is not in a
\* handled frame is in remainingBuffer, held back or on the wire; and no whole
\* frame is left in remainingBuffer, where only more data would bring it out.
FramesIntact ==
  /\ Len(handled) <= Len(sent)
  /\ \A i \in DOMAIN handled : handled[i] = Received(sent[i])
  /\ conn = "open" =>
       FlattenSeq([i \in DOMAIN handled |-> Encoded(sent[i])]) \o remaining \o held \o wire
         = FlattenSeq([i \in DOMAIN sent |-> Encoded(sent[i])])
  /\ conn = "open" /\ Len(remaining) >= 3 => Len(remaining) - 3 < readUInt24BE(remaining, 0)

\* The two ends count the same bytes for a frame, which is what positions in a
\* resumable session are made of: the size before it is sent, the size of its
\* encoding and the size of what was decoded.
SizesAgree ==
  \A i \in DOMAIN sent :
    LET frame == deserializeFrame(serializeFrame(sent[i]))
    IN /\ sizeOfFrame(sent[i]) = Len(serializeFrame(sent[i]))
       /\ ~Throws(frame) => sizeOfFrame(frame) = sizeOfFrame(sent[i])
=============================================================================
