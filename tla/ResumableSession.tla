--------------------------- MODULE ResumableSession ---------------------------
(***************************************************************************)
(* A resumable session: the ResumableClientServerInputMultiplexer-         *)
(* Demultiplexer and the FrameStore of a client and of a server, over a    *)
(* succession of TCP connections that the client opens again when one is   *)
(* lost.  Initially connection 1 is open and its SETUP has been accepted.  *)
(*                                                                         *)
(* The stream frames a peer sends are numbered 1, 2, ...; FramePos[p][n]   *)
(* is the byte position after frame n of p, so that frame sizes are        *)
(* arbitrary.  FrameStore.storedFrames always holds an interval of these   *)
(* frames: dropped[p]+1 .. sent[p].  One frame is handled per step.        *)
(***************************************************************************)
EXTENDS Integers, Sequences

CONSTANTS
  MaxFrames,            \* bound: MaxFrames[p] stream frames are sent by p
  MaxConns,             \* bound: connections of a session; the last one is never lost
  FramePos,             \* FramePos[p][n]: bytes of the first n stream frames of p
  ServerKeepAlive,      \* serverSideKeepAlive of RSocketServer
  StaleConnections,     \* RESUME may arrive before the server sees the old connection close
  TokenReuse            \* another client may set a session up under the same resume token

Client == "client"
Server == "server"
Peers == {Client, Server}
Other(p) == IF p = Client THEN Server ELSE Client

Conns == 1 .. MaxConns
FrameNumbers == UNION {1 .. MaxFrames[p] : p \in Peers}

ASSUME SessionAssumption ==
  /\ MaxFrames \in [Peers -> Nat]
  /\ MaxConns \in Nat \ {0}
  /\ \A p \in Peers : FramePos[p] \in [0 .. MaxFrames[p] -> Nat] /\ FramePos[p][0] = 0
  /\ \A p \in Peers : \A m, n \in 0 .. MaxFrames[p] : m < n => FramePos[p][m] < FramePos[p][n]
  /\ {ServerKeepAlive, StaleConnections, TokenReuse} \subseteq BOOLEAN

VARIABLES
  conn,            \* conn[c][p]: p's end of connection c, "none", "open" or "done"
  pipe,            \* pipe[c][p]: frames on their way to p
  awaiting,        \* connections on which the client waits for RESUME_OK
  outbound,        \* outbound[p]: the connection p's multiplexer sends on
  watched,         \* watched[p]: connections whose close runs p's handleConnectionClose
  sent,            \* stream frames p has stored (and sent or tried to)
  dropped,         \* stream frames p's FrameStore no longer has
  firstAvailable,  \* _firstAvailableFramePosition
  lastReceived,    \* _lastReceivedFramePosition
  delivered,       \* history: numbers of the stream frames handed to p's handlers
  muxDone,         \* muxDone[p]: p's session is closed
  inconsistent,    \* history: dropTo of p threw "State inconsistency"
  reconnecting,    \* the client's reconnector waits for reconnectFunction
  inStore,         \* sessionStore has the server's session
  timers,          \* session timers set and not cleared, named by the connection whose close set them
  timeoutId,       \* the timer the server remembers, 0 if none
  keepAlive        \* keepAlive[p]: state of p's KeepAliveHandler and KeepAliveSender

netVars == <<conn, pipe>>
storeVars == <<sent, dropped, firstAvailable, lastReceived, delivered, inconsistent>>
clientVars == <<awaiting, reconnecting>>
serverVars == <<inStore, timers, timeoutId>>
vars == <<netVars, storeVars, clientVars, serverVars, outbound, watched, muxDone, keepAlive>>

StreamFrame(n) == [type |-> "STREAM", n |-> n]
KeepAliveFrame(p, respond) ==
  [type |-> "KEEPALIVE", lastReceivedPosition |-> lastReceived[p], respond |-> respond]
ErrorFrame == [type |-> "ERROR"]

Frames ==
       [type : {"STREAM"}, n : FrameNumbers]
  \cup [type : {"KEEPALIVE"}, lastReceivedPosition : Nat, respond : BOOLEAN]
  \cup [type : {"RESUME"}, clientPosition : Nat, serverPosition : Nat]
  \cup [type : {"RESUME_OK"}, clientPosition : Nat]
  \cup [type : {"ERROR"}]

TypeOK ==
  /\ conn \in [Conns -> [Peers -> {"none", "open", "done"}]]
  /\ pipe \in [Conns -> [Peers -> Seq(Frames)]]
  /\ awaiting \subseteq Conns
  /\ outbound \in [Peers -> Conns]
  /\ watched \in [Peers -> SUBSET Conns]
  /\ sent \in [Peers -> Nat]
  /\ dropped \in [Peers -> Nat]
  /\ \A p \in Peers : dropped[p] <= sent[p] /\ sent[p] <= MaxFrames[p]
  /\ firstAvailable \in [Peers -> Nat]
  /\ lastReceived \in [Peers -> Nat]
  /\ delivered \in [Peers -> Seq(FrameNumbers)]
  /\ muxDone \in [Peers -> BOOLEAN]
  /\ inconsistent \in [Peers -> BOOLEAN]
  /\ reconnecting \in BOOLEAN
  /\ inStore \in BOOLEAN
  /\ timers \subseteq Conns
  /\ timeoutId \in 0 .. MaxConns
  /\ keepAlive \in [Peers -> {"paused", "running", "closed"}]

Init ==
  /\ conn = [c \in Conns |-> [p \in Peers |-> IF c = 1 THEN "open" ELSE "none"]]
  /\ pipe = [c \in Conns |-> [p \in Peers |-> <<>>]]
  /\ awaiting = {}
  /\ outbound = [p \in Peers |-> 1]
  /\ watched = [p \in Peers |-> {1}]
  /\ sent = [p \in Peers |-> 0]
  /\ dropped = [p \in Peers |-> 0]
  /\ firstAvailable = [p \in Peers |-> 0]
  /\ lastReceived = [p \in Peers |-> 0]
  /\ delivered = [p \in Peers |-> <<>>]
  /\ muxDone = [p \in Peers |-> FALSE]
  /\ inconsistent = [p \in Peers |-> FALSE]
  /\ reconnecting = FALSE
  /\ inStore = TRUE
  /\ timers = {}
  /\ timeoutId = 0
  /\ keepAlive = [p \in Peers |-> "running"]

-----------------------------------------------------------------------------
(* The network and FrameStore. *)

Received(c, p, type) ==
  /\ conn[c][p] = "open"
  /\ pipe[c][p] # <<>>
  /\ Head(pipe[c][p]).type = type

\* p takes the first frame of connection c (if "takes") and sends frames on
\* connection d; what is sent on a connection that is done, or to a peer whose
\* end is done, is lost.
Transfer(c, p, takes, d, frames) ==
  pipe' = [x \in Conns |-> [y \in Peers |->
             (IF takes /\ x = c /\ y = p THEN Tail(pipe[x][y]) ELSE pipe[x][y])
             \o (IF x = d /\ y = Other(p) /\ conn[d][p] = "open" /\ conn[d][y] = "open"
                 THEN frames ELSE <<>>)]]

Send(p, frame) == Transfer(outbound[p], p, FALSE, outbound[p], <<frame>>)

Size(p, from, to) == FramePos[p][to] - FramePos[p][from]

\* The loop of dropTo shifts the frames dropped[p]+1 .. to.
DropsUpTo(p, position, to) ==
  LET bytesToDrop == position - firstAvailable[p]
  IN /\ to \in dropped[p] .. sent[p]
     /\ to > dropped[p] => Size(p, dropped[p], to - 1) < bytesToDrop
     /\ to < sent[p] => Size(p, dropped[p], to) >= bytesToDrop

\* dropTo throws unless the frames it shifted have exactly the bytes to drop.
DropThrows(p, position, to) == Size(p, dropped[p], to) # position - firstAvailable[p]

\* Mutant: the loop shifts one frame more.
DropOneTooMany(p, position, to) ==
  /\ DropsUpTo(p, position, to)
  /\ ~DropThrows(p, position, to)
  /\ dropped' = [dropped EXCEPT ![p] = to + 1]
  /\ firstAvailable' = [firstAvailable EXCEPT ![p] = position]
  /\ UNCHANGED inconsistent

\* Mutant: the first available position is not moved.
DropToForgetful(p, position, to) ==
  /\ DropsUpTo(p, position, to)
  /\ ~DropThrows(p, position, to)
  /\ dropped' = [dropped EXCEPT ![p] = to]
  /\ UNCHANGED <<firstAvailable, inconsistent>>

DropTo(p, position, to) ==
  /\ DropsUpTo(p, position, to)
  /\ ~DropThrows(p, position, to)
  /\ dropped' = [dropped EXCEPT ![p] = to]
  /\ firstAvailable' = [firstAvailable EXCEPT ![p] = position]
  /\ UNCHANGED inconsistent

DropToFails(p, position, to) ==
  /\ DropsUpTo(p, position, to)
  /\ DropThrows(p, position, to)
  /\ dropped' = [dropped EXCEPT ![p] = to]
  /\ inconsistent' = [inconsistent EXCEPT ![p] = TRUE]
  /\ UNCHANGED firstAvailable

\* Mutant: drain starts at the second stored frame.
StoredFramesButOne(p, from) == [i \in 1 .. sent[p] - from - 1 |-> StreamFrame(from + i + 1)]

StoredFrames(p, from) == [i \in 1 .. sent[p] - from |-> StreamFrame(from + i)]

CloseSession(p) == muxDone' = [muxDone EXCEPT ![p] = TRUE]

\* The effects of the close of p's end of connection c: handleConnectionClose
\* (pause, then the reconnector or the session timer) if p's multiplexer
\* watches it, and the close of the keepalives, which the connector and the
\* server registered on connection 1 only.
HandleConnectionClose(c, p) ==
  /\ conn' = [conn EXCEPT ![c][p] = "done"]
  /\ reconnecting' = (reconnecting \/ (p = Client /\ c \in watched[p]))
  /\ timers' = IF p = Server /\ c \in watched[p] THEN timers \cup {c} ELSE timers
  /\ timeoutId' = IF p = Server /\ c \in watched[p] THEN c ELSE timeoutId
  /\ keepAlive' = [keepAlive EXCEPT ![p] =
                     IF c = 1 THEN "closed"
                     ELSE IF c \in watched[p] /\ @ = "running" THEN "paused" ELSE @]

\* connectionFramesHandler.resume()
ResumeKeepAlive(p) ==
  keepAlive' = [keepAlive EXCEPT ![p] = IF @ = "paused" THEN "running" ELSE @]

-----------------------------------------------------------------------------
(* What the application and the timers do. *)

\* A stream of p sends its next frame, also when the session is closed: close()
\* of a responder stream does not set done, and send() of the session does not look.
SendStreamFrame(p) ==
  /\ sent[p] < MaxFrames[p]
  /\ sent' = [sent EXCEPT ![p] = @ + 1]
  /\ Send(p, StreamFrame(sent[p] + 1))
  /\ UNCHANGED <<dropped, firstAvailable, lastReceived, delivered, inconsistent>>
  /\ UNCHANGED <<conn, clientVars, serverVars, outbound, watched, muxDone, keepAlive>>

\* A keepalive of p, or the answer to it, is on its way.
KeepAlivePending(p) ==
  \E c \in Conns, q \in Peers : \E i \in DOMAIN pipe[c][q] :
    /\ pipe[c][q][i].type = "KEEPALIVE"
    /\ pipe[c][q][i].respond = (q # p)

\* KeepAliveSender fires; one keepalive of p is on its way at a time (a bound).
SendKeepAlive(p) ==
  /\ p = Client \/ ServerKeepAlive
  /\ keepAlive[p] = "running"
  /\ ~KeepAlivePending(p)
  /\ Send(p, KeepAliveFrame(p, TRUE))
  /\ UNCHANGED <<conn, storeVars, clientVars, serverVars, outbound, watched, muxDone, keepAlive>>

\* The session timer the server set for the close of connection c fires.
SessionTimeout(c) ==
  /\ c \in timers
  /\ timers' = timers \ {c}
  /\ CloseSession(Server)
  /\ UNCHANGED <<netVars, storeVars, clientVars, inStore, timeoutId, outbound, watched, keepAlive>>

-----------------------------------------------------------------------------
(* Connections. *)

CloseEnd(c, p) ==
  /\ conn[c][p] = "open"
  /\ HandleConnectionClose(c, p)
  /\ pipe' = [pipe EXCEPT ![c][p] = <<>>]
  /\ UNCHANGED <<storeVars, awaiting, inStore, outbound, watched, muxDone>>

\* p's socket closes: a network failure, a keepalive timeout or, on connection 1,
\* close() of p's RSocket, which keeps the connection it was made with.
LoseConnection(c, p) ==
  /\ c < MaxConns
  /\ CloseEnd(c, p)

\* p's socket closes because the other end did; what was on its way is lost.
PeerClosed(c, p) ==
  /\ conn[c][Other(p)] = "done"
  /\ CloseEnd(c, p)

\* Mutant: the reconnector starts a connection and goes on.
ReconnectAgain ==
  /\ reconnecting
  /\ \E c \in Conns :
       /\ conn[c][Client] = "none"
       /\ \A d \in Conns : d < c => conn[d][Client] # "none"
       /\ conn' = [conn EXCEPT ![c] = [p \in Peers |-> "open"]]
       /\ pipe' = [pipe EXCEPT ![c][Server] =
                     <<[type |-> "RESUME", clientPosition |-> firstAvailable[Client],
                        serverPosition |-> lastReceived[Client]]>>]
       /\ awaiting' = awaiting \cup {c}
  /\ UNCHANGED <<storeVars, reconnecting, serverVars, outbound, watched, muxDone, keepAlive>>

\* reconnectFunction resolves and the transport connects: the multiplexer
\* provider sends RESUME at once.
Reconnect ==
  /\ reconnecting
  /\ \E c \in Conns :
       /\ conn[c][Client] = "none"
       /\ \A d \in Conns : d < c => conn[d][Client] # "none"
       /\ conn' = [conn EXCEPT ![c] = [p \in Peers |-> "open"]]
       /\ pipe' = [pipe EXCEPT ![c][Server] =
                     <<[type |-> "RESUME", clientPosition |-> firstAvailable[Client],
                        serverPosition |-> lastReceived[Client]]>>]
       /\ awaiting' = awaiting \cup {c}
  /\ reconnecting' = FALSE
  /\ UNCHANGED <<storeVars, serverVars, outbound, watched, muxDone, keepAlive>>

\* reconnectFunction rejects: the session is closed.
GiveUp ==
  /\ reconnecting
  /\ reconnecting' = FALSE
  /\ CloseSession(Client)
  /\ UNCHANGED <<netVars, storeVars, awaiting, serverVars, outbound, watched, keepAlive>>

\* While the client is disconnected, a SETUP of another client brings the same
\* token: the store now holds that client's new session (on a connection that
\* is not modelled), which a later RESUME of this client would reach.
ReplaceSession ==
  /\ TokenReuse
  /\ \A c \in Conns : conn[c][Server] # "open"
  /\ sent' = [sent EXCEPT ![Server] = 0]
  /\ dropped' = [dropped EXCEPT ![Server] = 0]
  /\ firstAvailable' = [firstAvailable EXCEPT ![Server] = 0]
  /\ lastReceived' = [lastReceived EXCEPT ![Server] = 0]
  /\ delivered' = [delivered EXCEPT ![Server] = <<>>]
  /\ inconsistent' = [inconsistent EXCEPT ![Server] = FALSE]
  /\ muxDone' = [muxDone EXCEPT ![Server] = FALSE]
  /\ watched' = [watched EXCEPT ![Server] = {}]
  /\ keepAlive' = [keepAlive EXCEPT ![Server] = "running"]
  /\ inStore' = TRUE
  /\ timers' = {}
  /\ timeoutId' = 0
  /\ UNCHANGED <<netVars, clientVars, outbound>>

-----------------------------------------------------------------------------
(* Frames handled by the multiplexer of p. *)

\* On the connections the client opened to resume, its multiplexer handles
\* frames once RESUME_OK has arrived.
Delegates(c, p) == p = Client => c \notin awaiting

HandleStreamFrame(c, p) ==
  /\ Received(c, p, "STREAM")
  /\ Delegates(c, p)
  /\ LET n == Head(pipe[c][p]).n
     IN /\ lastReceived' = [lastReceived EXCEPT ![p] = @ + Size(Other(p), n - 1, n)]
        /\ delivered' = [delivered EXCEPT ![p] = Append(@, n)]
  /\ Transfer(c, p, TRUE, outbound[p], <<>>)
  /\ UNCHANGED <<sent, dropped, firstAvailable, inconsistent>>
  /\ UNCHANGED <<conn, clientVars, serverVars, outbound, watched, muxDone, keepAlive>>

\* KeepAliveHandler.handle answers whatever its state.
Answer(c, p) ==
  IF Head(pipe[c][p]).respond THEN <<KeepAliveFrame(p, FALSE)>> ELSE <<>>

HandleKeepAlive(c, p) ==
  /\ Received(c, p, "KEEPALIVE")
  /\ Delegates(c, p)
  /\ \E to \in 0 .. MaxFrames[p] : DropTo(p, Head(pipe[c][p]).lastReceivedPosition, to)
  /\ Transfer(c, p, TRUE, outbound[p], Answer(c, p))
  /\ UNCHANGED <<sent, lastReceived, delivered>>
  /\ UNCHANGED <<conn, clientVars, serverVars, outbound, watched, muxDone, keepAlive>>

\* Mutant: the session is not closed.
HandleKeepAliveFailsSilently(c, p) ==
  /\ Received(c, p, "KEEPALIVE")
  /\ Delegates(c, p)
  /\ \E to \in 0 .. MaxFrames[p] : DropToFails(p, Head(pipe[c][p]).lastReceivedPosition, to)
  /\ Transfer(c, p, TRUE, outbound[p], <<ErrorFrame>> \o Answer(c, p))
  /\ UNCHANGED <<sent, lastReceived, delivered>>
  /\ UNCHANGED <<conn, clientVars, serverVars, outbound, watched, muxDone, keepAlive>>

\* dropTo throws: ERROR, the session is closed, and the frame is handled all the same.
HandleKeepAliveFails(c, p) ==
  /\ Received(c, p, "KEEPALIVE")
  /\ Delegates(c, p)
  /\ \E to \in 0 .. MaxFrames[p] : DropToFails(p, Head(pipe[c][p]).lastReceivedPosition, to)
  /\ Transfer(c, p, TRUE, outbound[p], <<ErrorFrame>> \o Answer(c, p))
  /\ CloseSession(p)
  /\ UNCHANGED <<sent, lastReceived, delivered>>
  /\ UNCHANGED <<conn, clientVars, serverVars, outbound, watched, keepAlive>>

\* An ERROR of the peer: connectionFramesHandler closes the connection it was
\* made with, connection 1, and the session is closed.
HandleError(c, p) ==
  /\ Received(c, p, "ERROR")
  /\ Delegates(c, p)
  /\ CloseSession(p)
  /\ inStore' = (inStore /\ p = Client)
  /\ \/ /\ conn[1][p] = "open"
        /\ HandleConnectionClose(1, p)
        /\ pipe' = [pipe EXCEPT ![c][p] = Tail(@), ![1][p] = <<>>]
     \/ /\ conn[1][p] # "open"
        /\ Transfer(c, p, TRUE, outbound[p], <<>>)
        /\ UNCHANGED <<conn, reconnecting, timers, timeoutId, keepAlive>>
  /\ UNCHANGED <<storeVars, awaiting, outbound, watched>>

-----------------------------------------------------------------------------
(* RESUME at the server, RESUME_OK at the client. *)

ReceivedResume(c) ==
  /\ Received(c, Server, "RESUME")
  /\ \A d \in Conns : d < c /\ ~StaleConnections => conn[d][Server] = "done"

ClearTimeout ==
  /\ timers' = timers \ {timeoutId}
  /\ UNCHANGED <<inStore, timeoutId>>

\* The session is found and its positions agree with those of the client.
HandleResume(c) ==
  LET frame == Head(pipe[c][Server]) IN
  /\ ReceivedResume(c)
  /\ inStore
  /\ lastReceived[Server] >= frame.clientPosition
  /\ outbound' = [outbound EXCEPT ![Server] = c]
  /\ ClearTimeout
  /\ \E to \in 0 .. MaxFrames[Server] :
       /\ DropTo(Server, frame.serverPosition, to)
       /\ Transfer(c, Server, TRUE, c,
                   <<[type |-> "RESUME_OK", clientPosition |-> lastReceived[Server]]>>
                   \o StoredFrames(Server, to))
  /\ watched' = [watched EXCEPT ![Server] = @ \cup {c}]
  /\ ResumeKeepAlive(Server)
  /\ UNCHANGED <<sent, lastReceived, delivered, conn, clientVars, muxDone>>

\* They do not: ERROR and the session is closed; the store keeps it.
HandleResumeFails(c) ==
  LET frame == Head(pipe[c][Server]) IN
  /\ ReceivedResume(c)
  /\ inStore
  /\ outbound' = [outbound EXCEPT ![Server] = c]
  /\ ClearTimeout
  /\ \/ /\ lastReceived[Server] >= frame.clientPosition
        /\ \E to \in 0 .. MaxFrames[Server] : DropToFails(Server, frame.serverPosition, to)
     \/ /\ lastReceived[Server] < frame.clientPosition
        /\ UNCHANGED <<dropped, firstAvailable, inconsistent>>
  /\ Transfer(c, Server, TRUE, c, <<ErrorFrame>>)
  /\ CloseSession(Server)
  /\ UNCHANGED <<sent, lastReceived, delivered, conn, clientVars, watched, keepAlive>>

\* No session: ERROR and the new connection is closed.
HandleResumeUnknown(c) ==
  /\ ReceivedResume(c)
  /\ ~inStore
  /\ Transfer(c, Server, TRUE, c, <<ErrorFrame>>)
  /\ conn' = [conn EXCEPT ![c][Server] = "done"]
  /\ UNCHANGED <<storeVars, clientVars, serverVars, outbound, watched, muxDone, keepAlive>>

\* Mutant: resume() does not register handleConnectionClose.
HandleResumeOkUnwatched(c) ==
  LET position == Head(pipe[c][Client]).clientPosition IN
  /\ Received(c, Client, "RESUME_OK")
  /\ c \in awaiting
  /\ awaiting' = awaiting \ {c}
  /\ outbound' = [outbound EXCEPT ![Client] = c]
  /\ \E to \in 0 .. MaxFrames[Client] :
       \/ /\ DropTo(Client, position, to)
          /\ Transfer(c, Client, TRUE, c, StoredFrames(Client, to))
          /\ UNCHANGED muxDone
       \/ /\ DropToFails(Client, position, to)
          /\ Transfer(c, Client, TRUE, c, <<ErrorFrame>> \o StoredFrames(Client, to))
          /\ CloseSession(Client)
  /\ ResumeKeepAlive(Client)
  /\ UNCHANGED <<sent, lastReceived, delivered, conn, reconnecting, serverVars, watched>>

\* Mutant: resume() drains the store before it drops from it.
HandleResumeOkDrainsFirst(c) ==
  LET position == Head(pipe[c][Client]).clientPosition IN
  /\ Received(c, Client, "RESUME_OK")
  /\ c \in awaiting
  /\ awaiting' = awaiting \ {c}
  /\ outbound' = [outbound EXCEPT ![Client] = c]
  /\ \E to \in 0 .. MaxFrames[Client] :
       \/ /\ DropTo(Client, position, to)
          /\ Transfer(c, Client, TRUE, c, StoredFrames(Client, dropped[Client]))
          /\ UNCHANGED muxDone
       \/ /\ DropToFails(Client, position, to)
          /\ Transfer(c, Client, TRUE, c, <<ErrorFrame>> \o StoredFrames(Client, to))
          /\ CloseSession(Client)
  /\ watched' = [watched EXCEPT ![Client] = @ \cup {c}]
  /\ ResumeKeepAlive(Client)
  /\ UNCHANGED <<sent, lastReceived, delivered, conn, reconnecting, serverVars>>

HandleResumeOk(c) ==
  LET position == Head(pipe[c][Client]).clientPosition IN
  /\ Received(c, Client, "RESUME_OK")
  /\ c \in awaiting
  /\ awaiting' = awaiting \ {c}
  /\ outbound' = [outbound EXCEPT ![Client] = c]
  /\ \E to \in 0 .. MaxFrames[Client] :
       \/ /\ DropTo(Client, position, to)
          /\ Transfer(c, Client, TRUE, c, StoredFrames(Client, to))
          /\ UNCHANGED muxDone
       \/ /\ DropToFails(Client, position, to)
          /\ Transfer(c, Client, TRUE, c, <<ErrorFrame>> \o StoredFrames(Client, to))
          /\ CloseSession(Client)
  /\ watched' = [watched EXCEPT ![Client] = @ \cup {c}]
  /\ ResumeKeepAlive(Client)
  /\ UNCHANGED <<sent, lastReceived, delivered, conn, reconnecting, serverVars>>

\* Any other first frame (the server only sends ERROR): the connection and the
\* session are closed.
HandleNotResumeOk(c) ==
  /\ Received(c, Client, "ERROR")
  /\ c \in awaiting
  /\ conn' = [conn EXCEPT ![c][Client] = "done"]
  /\ pipe' = [pipe EXCEPT ![c][Client] = <<>>,
                          ![c][Server] = IF conn[c][Server] = "open" THEN @ \o <<ErrorFrame>> ELSE @]
  /\ CloseSession(Client)
  /\ UNCHANGED <<storeVars, clientVars, serverVars, outbound, watched, keepAlive>>

-----------------------------------------------------------------------------
Receive(c, p) ==
  \/ HandleStreamFrame(c, p)
  \/ HandleKeepAlive(c, p)
  \/ HandleKeepAliveFails(c, p)
  \/ HandleError(c, p)

Handshake(c) ==
  \/ HandleResume(c)
  \/ HandleResumeFails(c)
  \/ HandleResumeUnknown(c)
  \/ HandleResumeOk(c)
  \/ HandleNotResumeOk(c)

Next ==
  \/ \E p \in Peers : SendStreamFrame(p) \/ SendKeepAlive(p)
  \/ \E c \in Conns : SessionTimeout(c)
  \/ \E c \in Conns, p \in Peers : LoseConnection(c, p) \/ PeerClosed(c, p)
  \/ Reconnect
  \/ GiveUp
  \/ ReplaceSession
  \/ \E c \in Conns, p \in Peers : Receive(c, p)
  \/ \E c \in Conns : Handshake(c)

Spec == Init /\ [][Next]_vars

\* Frames that arrived are handled, a socket learns that its other end is
\* closed, and reconnectFunction resolves.
Fairness ==
  /\ \A c \in Conns : WF_vars(Handshake(c))
  /\ \A c \in Conns, p \in Peers : WF_vars(Receive(c, p)) /\ WF_vars(PeerClosed(c, p))
  /\ WF_vars(Reconnect)

FairSpec == Spec /\ Fairness

-----------------------------------------------------------------------------
(* Safety of the session. *)

\* What a peer's handlers were given is a prefix of what the other peer sent:
\* no stream frame is lost, repeated or reordered across connections.
ExactlyOnceInOrder ==
  \A p \in Peers :
    /\ Len(delivered[Other(p)]) <= sent[p]
    /\ \A i \in DOMAIN delivered[Other(p)] : delivered[Other(p)][i] = i

\* A frame leaves the store only after the other peer handled it.
DroppedWasDelivered == \A p \in Peers : dropped[p] <= Len(delivered[Other(p)])

\* So the stream frames of a session survive its connections.
Delivery == ExactlyOnceInOrder /\ DroppedWasDelivered

\* The two ends agree on positions: the byte counts stand for the same frames.
PositionsAgree ==
  \A p \in Peers :
    /\ firstAvailable[p] = FramePos[p][dropped[p]]
    /\ lastReceived[Other(p)] = FramePos[p][Len(delivered[Other(p)])]

\* dropTo is never asked for a position it cannot reach: its "State
\* inconsistency" error cannot happen. It does where RESUME overtakes frames of
\* the connection before.
DropToConsistent == \A p \in Peers : ~inconsistent[p]

\* The session timer runs only while the session has no connection, so it
\* never closes a session that was resumed.
TimerOnlyWhileDisconnected ==
  timers # {} => conn[outbound[Server]][Server] = "done"

\* A session that is resumed in order stays consistent.
SessionConsistent == PositionsAgree /\ DropToConsistent /\ TimerOnlyWhileDisconnected

\* The client never has two connections of a session open at the same time.
OneClientConnection ==
  \A c, d \in Conns : conn[c][Client] = "open" /\ conn[d][Client] = "open" => c = d

\* A peer that found the positions inconsistent has closed its session.
InconsistencyClosesSession == \A p \in Peers : inconsistent[p] => muxDone[p]

\* The server forgets a session only when it is closed.
ForgottenIsClosed == ~inStore => muxDone[Server]

\* A session that is given up, by its peer or by the store, is closed.
GivenUpIsClosed == InconsistencyClosesSession /\ ForgottenIsClosed

\* Seen through the abstract specification, every step of both peers is a send,
\* an arrival in order, or invisible.
Reliable == INSTANCE ReliableDelivery
  WITH Senders <- Peers, arrived <- [p \in Peers |-> delivered[Other(p)]]

DeliversReliably == Reliable!Spec

\* The connection the client opened to resume was lost before RESUME_OK came:
\* nothing watches it, so nobody reconnects.
LostInHandshake == \E c \in awaiting : conn[c][Client] = "done"

\* Every stream frame sent is eventually handled, unless a session is closed or
\* a connection is lost during the handshake.
EventuallyDelivered ==
  \A p \in Peers, n \in FrameNumbers :
    sent[p] >= n ~> \/ Len(delivered[Other(p)]) >= n
                    \/ LostInHandshake
                    \/ \E q \in Peers : muxDone[q]

-----------------------------------------------------------------------------
\* "Resume OK : Sent in response to a RESUME if resuming operation possible":
\* no RESUME_OK comes from a server whose session is closed.  Does not hold: the
\* session timer leaves what it closes in the sessionStore.
ResumeOkOnlyIfLive ==
  [][\A c \in Conns :
       Received(c, Server, "RESUME") /\ Handshake(c) /\ muxDone[Server]
       => ~\E i \in DOMAIN pipe'[c][Client] : pipe'[c][Client][i].type = "RESUME_OK"]_vars
==============================================================================
