------------------------ MODULE ResumableSessionProofs ------------------------
(***************************************************************************)
(* Theorems about ResumableSession for every number of frames, every size  *)
(* of a frame and every number of connections.  The first three hold       *)
(* however the session is resumed; the last three for a session resumed in *)
(* order ("Orderly"): without either half of that condition, TLC finds     *)
(* Delivery and SessionConsistent violated.                                *)
(***************************************************************************)
EXTENDS ResumableSession, SequenceTheorems, TLAPS

-----------------------------------------------------------------------------
(* One client connection. *)

ConnType == conn \in [Conns -> [Peers -> {"none", "open", "done"}]]

\* The reconnector runs only when the client has no connection: that is what
\* makes the connection it opens the only one.
ClientInv ==
  /\ ConnType
  /\ OneClientConnection
  /\ reconnecting => \A c \in Conns : conn[c][Client] # "open"

\* Most steps open no connection of the client, and start the reconnector only
\* when the last one is gone.
LEMMA NothingOpened ==
  ASSUME ClientInv, ConnType',
         \A c \in Conns : conn'[c][Client] = "open" => conn[c][Client] = "open",
         reconnecting' => reconnecting \/ \A c \in Conns : conn'[c][Client] # "open"
  PROVE  ClientInv'
BY DEF ClientInv, OneClientConnection

\* The close of an end keeps the invariant: it was the only one.
LEMMA CloseKeepsClientInv ==
  ASSUME ClientInv, NEW c \in Conns, NEW p \in Peers,
         conn[c][p] = "open", HandleConnectionClose(c, p)
  PROVE  ClientInv'
<1>1. conn' = [conn EXCEPT ![c][p] = "done"]
  BY DEF HandleConnectionClose
<1>2. ConnType'
  BY <1>1 DEF ClientInv, ConnType
<1>3. \A d \in Conns : conn'[d][Client] = "open" => conn[d][Client] = "open"
  BY <1>1 DEF ClientInv, ConnType
<1>4. ASSUME reconnecting' PROVE reconnecting \/ \A d \in Conns : conn'[d][Client] # "open"
  <2>1. CASE reconnecting
    BY <2>1
  <2>2. CASE ~reconnecting
    <3>1. p = Client
      BY <1>4, <2>2 DEF HandleConnectionClose
    <3>2. \A d \in Conns : conn[d][Client] = "open" => d = c
      BY <3>1 DEF ClientInv, OneClientConnection
    <3>3. conn'[c][Client] = "done"
      BY <1>1, <3>1 DEF ClientInv, ConnType
    <3>. QED
      BY <1>3, <3>2, <3>3
  <2>. QED
    BY <2>1, <2>2
<1>. QED
  BY <1>2, <1>3, <1>4, NothingOpened

LEMMA ClientInvInit == Init => ClientInv
BY SessionAssumption DEF SessionAssumption, Init, ClientInv, ConnType, OneClientConnection, Conns, Peers, Client, Server

LEMMA ClientInvStep == ClientInv /\ [Next]_vars => ClientInv'
<1>. SUFFICES ASSUME ClientInv, [Next]_vars PROVE ClientInv'
  OBVIOUS
<1>0. ASSUME conn' = conn, reconnecting' = reconnecting \/ reconnecting' = FALSE PROVE ClientInv'
  BY <1>0 DEF ClientInv, ConnType, OneClientConnection
<1>1. ASSUME NEW p \in Peers, SendStreamFrame(p) PROVE ClientInv'
  BY <1>0, <1>1 DEF SendStreamFrame, clientVars
<1>2. ASSUME NEW p \in Peers, SendKeepAlive(p) PROVE ClientInv'
  BY <1>0, <1>2 DEF SendKeepAlive, clientVars
<1>3. ASSUME NEW c \in Conns, SessionTimeout(c) PROVE ClientInv'
  BY <1>0, <1>3 DEF SessionTimeout, clientVars, netVars
<1>4. ASSUME NEW c \in Conns, NEW p \in Peers, LoseConnection(c, p) \/ PeerClosed(c, p) PROVE ClientInv'
  BY <1>4, CloseKeepsClientInv DEF LoseConnection, PeerClosed, CloseEnd
<1>5. CASE Reconnect
  <2>1. PICK c \in Conns : conn' = [conn EXCEPT ![c] = [p \in Peers |-> "open"]]
    BY <1>5 DEF Reconnect
  <2>2. \A d \in Conns : conn[d][Client] # "open"
    BY <1>5 DEF Reconnect, ClientInv
  <2>3. ConnType'
    BY <2>1 DEF ClientInv, ConnType
  <2>4. \A d \in Conns : conn'[d][Client] = "open" => d = c
    BY <2>1, <2>2 DEF ClientInv, ConnType
  <2>5. ~reconnecting'
    BY <1>5 DEF Reconnect
  <2>. QED
    BY <2>3, <2>4, <2>5 DEF ClientInv, OneClientConnection
<1>6. CASE GiveUp
  BY <1>0, <1>6 DEF GiveUp, netVars
<1>7. CASE ReplaceSession
  BY <1>0, <1>7 DEF ReplaceSession, netVars, clientVars
<1>8. ASSUME NEW c \in Conns, NEW p \in Peers, Receive(c, p) PROVE ClientInv'
  <2>1. CASE HandleStreamFrame(c, p)
    BY <1>0, <2>1 DEF HandleStreamFrame, clientVars
  <2>2. CASE HandleKeepAlive(c, p)
    BY <1>0, <2>2 DEF HandleKeepAlive, clientVars
  <2>3. CASE HandleKeepAliveFails(c, p)
    BY <1>0, <2>3 DEF HandleKeepAliveFails, clientVars
  <2>4. CASE HandleError(c, p)
    <3>1. 1 \in Conns
      BY SessionAssumption DEF SessionAssumption, Conns
    <3>2. CASE conn[1][p] = "open" /\ HandleConnectionClose(1, p)
      BY <3>1, <3>2, CloseKeepsClientInv
    <3>3. CASE conn' = conn /\ reconnecting' = reconnecting
      BY <1>0, <3>3
    <3>. QED
      BY <2>4, <3>2, <3>3 DEF HandleError
  <2>. QED
    BY <1>8, <2>1, <2>2, <2>3, <2>4 DEF Receive
<1>9. ASSUME NEW c \in Conns, Handshake(c) PROVE ClientInv'
  <2>1. CASE HandleResume(c)
    BY <1>0, <2>1 DEF HandleResume, clientVars
  <2>2. CASE HandleResumeFails(c)
    BY <1>0, <2>2 DEF HandleResumeFails, clientVars
  <2>3. CASE HandleResumeUnknown(c)
    <3>1. conn' = [conn EXCEPT ![c][Server] = "done"] /\ reconnecting' = reconnecting
      BY <2>3 DEF HandleResumeUnknown, clientVars
    <3>. QED
      BY <3>1, NothingOpened DEF ClientInv, ConnType, Client, Server, Peers
  <2>4. CASE HandleResumeOk(c)
    BY <1>0, <2>4 DEF HandleResumeOk
  <2>5. CASE HandleNotResumeOk(c)
    <3>1. conn' = [conn EXCEPT ![c][Client] = "done"] /\ reconnecting' = reconnecting
      BY <2>5 DEF HandleNotResumeOk, clientVars
    <3>. QED
      BY <3>1, NothingOpened DEF ClientInv, ConnType, Client, Server, Peers
  <2>. QED
    BY <1>9, <2>1, <2>2, <2>3, <2>4, <2>5 DEF Handshake
<1>10. CASE UNCHANGED vars
  BY <1>0, <1>10 DEF vars, netVars, clientVars
<1>. QED
  BY <1>1, <1>2, <1>3, <1>4, <1>5, <1>6, <1>7, <1>8, <1>9, <1>10 DEF Next

\* The client never has two connections of a session open at the same time
\* (RSocketConnector.connect, the reconnector).
THEOREM OneClientConnectionCorrect == Spec => []OneClientConnection
<1>1. Init => ClientInv
  BY ClientInvInit
<1>2. ClientInv => OneClientConnection
  BY DEF ClientInv
<1>. QED
  BY <1>1, <1>2, ClientInvStep, PTL DEF Spec
-----------------------------------------------------------------------------
(* A session given up is closed. *)

\* Nothing but the invariant itself is needed: its functions stay functions.
GivenUpInv ==
  /\ muxDone \in [Peers -> BOOLEAN]
  /\ inconsistent \in [Peers -> BOOLEAN]
  /\ GivenUpIsClosed

\* Most steps neither find an inconsistency, nor forget a session, nor open
\* one again.
LEMMA NothingGivenUp ==
  ASSUME GivenUpInv, inconsistent' = inconsistent, inStore' = inStore,
         muxDone' = muxDone \/ \E p \in Peers : CloseSession(p)
  PROVE  GivenUpInv'
BY DEF GivenUpInv, GivenUpIsClosed, InconsistencyClosesSession, ForgottenIsClosed,
       CloseSession, Peers

\* dropTo throws, and whoever called it closes the session.
LEMMA FailureCloses ==
  ASSUME GivenUpInv, NEW p \in Peers, inStore' = inStore, CloseSession(p),
         NEW position, NEW to, DropToFails(p, position, to)
  PROVE  GivenUpInv'
BY DEF GivenUpInv, GivenUpIsClosed, InconsistencyClosesSession, ForgottenIsClosed,
       CloseSession, DropToFails, Peers

LEMMA GivenUpStep == GivenUpInv /\ [Next]_vars => GivenUpInv'
<1>. SUFFICES ASSUME GivenUpInv, [Next]_vars PROVE GivenUpInv'
  OBVIOUS
<1>. USE DEF Peers
<1>1. ASSUME NEW p \in Peers, SendStreamFrame(p) PROVE GivenUpInv'
  BY <1>1, NothingGivenUp DEF SendStreamFrame, serverVars
<1>2. ASSUME NEW p \in Peers, SendKeepAlive(p) PROVE GivenUpInv'
  BY <1>2, NothingGivenUp DEF SendKeepAlive, storeVars, serverVars
<1>3. ASSUME NEW c \in Conns, SessionTimeout(c) PROVE GivenUpInv'
  BY <1>3, NothingGivenUp DEF SessionTimeout, storeVars
<1>4. ASSUME NEW c \in Conns, NEW p \in Peers, LoseConnection(c, p) \/ PeerClosed(c, p) PROVE GivenUpInv'
  BY <1>4, NothingGivenUp DEF LoseConnection, PeerClosed, CloseEnd, storeVars
<1>5. CASE Reconnect
  BY <1>5, NothingGivenUp DEF Reconnect, storeVars, serverVars
<1>6. CASE GiveUp
  BY <1>6, NothingGivenUp DEF GiveUp, storeVars, serverVars
<1>7. CASE ReplaceSession
  BY <1>7 DEF ReplaceSession, GivenUpInv, GivenUpIsClosed, InconsistencyClosesSession,
              ForgottenIsClosed, Client, Server
<1>8. ASSUME NEW c \in Conns, NEW p \in Peers, Receive(c, p) PROVE GivenUpInv'
  <2>1. CASE HandleStreamFrame(c, p)
    BY <2>1, NothingGivenUp DEF HandleStreamFrame, serverVars
  <2>2. CASE HandleKeepAlive(c, p)
    BY <2>2, NothingGivenUp DEF HandleKeepAlive, DropTo, serverVars
  <2>3. CASE HandleKeepAliveFails(c, p)
    BY <2>3, FailureCloses DEF HandleKeepAliveFails, serverVars
  <2>4. CASE HandleError(c, p)
    BY <2>4 DEF HandleError, storeVars, CloseSession, GivenUpInv, GivenUpIsClosed,
                InconsistencyClosesSession, ForgottenIsClosed, Client, Server
  <2>. QED
    BY <1>8, <2>1, <2>2, <2>3, <2>4 DEF Receive
<1>9. ASSUME NEW c \in Conns, Handshake(c) PROVE GivenUpInv'
  <2>1. CASE HandleResume(c)
    BY <2>1, NothingGivenUp DEF HandleResume, DropTo, ClearTimeout
  <2>2. CASE HandleResumeFails(c)
    <3>1. inStore' = inStore /\ CloseSession(Server)
      BY <2>2 DEF HandleResumeFails, ClearTimeout
    <3>2. CASE inconsistent' = inconsistent
      BY <3>1, <3>2, NothingGivenUp
    <3>3. CASE \E position, to : DropToFails(Server, position, to)
      BY <3>1, <3>3, FailureCloses
    <3>. QED
      BY <2>2, <3>2, <3>3 DEF HandleResumeFails
  <2>3. CASE HandleResumeUnknown(c)
    BY <2>3, NothingGivenUp DEF HandleResumeUnknown, storeVars, serverVars
  <2>4. CASE HandleResumeOk(c)
    <3>1. inStore' = inStore
      BY <2>4 DEF HandleResumeOk, serverVars
    <3>2. CASE inconsistent' = inconsistent /\ muxDone' = muxDone
      BY <3>1, <3>2, NothingGivenUp
    <3>3. CASE CloseSession(Client) /\ \E position, to : DropToFails(Client, position, to)
      BY <3>1, <3>3, FailureCloses
    <3>. QED
      BY <2>4, <3>2, <3>3 DEF HandleResumeOk, DropTo
  <2>5. CASE HandleNotResumeOk(c)
    BY <2>5, NothingGivenUp DEF HandleNotResumeOk, storeVars, serverVars
  <2>. QED
    BY <1>9, <2>1, <2>2, <2>3, <2>4, <2>5 DEF Handshake
<1>10. CASE UNCHANGED vars
  BY <1>10, NothingGivenUp DEF vars, storeVars, serverVars
<1>. QED
  BY <1>1, <1>2, <1>3, <1>4, <1>5, <1>6, <1>7, <1>8, <1>9, <1>10 DEF Next

\* Whoever finds positions that do not agree has closed its session, and the
\* store only forgets a session that is closed (the callers of FrameStore.dropTo,
\* DefaultConnectionFrameHandler.close), whatever connections come and go.
THEOREM GivenUpIsClosedCorrect == Spec => []GivenUpIsClosed
<1>1. Init => GivenUpInv
  BY DEF Init, GivenUpInv, GivenUpIsClosed, InconsistencyClosesSession, ForgottenIsClosed
<1>2. GivenUpInv => GivenUpIsClosed
  BY DEF GivenUpInv
<1>. QED
  BY <1>1, <1>2, GivenUpStep, PTL DEF Spec
-----------------------------------------------------------------------------
(* Types. *)

\* The frames that can be on their way to p: the numbers of the stream frames
\* are those of the other peer, which has not as many as p has.
FramesTo(p) == {f \in Frames : f.type = "STREAM" => f.n \in 1 .. MaxFrames[Other(p)]}

PipeType == pipe \in [Conns -> [Peers -> Seq(Frames)]]

PipeInv ==
  /\ PipeType
  /\ \A c \in Conns, p \in Peers : pipe[c][p] \in Seq(FramesTo(p))

SessionInv == TypeOK /\ PipeInv

LEMMA OtherPeer == \A p \in Peers : Other(p) \in Peers /\ Other(Other(p)) = p
BY DEF Peers, Other, Client, Server

\* What the frames of each type hold.
LEMMA FrameFields ==
  ASSUME NEW p \in Peers, NEW f \in FramesTo(p)
  PROVE  /\ f.type = "STREAM" => f.n \in 1 .. MaxFrames[Other(p)] /\ f.n \in FrameNumbers
         /\ f.type = "KEEPALIVE" => f.lastReceivedPosition \in Nat /\ f.respond \in BOOLEAN
         /\ f.type = "RESUME" => f.clientPosition \in Nat /\ f.serverPosition \in Nat
         /\ f.type = "RESUME_OK" => f.clientPosition \in Nat
BY DEF FramesTo, Frames

LEMMA FramesSent ==
  ASSUME SessionAssumption, NEW p \in Peers
  PROVE  /\ \A n \in 1 .. MaxFrames[Other(p)] : StreamFrame(n) \in FramesTo(p)
         /\ \A k \in Nat, b \in BOOLEAN :
              [type |-> "KEEPALIVE", lastReceivedPosition |-> k, respond |-> b] \in FramesTo(p)
         /\ \A k, l \in Nat :
              [type |-> "RESUME", clientPosition |-> k, serverPosition |-> l] \in FramesTo(p)
         /\ \A k \in Nat : [type |-> "RESUME_OK", clientPosition |-> k] \in FramesTo(p)
         /\ ErrorFrame \in FramesTo(p)
<1>1. 1 .. MaxFrames[Other(p)] \subseteq FrameNumbers
  BY OtherPeer DEF FrameNumbers
<1>. QED
  BY <1>1 DEF FramesTo, Frames, StreamFrame, ErrorFrame

\* What p sends, and what it takes, keeps the pipes typed.
LEMMA TransferType ==
  ASSUME PipeInv, NEW c \in Conns, NEW p \in Peers, NEW takes \in BOOLEAN,
         takes => pipe[c][p] # <<>>,
         NEW d, NEW frames \in Seq(FramesTo(Other(p))), Transfer(c, p, takes, d, frames)
  PROVE  PipeInv'
<1>1. ASSUME NEW x \in Conns, NEW y \in Peers
      PROVE  pipe'[x][y] \in Seq(FramesTo(y))
  <2>. DEFINE kept == IF takes /\ x = c /\ y = p THEN Tail(pipe[x][y]) ELSE pipe[x][y]
              new == IF x = d /\ y = Other(p) /\ conn[d][p] = "open" /\ conn[d][y] = "open"
                     THEN frames ELSE <<>>
  <2>1. pipe'[x][y] = kept \o new
    BY DEF Transfer
  <2>2. kept \in Seq(FramesTo(y))
    <3>1. pipe[x][y] \in Seq(FramesTo(y))
      BY DEF PipeInv
    <3>2. pipe[x][y] # <<>> => Tail(pipe[x][y]) \in Seq(FramesTo(y))
      BY <3>1, HeadTailProperties
    <3>. QED
      BY <3>1, <3>2
  <2>3. new \in Seq(FramesTo(y))
    BY EmptySeq
  <2>. QED
    BY <2>1, <2>2, <2>3, ConcatProperties
<1>2. pipe' \in [Conns -> [Peers -> Seq(Frames)]]
  <2>1. \A x \in Conns, y \in Peers : pipe'[x][y] \in Seq(Frames)
    <3>1. \A y \in Peers : FramesTo(y) \subseteq Frames
      BY DEF FramesTo
    <3>. QED
      BY <1>1, <3>1, SeqMonotonic
  <2>2. pipe' = [x \in Conns |-> [y \in Peers |-> pipe'[x][y]]]
    BY DEF Transfer
  <2>. QED
    BY <2>1, <2>2
<1>. QED
  BY <1>1, <1>2 DEF PipeInv, PipeType

\* A pipe that a closed socket empties stays typed.
LEMMA EmptyPipe == ASSUME NEW p PROVE <<>> \in Seq(FramesTo(p))
BY EmptySeq

LEMMA OneFrame == ASSUME NEW S, NEW f \in S PROVE <<f>> \in Seq(S)
OBVIOUS

\* The positions of frames grow with their numbers.
LEMMA SizeNat ==
  ASSUME SessionAssumption, NEW p \in Peers, NEW m \in 0 .. MaxFrames[p],
         NEW n \in 0 .. MaxFrames[p], m <= n
  PROVE  Size(p, m, n) \in Nat
<1>1. FramePos[p][m] \in Nat /\ FramePos[p][n] \in Nat
  BY DEF SessionAssumption
<1>2. CASE m = n
  BY <1>1, <1>2 DEF Size
<1>3. CASE m < n
  <2>1. FramePos[p][m] < FramePos[p][n]
    BY <1>3 DEF SessionAssumption
  <2>. QED
    BY <1>1, <2>1 DEF Size
<1>. QED
  BY <1>2, <1>3 DEF SessionAssumption

\* dropTo drops frames that are stored, whether it throws or not.
StoreType ==
  /\ sent \in [Peers -> Nat]
  /\ dropped \in [Peers -> Nat]
  /\ \A p \in Peers : dropped[p] <= sent[p] /\ sent[p] <= MaxFrames[p]
  /\ firstAvailable \in [Peers -> Nat]
  /\ inconsistent \in [Peers -> BOOLEAN]

LEMMA DropToType ==
  ASSUME SessionAssumption, StoreType, NEW p \in Peers, NEW position \in Nat,
         NEW to \in 0 .. MaxFrames[p], sent' = sent,
         DropTo(p, position, to) \/ DropToFails(p, position, to)
  PROVE  StoreType' /\ to \in 0 .. sent[p]
<1>1. to \in dropped[p] .. sent[p] /\ to \in Nat
  BY DEF DropTo, DropToFails, DropsUpTo, SessionAssumption
<1>2. dropped' = [dropped EXCEPT ![p] = to]
  BY DEF DropTo, DropToFails
<1>3. \/ firstAvailable' = firstAvailable
      \/ firstAvailable' = [firstAvailable EXCEPT ![p] = position]
  BY DEF DropTo, DropToFails
<1>4. inconsistent' = inconsistent \/ inconsistent' = [inconsistent EXCEPT ![p] = TRUE]
  BY DEF DropTo, DropToFails
<1>5. dropped' \in [Peers -> Nat] /\ \A q \in Peers : dropped'[q] <= sent'[q]
  BY <1>1, <1>2 DEF StoreType
<1>6. firstAvailable' \in [Peers -> Nat]
  BY <1>3 DEF StoreType
<1>7. inconsistent' \in [Peers -> BOOLEAN]
  BY <1>4 DEF StoreType
<1>8. to \in 0 .. sent[p]
  BY <1>1
<1>. QED
  BY <1>5, <1>6, <1>7, <1>8 DEF StoreType

\* FrameStore.drain sends stored frames only.
LEMMA StoredFramesType ==
  ASSUME SessionAssumption, StoreType, NEW p \in Peers, NEW from \in 0 .. sent[p]
  PROVE  StoredFrames(p, from) \in Seq(FramesTo(Other(p)))
<1>1. sent[p] - from \in Nat
  BY DEF StoreType
<1>2. \A i \in 1 .. sent[p] - from : StreamFrame(from + i) \in FramesTo(Other(p))
  <2>1. \A i \in 1 .. sent[p] - from : from + i \in 1 .. MaxFrames[p]
    BY DEF StoreType, SessionAssumption
  <2>. QED
    BY <2>1, FramesSent, OtherPeer
<1>3. StoredFrames(p, from) \in [1 .. sent[p] - from -> FramesTo(Other(p))]
  BY <1>2 DEF StoredFrames
<1>. QED
  BY <1>1, <1>3, SeqDef

\* TypeOK but for the pipes, in the parts that the steps change together.
NetType ==
  /\ conn \in [Conns -> [Peers -> {"none", "open", "done"}]]
  /\ reconnecting \in BOOLEAN
  /\ timers \subseteq Conns
  /\ timeoutId \in 0 .. MaxConns
  /\ keepAlive \in [Peers -> {"paused", "running", "closed"}]

MuxType ==
  /\ awaiting \subseteq Conns
  /\ outbound \in [Peers -> Conns]
  /\ watched \in [Peers -> SUBSET Conns]
  /\ muxDone \in [Peers -> BOOLEAN]
  /\ inStore \in BOOLEAN

ReceivedType ==
  /\ lastReceived \in [Peers -> Nat]
  /\ delivered \in [Peers -> Seq(FrameNumbers)]

LEMMA TypeParts == SessionInv <=> (PipeInv /\ NetType /\ MuxType /\ StoreType /\ ReceivedType)
BY DEF SessionInv, TypeOK, PipeInv, PipeType, NetType, MuxType, StoreType, ReceivedType

LEMMA TypeInit == Init => SessionInv
<1>. SUFFICES ASSUME Init PROVE PipeInv /\ NetType /\ MuxType /\ StoreType /\ ReceivedType
  BY TypeParts
<1>. USE SessionAssumption DEF SessionAssumption, Conns
<1>1. PipeInv
  BY EmptySeq DEF Init, PipeInv, PipeType
<1>2. NetType
  <2>1. conn \in [Conns -> [Peers -> {"none", "open", "done"}]]
    BY DEF Init
  <2>2. timeoutId \in 0 .. MaxConns /\ timers = {} /\ reconnecting = FALSE
    BY DEF Init
  <2>3. keepAlive \in [Peers -> {"paused", "running", "closed"}]
    BY DEF Init
  <2>. QED
    BY <2>1, <2>2, <2>3 DEF NetType
<1>3. MuxType
  BY DEF Init, MuxType
<1>4. StoreType
  BY DEF Init, StoreType
<1>5. ReceivedType
  BY EmptySeq DEF Init, ReceivedType
<1>. QED
  BY <1>1, <1>2, <1>3, <1>4, <1>5

LEMMA CloseType ==
  ASSUME SessionAssumption, NetType, NEW c \in Conns, NEW p \in Peers, HandleConnectionClose(c, p)
  PROVE  NetType'
BY DEF NetType, HandleConnectionClose, SessionAssumption, Conns

LEMMA TypeStep == SessionInv /\ [Next]_vars => SessionInv'
<1>. SUFFICES ASSUME PipeInv, NetType, MuxType, StoreType, ReceivedType, [Next]_vars
     PROVE  PipeInv' /\ NetType' /\ MuxType' /\ StoreType' /\ ReceivedType'
  <2>1. PipeInv' /\ NetType' /\ MuxType' /\ StoreType' /\ ReceivedType' => SessionInv'
    BY DEF SessionInv, TypeOK, PipeInv, PipeType, NetType, MuxType, StoreType, ReceivedType
  <2>. QED
    BY <2>1, TypeParts
<1>. USE SessionAssumption
<1>net. ASSUME UNCHANGED <<conn, reconnecting, timers, timeoutId, keepAlive>> PROVE NetType'
  BY <1>net DEF NetType
<1>mux. ASSUME UNCHANGED <<awaiting, outbound, watched, muxDone, inStore>> PROVE MuxType'
  BY <1>mux DEF MuxType
<1>sto. ASSUME UNCHANGED <<sent, dropped, firstAvailable, inconsistent>> PROVE StoreType'
  BY <1>sto DEF StoreType
<1>rec. ASSUME UNCHANGED <<lastReceived, delivered>> PROVE ReceivedType'
  BY <1>rec DEF ReceivedType
<1>pip. ASSUME UNCHANGED pipe PROVE PipeInv'
  BY <1>pip DEF PipeInv, PipeType
<1>1. ASSUME NEW p \in Peers, SendStreamFrame(p)
      PROVE PipeInv' /\ NetType' /\ MuxType' /\ StoreType' /\ ReceivedType'
  <2>1. sent' = [sent EXCEPT ![p] = @ + 1] /\ sent[p] < MaxFrames[p]
    BY <1>1 DEF SendStreamFrame
  <2>2. StoreType'
    BY <1>1, <2>1 DEF SendStreamFrame, StoreType, SessionAssumption
  <2>3. StreamFrame(sent[p] + 1) \in FramesTo(Other(p))
    <3>1. sent[p] + 1 \in 1 .. MaxFrames[p]
      BY <2>1 DEF StoreType, SessionAssumption
    <3>. QED
      BY <3>1, FramesSent, OtherPeer
  <2>4. PipeInv'
    <3>1. <<StreamFrame(sent[p] + 1)>> \in Seq(FramesTo(Other(p)))
      BY <2>3
    <3>2. Transfer(outbound[p], p, FALSE, outbound[p], <<StreamFrame(sent[p] + 1)>>)
      BY <1>1 DEF SendStreamFrame, Send
    <3>3. outbound[p] \in Conns
      BY DEF MuxType
    <3>. QED
      BY <3>1, <3>2, <3>3, TransferType
  <2>. QED
    BY <1>1, <1>net, <1>mux, <1>rec, <2>2, <2>4 DEF SendStreamFrame, clientVars, serverVars
<1>2. ASSUME NEW p \in Peers, SendKeepAlive(p)
      PROVE PipeInv' /\ NetType' /\ MuxType' /\ StoreType' /\ ReceivedType'
  <2>1. KeepAliveFrame(p, TRUE) \in FramesTo(Other(p))
    BY FramesSent, OtherPeer DEF KeepAliveFrame, ReceivedType
  <2>2. PipeInv'
    <3>1. <<KeepAliveFrame(p, TRUE)>> \in Seq(FramesTo(Other(p)))
      BY <2>1, OneFrame
    <3>2. Transfer(outbound[p], p, FALSE, outbound[p], <<KeepAliveFrame(p, TRUE)>>)
      BY <1>2 DEF SendKeepAlive, Send
    <3>3. outbound[p] \in Conns
      BY DEF MuxType
    <3>. QED
      BY <3>1, <3>2, <3>3, TransferType
  <2>. QED
    BY <1>2, <1>net, <1>mux, <1>sto, <1>rec, <2>2 DEF SendKeepAlive, storeVars, clientVars, serverVars
<1>3. ASSUME NEW c \in Conns, SessionTimeout(c)
      PROVE PipeInv' /\ NetType' /\ MuxType' /\ StoreType' /\ ReceivedType'
  <2>1. NetType' /\ MuxType'
    BY <1>3 DEF SessionTimeout, CloseSession, NetType, MuxType, netVars, clientVars
  <2>. QED
    BY <1>3, <2>1, <1>pip, <1>sto, <1>rec DEF SessionTimeout, netVars, storeVars
<1>4. ASSUME NEW c \in Conns, NEW p \in Peers, LoseConnection(c, p) \/ PeerClosed(c, p)
      PROVE PipeInv' /\ NetType' /\ MuxType' /\ StoreType' /\ ReceivedType'
  <2>1. NetType'
    BY <1>4, CloseType DEF LoseConnection, PeerClosed, CloseEnd
  <2>2. pipe' = [pipe EXCEPT ![c][p] = <<>>]
    BY <1>4 DEF LoseConnection, PeerClosed, CloseEnd
  <2>3. PipeInv'
    BY <2>2, EmptySeq DEF PipeInv, PipeType
  <2>. QED
    BY <1>4, <2>1, <2>3, <1>mux, <1>sto, <1>rec DEF LoseConnection, PeerClosed, CloseEnd, storeVars
<1>5. CASE Reconnect
  <2>1. PICK c \in Conns :
          /\ conn' = [conn EXCEPT ![c] = [p \in Peers |-> "open"]]
          /\ pipe' = [pipe EXCEPT ![c][Server] =
                        <<[type |-> "RESUME", clientPosition |-> firstAvailable[Client],
                           serverPosition |-> lastReceived[Client]]>>]
          /\ awaiting' = awaiting \cup {c}
    BY <1>5 DEF Reconnect
  <2>2. NetType' /\ MuxType'
    BY <1>5, <2>1 DEF Reconnect, NetType, MuxType, serverVars
  <2>3. [type |-> "RESUME", clientPosition |-> firstAvailable[Client],
         serverPosition |-> lastReceived[Client]] \in FramesTo(Server)
    BY FramesSent DEF StoreType, ReceivedType, Peers
  <2>4. PipeInv'
    <3>. DEFINE f == [type |-> "RESUME", clientPosition |-> firstAvailable[Client],
                      serverPosition |-> lastReceived[Client]]
    <3>1. <<f>> \in Seq(FramesTo(Server)) /\ <<f>> \in Seq(Frames)
      BY <2>3 DEF FramesTo
    <3>2. pipe' = [pipe EXCEPT ![c][Server] = <<f>>]
      BY <2>1
    <3>. HIDE DEF f
    <3>. QED
      BY <3>1, <3>2 DEF PipeInv, PipeType
  <2>. QED
    BY <1>5, <2>2, <2>4, <1>sto, <1>rec DEF Reconnect, storeVars
<1>6. CASE GiveUp
  <2>1. NetType' /\ MuxType'
    BY <1>6 DEF GiveUp, CloseSession, NetType, MuxType, netVars, serverVars
  <2>. QED
    BY <1>6, <2>1, <1>pip, <1>sto, <1>rec DEF GiveUp, netVars, storeVars
<1>7. CASE ReplaceSession
  <2>1. StoreType'
    <3>1. /\ sent' = [sent EXCEPT ![Server] = 0]
          /\ dropped' = [dropped EXCEPT ![Server] = 0]
          /\ firstAvailable' = [firstAvailable EXCEPT ![Server] = 0]
          /\ inconsistent' = [inconsistent EXCEPT ![Server] = FALSE]
      BY <1>7 DEF ReplaceSession
    <3>2. \A p \in Peers : MaxFrames[p] \in Nat
      BY DEF SessionAssumption
    <3>3. sent' \in [Peers -> Nat] /\ dropped' \in [Peers -> Nat] /\ firstAvailable' \in [Peers -> Nat]
      BY <3>1 DEF StoreType
    <3>4. inconsistent' \in [Peers -> BOOLEAN]
      BY <3>1 DEF StoreType
    <3>5. ASSUME NEW p \in Peers PROVE dropped'[p] <= sent'[p] /\ sent'[p] <= MaxFrames[p]
      <4>1. CASE p = Server
        BY <3>1, <3>2, <4>1 DEF StoreType
      <4>2. CASE p # Server
        BY <3>1, <4>2 DEF StoreType
      <4>. QED
        BY <4>1, <4>2
    <3>. QED
      BY <3>3, <3>4, <3>5 DEF StoreType
  <2>2. ReceivedType'
    <3>1. <<>> \in Seq(FrameNumbers)
      BY EmptySeq
    <3>2. /\ lastReceived' = [lastReceived EXCEPT ![Server] = 0]
          /\ delivered' = [delivered EXCEPT ![Server] = <<>>]
      BY <1>7 DEF ReplaceSession
    <3>. QED
      BY <3>1, <3>2 DEF ReceivedType
  <2>3. NetType'
    <3>1. UNCHANGED <<conn, reconnecting>>
      BY <1>7 DEF ReplaceSession, netVars, clientVars
    <3>2. timers' = {} /\ timeoutId' = 0 /\ keepAlive' = [keepAlive EXCEPT ![Server] = "running"]
      BY <1>7 DEF ReplaceSession
    <3>3. timeoutId' \in 0 .. MaxConns
      BY <3>2 DEF SessionAssumption
    <3>. QED
      BY <3>1, <3>2, <3>3 DEF NetType
  <2>4. MuxType'
    BY <1>7 DEF ReplaceSession, MuxType, clientVars
  <2>. QED
    BY <1>7, <2>1, <2>2, <2>3, <2>4, <1>pip DEF ReplaceSession, netVars
<1>8. ASSUME NEW c \in Conns, NEW p \in Peers, Receive(c, p)
      PROVE PipeInv' /\ NetType' /\ MuxType' /\ StoreType' /\ ReceivedType'
  <2>0. pipe[c][p] # <<>> /\ Head(pipe[c][p]) \in FramesTo(p)
    <3>1. pipe[c][p] # <<>>
      BY <1>8 DEF Receive, HandleStreamFrame, HandleKeepAlive, HandleKeepAliveFails, HandleError, Received
    <3>. QED
      BY <3>1, HeadTailProperties DEF PipeInv
  <2>a. Answer(c, p) \in Seq(FramesTo(Other(p)))
    <3>1. KeepAliveFrame(p, FALSE) \in FramesTo(Other(p))
      BY FramesSent, OtherPeer DEF KeepAliveFrame, ReceivedType
    <3>2. <<KeepAliveFrame(p, FALSE)>> \in Seq(FramesTo(Other(p)))
      BY <3>1, OneFrame
    <3>. QED
      BY <3>2, EmptyPipe DEF Answer
  <2>1. CASE HandleStreamFrame(c, p)
    <3>. DEFINE n == Head(pipe[c][p]).n
    <3>1. n \in 1 .. MaxFrames[Other(p)] /\ n \in FrameNumbers
      BY <2>0, <2>1, FrameFields DEF HandleStreamFrame, Received
    <3>2. /\ lastReceived' = [lastReceived EXCEPT ![p] = @ + Size(Other(p), n - 1, n)]
          /\ delivered' = [delivered EXCEPT ![p] = Append(@, n)]
      BY <2>1 DEF HandleStreamFrame
    <3>. HIDE DEF n
    <3>3. Size(Other(p), n - 1, n) \in Nat
      <4>1. n - 1 \in 0 .. MaxFrames[Other(p)] /\ n \in 0 .. MaxFrames[Other(p)] /\ n - 1 <= n
        BY <3>1, OtherPeer DEF SessionAssumption
      <4>. QED
        BY <4>1, SizeNat, OtherPeer
    <3>4. ReceivedType'
      BY <3>1, <3>2, <3>3 DEF ReceivedType
    <3>5. PipeInv'
      BY <2>0, <2>1, TransferType, EmptyPipe DEF HandleStreamFrame
    <3>. QED
      BY <2>1, <3>4, <3>5, <1>net, <1>mux, <1>sto DEF HandleStreamFrame, clientVars, serverVars
  <2>2. CASE HandleKeepAlive(c, p)
    <3>1. Head(pipe[c][p]).lastReceivedPosition \in Nat
      BY <2>0, <2>2, FrameFields DEF HandleKeepAlive, Received
    <3>2. StoreType'
      BY <2>2, <3>1, DropToType DEF HandleKeepAlive
    <3>3. PipeInv'
      BY <2>0, <2>a, <2>2, TransferType DEF HandleKeepAlive
    <3>. QED
      BY <2>2, <3>2, <3>3, <1>net, <1>mux, <1>rec DEF HandleKeepAlive, clientVars, serverVars
  <2>3. CASE HandleKeepAliveFails(c, p)
    <3>1. Head(pipe[c][p]).lastReceivedPosition \in Nat
      BY <2>0, <2>3, FrameFields DEF HandleKeepAliveFails, Received
    <3>2. StoreType'
      BY <2>3, <3>1, DropToType DEF HandleKeepAliveFails
    <3>3. <<ErrorFrame>> \o Answer(c, p) \in Seq(FramesTo(Other(p)))
      BY <2>a, FramesSent, OtherPeer, ConcatProperties
    <3>4. PipeInv'
      BY <2>0, <2>3, <3>3, TransferType DEF HandleKeepAliveFails
    <3>5. MuxType'
      BY <2>3 DEF HandleKeepAliveFails, CloseSession, MuxType, clientVars, serverVars
    <3>. QED
      BY <2>3, <3>2, <3>4, <3>5, <1>net, <1>rec DEF HandleKeepAliveFails, clientVars, serverVars
  <2>4. CASE HandleError(c, p)
    <3>1. MuxType'
      BY <2>4 DEF HandleError, CloseSession, MuxType
    <3>2. StoreType' /\ ReceivedType'
      BY <2>4, <1>sto, <1>rec DEF HandleError, storeVars
    <3>3. 1 \in Conns
      BY DEF SessionAssumption, Conns
    <3>4. CASE /\ HandleConnectionClose(1, p)
               /\ pipe' = [pipe EXCEPT ![c][p] = Tail(@), ![1][p] = <<>>]
      <4>1. NetType'
        BY <3>3, <3>4, CloseType
      <4>2. Tail(pipe[c][p]) \in Seq(FramesTo(p)) /\ Tail(pipe[c][p]) \in Seq(Frames)
        BY <2>0, HeadTailProperties DEF PipeInv, PipeType
      <4>3. PipeInv'
        BY <3>3, <3>4, <4>2, EmptySeq DEF PipeInv, PipeType
      <4>. QED
        BY <3>1, <3>2, <4>1, <4>3
    <3>5. CASE /\ Transfer(c, p, TRUE, outbound[p], <<>>)
               /\ UNCHANGED <<conn, reconnecting, timers, timeoutId, keepAlive>>
      <4>1. PipeInv'
        BY <2>0, <3>5, TransferType, EmptyPipe
      <4>. QED
        BY <3>1, <3>2, <3>5, <4>1, <1>net
    <3>. QED
      BY <2>4, <3>4, <3>5 DEF HandleError
  <2>. QED
    BY <1>8, <2>1, <2>2, <2>3, <2>4 DEF Receive
<1>9. ASSUME NEW c \in Conns, Handshake(c)
      PROVE PipeInv' /\ NetType' /\ MuxType' /\ StoreType' /\ ReceivedType'
  <2>0. /\ Client \in Peers /\ Server \in Peers
        /\ Other(Client) = Server /\ Other(Server) = Client
    BY DEF Peers, Other, Client, Server
  <2>h. ASSUME NEW p \in Peers, pipe[c][p] # <<>>
        PROVE  Head(pipe[c][p]) \in FramesTo(p)
    BY <2>h, HeadTailProperties DEF PipeInv
  <2>e. <<ErrorFrame>> \in Seq(FramesTo(Client)) /\ <<ErrorFrame>> \in Seq(FramesTo(Server))
    BY <2>0, FramesSent
  <2>1. CASE HandleResume(c)
    <3>1. pipe[c][Server] # <<>> /\ Head(pipe[c][Server]).serverPosition \in Nat
      BY <2>0, <2>h, <2>1, FrameFields DEF HandleResume, ReceivedResume, Received
    <3>2. PICK to \in 0 .. MaxFrames[Server] :
            /\ DropTo(Server, Head(pipe[c][Server]).serverPosition, to)
            /\ Transfer(c, Server, TRUE, c,
                        <<[type |-> "RESUME_OK", clientPosition |-> lastReceived[Server]]>>
                        \o StoredFrames(Server, to))
      BY <2>1 DEF HandleResume
    <3>3. StoreType' /\ to \in 0 .. sent[Server]
      BY <2>0, <2>1, <3>1, <3>2, DropToType DEF HandleResume
    <3>4. <<[type |-> "RESUME_OK", clientPosition |-> lastReceived[Server]]>> \in Seq(FramesTo(Client))
      BY <2>0, FramesSent DEF ReceivedType
    <3>5. StoredFrames(Server, to) \in Seq(FramesTo(Client))
      BY <2>0, <3>3, StoredFramesType
    <3>6. <<[type |-> "RESUME_OK", clientPosition |-> lastReceived[Server]]>>
            \o StoredFrames(Server, to) \in Seq(FramesTo(Client))
      BY <3>4, <3>5, ConcatProperties
    <3>7. PipeInv'
      BY <2>0, <3>1, <3>2, <3>6, TransferType
    <3>8. NetType' /\ MuxType'
      BY <2>1 DEF HandleResume, ClearTimeout, ResumeKeepAlive, NetType, MuxType, clientVars
    <3>. QED
      BY <2>1, <3>3, <3>7, <3>8, <1>rec DEF HandleResume
  <2>2. CASE HandleResumeFails(c)
    <3>1. pipe[c][Server] # <<>> /\ Head(pipe[c][Server]).serverPosition \in Nat
      BY <2>0, <2>h, <2>2, FrameFields DEF HandleResumeFails, ReceivedResume, Received
    <3>2. StoreType'
      <4>1. CASE UNCHANGED <<dropped, firstAvailable, inconsistent>>
        BY <2>2, <4>1, <1>sto DEF HandleResumeFails
      <4>2. CASE \E to \in 0 .. MaxFrames[Server] :
                   DropToFails(Server, Head(pipe[c][Server]).serverPosition, to)
        BY <2>0, <2>2, <3>1, <4>2, DropToType DEF HandleResumeFails
      <4>. QED
        BY <2>2, <4>1, <4>2 DEF HandleResumeFails
    <3>3. PipeInv'
      BY <2>0, <2>e, <2>2, <3>1, TransferType DEF HandleResumeFails
    <3>4. NetType' /\ MuxType'
      BY <2>2 DEF HandleResumeFails, ClearTimeout, CloseSession, NetType, MuxType, clientVars
    <3>. QED
      BY <2>2, <3>2, <3>3, <3>4, <1>rec DEF HandleResumeFails
  <2>3. CASE HandleResumeUnknown(c)
    <3>1. PipeInv'
      BY <2>0, <2>e, <2>3, TransferType DEF HandleResumeUnknown, ReceivedResume, Received
    <3>2. NetType'
      BY <2>3 DEF HandleResumeUnknown, NetType, clientVars, serverVars
    <3>. QED
      BY <2>3, <3>1, <3>2, <1>mux, <1>sto, <1>rec
         DEF HandleResumeUnknown, storeVars, clientVars, serverVars
  <2>4. CASE HandleResumeOk(c)
    <3>. DEFINE position == Head(pipe[c][Client]).clientPosition
    <3>1. pipe[c][Client] # <<>> /\ position \in Nat
      BY <2>0, <2>h, <2>4, FrameFields DEF HandleResumeOk, Received
    <3>2. PICK to \in 0 .. MaxFrames[Client] :
            \/ /\ DropTo(Client, position, to)
               /\ Transfer(c, Client, TRUE, c, StoredFrames(Client, to))
               /\ UNCHANGED muxDone
            \/ /\ DropToFails(Client, position, to)
               /\ Transfer(c, Client, TRUE, c, <<ErrorFrame>> \o StoredFrames(Client, to))
               /\ CloseSession(Client)
      BY <2>4 DEF HandleResumeOk
    <3>. HIDE DEF position
    <3>3. StoreType' /\ to \in 0 .. sent[Client]
      BY <2>0, <2>4, <3>1, <3>2, DropToType DEF HandleResumeOk
    <3>4. StoredFrames(Client, to) \in Seq(FramesTo(Server))
      BY <2>0, <3>3, StoredFramesType
    <3>5. <<ErrorFrame>> \o StoredFrames(Client, to) \in Seq(FramesTo(Server))
      BY <2>e, <3>4, ConcatProperties
    <3>6. PipeInv'
      BY <2>0, <3>1, <3>2, <3>4, <3>5, TransferType
    <3>7. muxDone' \in [Peers -> BOOLEAN]
      BY <3>2 DEF CloseSession, MuxType
    <3>8. NetType' /\ MuxType'
      BY <2>4, <3>7 DEF HandleResumeOk, ResumeKeepAlive, NetType, MuxType, serverVars
    <3>. QED
      BY <2>4, <3>3, <3>6, <3>8, <1>rec DEF HandleResumeOk
  <2>5. CASE HandleNotResumeOk(c)
    <3>. DEFINE sentTo == IF conn[c][Server] = "open" THEN pipe[c][Server] \o <<ErrorFrame>> ELSE pipe[c][Server]
    <3>1. pipe' = [pipe EXCEPT ![c][Client] = <<>>, ![c][Server] = sentTo]
      BY <2>5 DEF HandleNotResumeOk, Client, Server
    <3>2. sentTo \in Seq(FramesTo(Server))
      BY <2>0, <2>e, ConcatProperties DEF PipeInv
    <3>3. sentTo \in Seq(Frames)
      <4>1. FramesTo(Server) \subseteq Frames
        BY DEF FramesTo
      <4>. QED
        BY <3>2, <4>1, SeqMonotonic
    <3>. HIDE DEF sentTo
    <3>4. PipeInv'
      BY <2>0, <3>1, <3>2, <3>3, EmptySeq DEF PipeInv, PipeType, Client, Server
    <3>5. NetType' /\ MuxType'
      BY <2>5 DEF HandleNotResumeOk, CloseSession, NetType, MuxType, clientVars, serverVars
    <3>. QED
      BY <2>5, <3>4, <3>5, <1>sto, <1>rec DEF HandleNotResumeOk, storeVars
  <2>. QED
    BY <1>9, <2>1, <2>2, <2>3, <2>4, <2>5 DEF Handshake
<1>10. CASE UNCHANGED vars
  BY <1>10, <1>net, <1>mux, <1>sto, <1>rec, <1>pip DEF vars, netVars, storeVars, clientVars, serverVars
<1>. QED
  BY <1>1, <1>2, <1>3, <1>4, <1>5, <1>6, <1>7, <1>8, <1>9, <1>10 DEF Next

\* No store holds frames its peer did not send, positions never go below zero, and
\* every frame on its way has the fields its handler reads.
THEOREM SessionTypeCorrect == Spec => []TypeOK
<1>1. SessionInv => TypeOK
  BY DEF SessionInv
<1>. QED
  BY <1>1, TypeInit, TypeStep, PTL DEF Spec

-----------------------------------------------------------------------------
(* The frames on their way, in the order of the session. *)

IsStream(f) == f.type = "STREAM"

\* RESUME_OK and the keepalives tell the receiver up to which position the
\* sender has its frames.
IsPosition(f) == f.type \in {"KEEPALIVE", "RESUME_OK"}
PositionOf(f) == IF f.type = "KEEPALIVE" THEN f.lastReceivedPosition ELSE f.clientPosition

\* The stream frames of s go on, without a gap, where a receiver of m frames
\* stands; the sender has sent n.
InSequence(s, m, n) ==
  /\ \A i \in 1 .. Len(s) : IsStream(s[i]) =>
       /\ m < s[i].n /\ s[i].n <= n
       /\ m + 1 < s[i].n => \E j \in 1 .. i - 1 : IsStream(s[j]) /\ s[j].n = s[i].n - 1
  /\ \A i, j \in 1 .. Len(s) : i < j /\ IsStream(s[i]) /\ IsStream(s[j]) => s[i].n < s[j].n

\* What was sent last and not received is in s, so all of it is.
Complete(s, m, n) == m < n => \E i \in 1 .. Len(s) : IsStream(s[i]) /\ s[i].n = n

\* The positions in s are those after frames m to n, in this order.
Acknowledges(s, pos, m, n) ==
  /\ \A i \in 1 .. Len(s) : IsPosition(s[i]) => \E k \in m .. n : PositionOf(s[i]) = pos[k]
  /\ \A i, j \in 1 .. Len(s) :
       i < j /\ IsPosition(s[i]) /\ IsPosition(s[j]) => PositionOf(s[i]) <= PositionOf(s[j])

LEMMA FrameNumeric ==
  ASSUME SessionAssumption, NEW p \in Peers, NEW f \in FramesTo(p)
  PROVE  /\ IsStream(f) => f.n \in Nat
         /\ IsPosition(f) => PositionOf(f) \in Nat
BY FrameFields DEF IsStream, IsPosition, PositionOf

LEMMA OneMore ==
  ASSUME NEW S, NEW s \in Seq(S), NEW f \in S
  PROVE  /\ s \o <<f>> \in Seq(S) /\ Len(s) \in Nat
         /\ Len(s \o <<f>>) = Len(s) + 1
         /\ \A i \in 1 .. Len(s) : (s \o <<f>>)[i] = s[i] /\ s[i] \in S
         /\ (s \o <<f>>)[Len(s) + 1] = f
<1>1. <<f>> \in Seq(S) /\ Len(<<f>>) = 1 /\ <<f>>[1] = f
  OBVIOUS
<1>2. Len(s) \in Nat /\ \A i \in 1 .. Len(s) : s[i] \in S
  BY LenProperties, ElementOfSeq
<1>. QED
  BY <1>1, <1>2, ConcatProperties

LEMMA OneLess ==
  ASSUME NEW S, NEW s \in Seq(S), s # <<>>
  PROVE  /\ Tail(s) \in Seq(S) /\ Len(s) \in Nat \ {0} /\ Len(Tail(s)) = Len(s) - 1
         /\ \A i \in 1 .. Len(s) - 1 : Tail(s)[i] = s[i + 1]
         /\ \A i \in 1 .. Len(s) : s[i] \in S
         /\ Head(s) = s[1]
BY EmptySeq, HeadTailProperties, ElementOfSeq

LEMMA SendInSequence ==
  ASSUME SessionAssumption, NEW p \in Peers, NEW s \in Seq(FramesTo(p)), NEW f \in FramesTo(p),
         NEW m \in Nat, NEW n \in Nat, m <= n,
         IsStream(f), f.n = n + 1, InSequence(s, m, n), Complete(s, m, n)
  PROVE  InSequence(s \o <<f>>, m, n + 1) /\ Complete(s \o <<f>>, m, n + 1)
<1>0. n + 1 - 1 = n /\ m < n + 1 /\ (m + 1 < n + 1 => m < n) /\ n + 1 <= n + 1
  OBVIOUS
<1>. PICK t : t = s \o <<f>>
  OBVIOUS
<1>. PICK len : len = Len(s)
  OBVIOUS
<1>1. len \in Nat /\ Len(t) = len + 1 /\ t[len + 1] = f
  BY OneMore
<1>2. \A i \in 1 .. len : t[i] = s[i]
  BY OneMore
<1>3. \A i \in 1 .. len : IsStream(s[i]) => s[i].n \in Nat /\ m < s[i].n /\ s[i].n <= n
  BY OneMore, FrameNumeric DEF InSequence
<1>4. Complete(t, m, n + 1)
  BY <1>1 DEF Complete
<1>5. ASSUME NEW i \in 1 .. len + 1, IsStream(t[i])
      PROVE  /\ m < t[i].n /\ t[i].n <= n + 1
             /\ m + 1 < t[i].n => \E j \in 1 .. i - 1 : IsStream(t[j]) /\ t[j].n = t[i].n - 1
  <2>1. CASE i \in 1 .. len
    <3>1. t[i] = s[i] /\ m < s[i].n /\ s[i].n <= n + 1
      BY <1>2, <1>3, <1>5, <2>1
    <3>2. m + 1 < s[i].n => \E j \in 1 .. i - 1 : IsStream(s[j]) /\ s[j].n = s[i].n - 1
      BY <1>5, <2>1, <3>1 DEF InSequence
    <3>3. \A j \in 1 .. i - 1 : t[j] = s[j]
      BY <1>1, <1>2, <2>1
    <3>. QED
      BY <3>1, <3>2, <3>3
  <2>2. CASE i = len + 1
    <3>1. t[i].n = n + 1
      BY <1>1, <2>2
    <3>2. m < n => \E j \in 1 .. len : IsStream(s[j]) /\ s[j].n = n
      BY DEF Complete
    <3>3. m < n => \E j \in 1 .. i - 1 : IsStream(t[j]) /\ t[j].n = n
      BY <1>1, <1>2, <2>2, <3>2
    <3>4. m < t[i].n /\ t[i].n <= n + 1 /\ t[i].n - 1 = n /\ (m + 1 < t[i].n => m < n)
      BY ONLY <1>0, <3>1
    <3>. QED
      BY ONLY <3>3, <3>4
  <2>3. i \in 1 .. len \/ i = len + 1
    BY <1>1
  <2>. QED
    BY <2>1, <2>2, <2>3
<1>6. ASSUME NEW i \in 1 .. len + 1, NEW j \in 1 .. len + 1, i < j, IsStream(t[i]), IsStream(t[j])
      PROVE  t[i].n < t[j].n
  <2>1. i \in 1 .. len /\ t[i] = s[i]
    BY <1>1, <1>2, <1>6
  <2>2. CASE j \in 1 .. len
    BY <1>2, <1>6, <2>1, <2>2 DEF InSequence
  <2>3. CASE j = len + 1
    BY <1>1, <1>3, <1>6, <2>1, <2>3
  <2>. QED
    BY <1>1, <2>2, <2>3
<1>. QED
  BY <1>1, <1>4, <1>5, <1>6 DEF InSequence

LEMMA SendOther ==
  ASSUME SessionAssumption, NEW p \in Peers, NEW s \in Seq(FramesTo(p)), NEW f \in FramesTo(p),
         NEW m, NEW n, ~IsStream(f)
  PROVE  /\ InSequence(s, m, n) => InSequence(s \o <<f>>, m, n)
         /\ Complete(s, m, n) => Complete(s \o <<f>>, m, n)
<1>. PICK t : t = s \o <<f>>
  OBVIOUS
<1>. PICK len : len = Len(s)
  OBVIOUS
<1>1. len \in Nat /\ Len(t) = len + 1 /\ t[len + 1] = f
  BY OneMore
<1>2. \A i \in 1 .. len : t[i] = s[i]
  BY OneMore
<1>3. \A i \in 1 .. len + 1 : IsStream(t[i]) => i \in 1 .. len
  BY <1>1
<1>4. ASSUME Complete(s, m, n) PROVE Complete(t, m, n)
  BY <1>1, <1>2, <1>4 DEF Complete
<1>5. ASSUME InSequence(s, m, n) PROVE InSequence(t, m, n)
  <2>1. ASSUME NEW i \in 1 .. len, IsStream(t[i])
        PROVE  /\ m < t[i].n /\ t[i].n <= n
               /\ m + 1 < t[i].n => \E j \in 1 .. i - 1 : IsStream(t[j]) /\ t[j].n = t[i].n - 1
    <3>1. /\ m < s[i].n /\ s[i].n <= n
          /\ m + 1 < s[i].n => \E j \in 1 .. i - 1 : IsStream(s[j]) /\ s[j].n = s[i].n - 1
      BY <1>2, <1>5, <2>1 DEF InSequence
    <3>2. \A j \in 1 .. i - 1 : t[j] = s[j]
      BY <1>1, <1>2
    <3>. QED
      BY <1>2, <3>1, <3>2
  <2>2. \A i, j \in 1 .. len : i < j /\ IsStream(t[i]) /\ IsStream(t[j]) => t[i].n < t[j].n
    BY <1>2, <1>5 DEF InSequence
  <2>. QED
    BY <1>1, <1>3, <2>1, <2>2 DEF InSequence
<1>. QED
  BY <1>4, <1>5

\* Taking the first frame shifts the others.
LEMMA Shifted ==
  ASSUME NEW S, NEW s \in Seq(S), s # <<>>
  PROVE  /\ Len(s) \in Nat \ {0} /\ Len(Tail(s)) = Len(s) - 1 /\ Head(s) = s[1] /\ 1 \in 1 .. Len(s)
         /\ \A i \in 1 .. Len(Tail(s)) :
              /\ Tail(s)[i] = s[i + 1] /\ i \in Nat
              /\ i + 1 \in 1 .. Len(s)
         /\ \A i \in 1 .. Len(s) : i # 1 => /\ i - 1 \in 1 .. Len(Tail(s))
                                            /\ Tail(s)[i - 1] = s[i]
<1>1. Len(s) \in Nat \ {0} /\ Len(Tail(s)) = Len(s) - 1 /\ Head(s) = s[1]
  BY OneLess
<1>2. \A i \in 1 .. Len(s) - 1 : Tail(s)[i] = s[i + 1]
  BY OneLess
<1>. QED
  BY <1>1, <1>2

LEMMA TakeStream ==
  ASSUME SessionAssumption, NEW p \in Peers, NEW s \in Seq(FramesTo(p)), s # <<>>,
         NEW m \in Nat, NEW n \in Nat, IsStream(Head(s)), InSequence(s, m, n)
  PROVE  /\ Head(s).n = m + 1 /\ m + 1 <= n
         /\ InSequence(Tail(s), m + 1, n)
         /\ Complete(s, m, n) => Complete(Tail(s), m + 1, n)
<1>. PICK t : t = Tail(s)
  OBVIOUS
<1>1. /\ Len(s) \in Nat \ {0} /\ Len(t) = Len(s) - 1 /\ Head(s) = s[1] /\ 1 \in 1 .. Len(s)
  BY Shifted
<1>2. \A i \in 1 .. Len(t) : t[i] = s[i + 1] /\ i + 1 \in 1 .. Len(s) /\ i \in Nat
  BY Shifted
<1>3. \A i \in 1 .. Len(s) : i # 1 => i - 1 \in 1 .. Len(t) /\ t[i - 1] = s[i]
  BY Shifted
<1>4. \A i \in 1 .. Len(s) : IsStream(s[i]) => s[i].n \in Nat
  BY OneLess, FrameNumeric
<1>5. s[1].n = m + 1 /\ m + 1 <= n
  <2>1. m < s[1].n /\ s[1].n <= n /\ ~(m + 1 < s[1].n)
    BY <1>1 DEF InSequence
  <2>. QED
    BY <1>1, <1>4, <2>1
<1>6. ASSUME NEW i \in 1 .. Len(t), IsStream(t[i])
      PROVE  /\ m + 1 < t[i].n /\ t[i].n <= n
             /\ m + 2 < t[i].n => \E j \in 1 .. i - 1 : IsStream(t[j]) /\ t[j].n = t[i].n - 1
  <2>1. i + 1 \in 1 .. Len(s) /\ t[i] = s[i + 1] /\ 1 < i + 1 /\ IsStream(s[i + 1]) /\ i + 1 - 1 = i
    BY <1>2, <1>6
  <2>2. m + 1 < t[i].n /\ t[i].n <= n
    BY <1>1, <1>5, <2>1 DEF InSequence
  <2>3. ASSUME m + 2 < t[i].n
        PROVE  \E j \in 1 .. i - 1 : IsStream(t[j]) /\ t[j].n = t[i].n - 1
    <3>1. m + 1 < s[i + 1].n => \E j \in 1 .. i : IsStream(s[j]) /\ s[j].n = s[i + 1].n - 1
      BY <2>1 DEF InSequence
    <3>2. PICK j \in 1 .. i : IsStream(s[j]) /\ s[j].n = s[i + 1].n - 1
      BY <1>4, <2>1, <2>2, <3>1
    <3>3. j # 1
      BY <1>4, <1>5, <2>1, <2>3, <3>2
    <3>4. j - 1 \in 1 .. i - 1 /\ t[j - 1] = s[j]
      BY <1>1, <1>2, <1>3, <2>1, <3>3
    <3>. QED
      BY <2>1, <3>2, <3>4
  <2>. QED
    BY <2>2, <2>3
<1>7. ASSUME NEW i \in 1 .. Len(t), NEW j \in 1 .. Len(t), i < j, IsStream(t[i]), IsStream(t[j])
      PROVE  t[i].n < t[j].n
  <2>1. /\ i + 1 \in 1 .. Len(s) /\ j + 1 \in 1 .. Len(s) /\ i + 1 < j + 1
        /\ t[i] = s[i + 1] /\ t[j] = s[j + 1]
    BY <1>1, <1>2, <1>7
  <2>. QED
    BY <1>7, <2>1 DEF InSequence
<1>8. ASSUME Complete(s, m, n), m + 1 < n
      PROVE  \E i \in 1 .. Len(t) : IsStream(t[i]) /\ t[i].n = n
  <2>1. PICK i \in 1 .. Len(s) : IsStream(s[i]) /\ s[i].n = n
    BY <1>8 DEF Complete
  <2>2. i # 1
    BY <1>5, <1>8, <2>1
  <2>. QED
    BY <1>3, <2>1, <2>2
<1>9. m + 1 + 1 = m + 2
  OBVIOUS
<1>10. InSequence(t, m + 1, n)
  BY <1>6, <1>7, <1>9 DEF InSequence
<1>11. Complete(s, m, n) => Complete(t, m + 1, n)
  BY <1>8 DEF Complete
<1>. QED
  BY <1>1, <1>5, <1>10, <1>11

LEMMA TakeOther ==
  ASSUME SessionAssumption, NEW p \in Peers, NEW s \in Seq(FramesTo(p)), s # <<>>,
         NEW m, NEW n, ~IsStream(Head(s))
  PROVE  /\ InSequence(s, m, n) => InSequence(Tail(s), m, n)
         /\ Complete(s, m, n) => Complete(Tail(s), m, n)
<1>. PICK t : t = Tail(s)
  OBVIOUS
<1>1. /\ Len(s) \in Nat \ {0} /\ Len(t) = Len(s) - 1 /\ ~IsStream(s[1]) /\ 1 \in 1 .. Len(s)
  BY Shifted
<1>2. \A i \in 1 .. Len(t) : t[i] = s[i + 1] /\ i + 1 \in 1 .. Len(s) /\ i \in Nat
  BY Shifted
<1>3. \A i \in 1 .. Len(s) : i # 1 => i - 1 \in 1 .. Len(t) /\ t[i - 1] = s[i]
  BY Shifted
<1>4. ASSUME Complete(s, m, n), m < n
      PROVE  \E i \in 1 .. Len(t) : IsStream(t[i]) /\ t[i].n = n
  <2>1. PICK i \in 1 .. Len(s) : IsStream(s[i]) /\ s[i].n = n
    BY <1>4 DEF Complete
  <2>2. i # 1
    BY <1>1, <2>1
  <2>. QED
    BY <1>3, <2>1, <2>2
<1>5. ASSUME InSequence(s, m, n) PROVE InSequence(t, m, n)
  <2>1. ASSUME NEW i \in 1 .. Len(t), IsStream(t[i])
        PROVE  /\ m < t[i].n /\ t[i].n <= n
               /\ m + 1 < t[i].n => \E j \in 1 .. i - 1 : IsStream(t[j]) /\ t[j].n = t[i].n - 1
    <3>1. i + 1 \in 1 .. Len(s) /\ t[i] = s[i + 1] /\ IsStream(s[i + 1]) /\ i + 1 - 1 = i
      BY <1>2, <2>1
    <3>2. /\ m < s[i + 1].n /\ s[i + 1].n <= n
          /\ m + 1 < s[i + 1].n => \E j \in 1 .. i : IsStream(s[j]) /\ s[j].n = s[i + 1].n - 1
      BY <1>5, <3>1 DEF InSequence
    <3>3. ASSUME NEW j \in 1 .. i, IsStream(s[j]) PROVE j - 1 \in 1 .. i - 1 /\ t[j - 1] = s[j]
      BY <1>1, <1>2, <1>3, <3>1, <3>3
    <3>. QED
      BY <3>1, <3>2, <3>3
  <2>2. ASSUME NEW i \in 1 .. Len(t), NEW j \in 1 .. Len(t), i < j, IsStream(t[i]), IsStream(t[j])
        PROVE  t[i].n < t[j].n
    <3>1. /\ i + 1 \in 1 .. Len(s) /\ j + 1 \in 1 .. Len(s) /\ i + 1 < j + 1
          /\ t[i] = s[i + 1] /\ t[j] = s[j + 1]
      BY <1>1, <1>2, <2>2
    <3>. QED
      BY <1>5, <2>2, <3>1 DEF InSequence
  <2>. QED
    BY <2>1, <2>2 DEF InSequence
<1>. QED
  BY <1>4, <1>5 DEF Complete

LEMMA MoreSent ==
  ASSUME SessionAssumption, NEW p \in Peers, NEW s \in Seq(FramesTo(p)),
         NEW m \in Nat, NEW n \in Nat, InSequence(s, m, n)
  PROVE  InSequence(s, m, n + 1)
<1>1. \A i \in 1 .. Len(s) : IsStream(s[i]) => s[i].n \in Nat
  BY ElementOfSeq, FrameNumeric
<1>2. \A i \in 1 .. Len(s) : IsStream(s[i]) => s[i].n <= n + 1
  BY <1>1 DEF InSequence
<1>. QED
  BY <1>2 DEF InSequence

\* The same for the positions.
LEMMA SendPosition ==
  ASSUME SessionAssumption, NEW p \in Peers, NEW s \in Seq(FramesTo(p)), NEW f \in FramesTo(p),
         NEW m \in 0 .. MaxFrames[p], NEW n \in 0 .. MaxFrames[p], m <= n,
         IsPosition(f) => PositionOf(f) = FramePos[p][n],
         Acknowledges(s, FramePos[p], m, n)
  PROVE  Acknowledges(s \o <<f>>, FramePos[p], m, n)
<1>. PICK t : t = s \o <<f>>
  OBVIOUS
<1>. PICK pos : pos = FramePos[p]
  OBVIOUS
<1>. PICK len : len = Len(s)
  OBVIOUS
<1>1. len \in Nat /\ Len(t) = len + 1 /\ t[len + 1] = f
  BY OneMore
<1>2. \A i \in 1 .. len : t[i] = s[i]
  BY OneMore
<1>3. m \in Nat /\ n \in Nat /\ n \in m .. n
  BY DEF SessionAssumption
<1>4. \A k \in m .. n : pos[k] \in Nat /\ pos[k] <= pos[n]
  <2>1. ASSUME NEW k \in m .. n PROVE pos[k] \in Nat /\ pos[k] <= pos[n]
    <3>1. k \in 0 .. MaxFrames[p] /\ (k = n \/ k < n)
      BY DEF SessionAssumption
    <3>2. pos[k] \in Nat /\ pos[n] \in Nat
      BY <3>1 DEF SessionAssumption
    <3>3. k < n => pos[k] < pos[n]
      BY <3>1 DEF SessionAssumption
    <3>. QED
      BY <3>1, <3>2, <3>3
  <2>. QED
    BY <2>1
<1>5. ASSUME NEW i \in 1 .. len + 1, IsPosition(t[i])
      PROVE  \E k \in m .. n : PositionOf(t[i]) = pos[k]
  <2>1. CASE i \in 1 .. len
    BY <1>2, <1>5, <2>1 DEF Acknowledges
  <2>2. CASE i = len + 1
    BY <1>1, <1>3, <1>5, <2>2
  <2>. QED
    BY <1>1, <2>1, <2>2
<1>6. ASSUME NEW i \in 1 .. len + 1, NEW j \in 1 .. len + 1, i < j, IsPosition(t[i]), IsPosition(t[j])
      PROVE  PositionOf(t[i]) <= PositionOf(t[j])
  <2>1. i \in 1 .. len /\ t[i] = s[i]
    BY <1>1, <1>2, <1>6
  <2>2. CASE j \in 1 .. len
    BY <1>2, <1>6, <2>1, <2>2 DEF Acknowledges
  <2>3. CASE j = len + 1
    <3>1. PICK k \in m .. n : PositionOf(s[i]) = pos[k]
      BY <1>6, <2>1 DEF Acknowledges
    <3>2. PositionOf(t[j]) = pos[n]
      BY <1>1, <1>6, <2>3
    <3>. QED
      BY <1>4, <2>1, <3>1, <3>2
  <2>. QED
    BY <1>1, <2>2, <2>3
<1>. QED
  BY <1>1, <1>5, <1>6 DEF Acknowledges

\* The receiver of a position drops its frames up to it: the positions behind
\* it are not lower.
LEMMA TakePosition ==
  ASSUME SessionAssumption, NEW p \in Peers, NEW s \in Seq(FramesTo(p)), s # <<>>,
         NEW m \in 0 .. MaxFrames[p], NEW n \in 0 .. MaxFrames[p],
         IsPosition(Head(s)), Acknowledges(s, FramePos[p], m, n)
  PROVE  \E k \in m .. n : /\ PositionOf(Head(s)) = FramePos[p][k]
                           /\ Acknowledges(Tail(s), FramePos[p], k, n)
<1>. PICK t : t = Tail(s)
  OBVIOUS
<1>. PICK pos : pos = FramePos[p]
  OBVIOUS
<1>1. Head(s) = s[1] /\ 1 \in 1 .. Len(s)
  BY Shifted
<1>2. \A i \in 1 .. Len(t) : t[i] = s[i + 1] /\ i + 1 \in 1 .. Len(s) /\ i \in Nat
  BY Shifted
<1>3. PICK k \in m .. n : PositionOf(s[1]) = pos[k]
  BY <1>1 DEF Acknowledges
<1>4. ASSUME NEW i \in 1 .. Len(t), IsPosition(t[i])
      PROVE  \E l \in k .. n : PositionOf(t[i]) = pos[l]
  <2>1. i + 1 \in 1 .. Len(s) /\ 1 < i + 1 /\ t[i] = s[i + 1] /\ IsPosition(s[i + 1])
    BY <1>2, <1>4
  <2>2. PICK l \in m .. n : PositionOf(s[i + 1]) = pos[l]
    BY <2>1 DEF Acknowledges
  <2>3. pos[k] <= pos[l]
    BY <1>1, <1>3, <2>1, <2>2 DEF Acknowledges
  <2>4. ~(l < k)
    <3>1. k \in 0 .. MaxFrames[p] /\ l \in 0 .. MaxFrames[p]
      BY DEF SessionAssumption
    <3>2. l < k => pos[l] < pos[k]
      BY <3>1 DEF SessionAssumption
    <3>3. pos[k] \in Nat /\ pos[l] \in Nat
      BY <3>1 DEF SessionAssumption
    <3>. QED
      BY <2>3, <3>2, <3>3
  <2>5. l \in k .. n
    BY <2>4
  <2>. QED
    BY <2>1, <2>2, <2>5
<1>5. ASSUME NEW i \in 1 .. Len(t), NEW j \in 1 .. Len(t), i < j, IsPosition(t[i]), IsPosition(t[j])
      PROVE  PositionOf(t[i]) <= PositionOf(t[j])
  <2>1. /\ i + 1 \in 1 .. Len(s) /\ j + 1 \in 1 .. Len(s) /\ i + 1 < j + 1
        /\ t[i] = s[i + 1] /\ t[j] = s[j + 1]
    BY <1>2, <1>5
  <2>. QED
    BY <1>5, <2>1 DEF Acknowledges
<1>6. Acknowledges(t, pos, k, n)
  BY <1>4, <1>5 DEF Acknowledges
<1>. QED
  BY <1>1, <1>3, <1>6

LEMMA TakeNoPosition ==
  ASSUME NEW S, NEW s \in Seq(S), s # <<>>, NEW pos, NEW m, NEW n, Acknowledges(s, pos, m, n)
  PROVE  Acknowledges(Tail(s), pos, m, n)
<1>. PICK t : t = Tail(s)
  OBVIOUS
<1>1. \A i \in 1 .. Len(t) : t[i] = s[i + 1] /\ i + 1 \in 1 .. Len(s) /\ i \in Nat
  BY Shifted
<1>2. ASSUME NEW i \in 1 .. Len(t), NEW j \in 1 .. Len(t), i < j, IsPosition(t[i]), IsPosition(t[j])
      PROVE  PositionOf(t[i]) <= PositionOf(t[j])
  <2>1. /\ i + 1 \in 1 .. Len(s) /\ j + 1 \in 1 .. Len(s) /\ i + 1 < j + 1
        /\ t[i] = s[i + 1] /\ t[j] = s[j + 1]
    BY <1>1, <1>2
  <2>. QED
    BY <1>2, <2>1 DEF Acknowledges
<1>3. \A i \in 1 .. Len(t) : IsPosition(t[i]) => \E k \in m .. n : PositionOf(t[i]) = pos[k]
  BY <1>1 DEF Acknowledges
<1>. QED
  BY <1>2, <1>3 DEF Acknowledges

LEMMA MoreHandled ==
  ASSUME NEW s, NEW pos, NEW m \in Nat, NEW n \in Nat, Acknowledges(s, pos, m, n)
  PROVE  Acknowledges(s, pos, m, n + 1)
<1>1. m .. n \subseteq m .. n + 1
  OBVIOUS
<1>. QED
  BY <1>1 DEF Acknowledges

LEMMA NothingOnItsWay ==
  /\ \A m, n : InSequence(<<>>, m, n)
  /\ \A pos, m, n : Acknowledges(<<>>, pos, m, n)
BY DEF InSequence, Acknowledges

\* What drain sends.
LEMMA StoredInSequence ==
  ASSUME SessionAssumption, StoreType, NEW p \in Peers, NEW from \in 0 .. sent[p]
  PROVE  /\ StoredFrames(p, from) \in Seq(FramesTo(Other(p)))
         /\ \A i \in 1 .. Len(StoredFrames(p, from)) : StoredFrames(p, from)[i].type = "STREAM"
         /\ InSequence(StoredFrames(p, from), from, sent[p])
         /\ Complete(StoredFrames(p, from), from, sent[p])
<1>. PICK s : s = StoredFrames(p, from)
  OBVIOUS
<1>1. s \in Seq(FramesTo(Other(p)))
  BY StoredFramesType
<1>2. sent[p] \in Nat /\ from \in Nat /\ sent[p] - from \in Nat
  BY DEF StoreType
<1>3. s = [i \in 1 .. sent[p] - from |-> StreamFrame(from + i)]
  BY DEF StoredFrames
<1>4. Len(s) = sent[p] - from
  <2>1. DOMAIN s = 1 .. sent[p] - from /\ DOMAIN s = 1 .. Len(s) /\ Len(s) \in Nat
    BY <1>1, <1>3, LenProperties
  <2>. QED
    BY <1>2, <2>1
<1>5. \A i \in 1 .. Len(s) : s[i].type = "STREAM" /\ s[i].n = from + i /\ IsStream(s[i])
  <2>1. \A i \in 1 .. Len(s) : s[i] = StreamFrame(from + i)
    BY <1>3, <1>4
  <2>2. \A n : StreamFrame(n).type = "STREAM" /\ StreamFrame(n).n = n
    BY DEF StreamFrame
  <2>. QED
    BY <2>1, <2>2 DEF IsStream
<1>6. ASSUME NEW i \in 1 .. Len(s)
      PROVE  /\ from < s[i].n /\ s[i].n <= sent[p]
             /\ from + 1 < s[i].n => \E j \in 1 .. i - 1 : IsStream(s[j]) /\ s[j].n = s[i].n - 1
  <2>1. s[i].n = from + i /\ i \in Nat \ {0} /\ i <= sent[p] - from
    BY <1>4, <1>5, <1>2
  <2>2. from < s[i].n /\ s[i].n <= sent[p]
    BY <1>2, <2>1
  <2>3. ASSUME from + 1 < s[i].n
        PROVE  i - 1 \in 1 .. i - 1 /\ i - 1 \in 1 .. Len(s) /\ from + (i - 1) = s[i].n - 1
    BY <1>2, <1>4, <2>1, <2>3
  <2>. QED
    BY <1>5, <2>2, <2>3
<1>7. ASSUME NEW i \in 1 .. Len(s), NEW j \in 1 .. Len(s), i < j PROVE s[i].n < s[j].n
  <2>1. from + i < from + j
    BY <1>2, <1>4, <1>7
  <2>. QED
    BY <1>5, <2>1
<1>8. InSequence(s, from, sent[p])
  BY <1>6, <1>7 DEF InSequence
<1>9. Complete(s, from, sent[p])
  <2>1. ASSUME from < sent[p]
        PROVE  sent[p] - from \in 1 .. Len(s) /\ from + (sent[p] - from) = sent[p]
    BY <1>2, <1>4, <2>1
  <2>. QED
    BY <1>5, <2>1 DEF Complete
<1>. QED
  BY <1>1, <1>5, <1>8, <1>9

\* A RESUME_OK before them.
LEMMA AfterOther ==
  ASSUME SessionAssumption, NEW p \in Peers, NEW s \in Seq(FramesTo(p)), NEW f \in FramesTo(p),
         NEW m, NEW n, ~IsStream(f), InSequence(s, m, n), Complete(s, m, n)
  PROVE  InSequence(<<f>> \o s, m, n) /\ Complete(<<f>> \o s, m, n)
<1>. PICK t : t = <<f>> \o s
  OBVIOUS
<1>0. t \in Seq(FramesTo(p)) /\ t # <<>> /\ Head(t) = f /\ Tail(t) = s
  OBVIOUS
<1>1. Len(t) \in Nat \ {0} /\ Len(s) = Len(t) - 1 /\ t[1] = f
  BY <1>0, Shifted
<1>2. \A i \in 1 .. Len(s) : s[i] = t[i + 1] /\ i + 1 \in 1 .. Len(t) /\ i \in Nat
  BY <1>0, Shifted
<1>3. \A i \in 1 .. Len(t) : i # 1 => i - 1 \in 1 .. Len(s) /\ s[i - 1] = t[i]
  BY <1>0, Shifted
<1>4. Complete(t, m, n)
  BY <1>2 DEF Complete
<1>5. ASSUME NEW i \in 1 .. Len(t), IsStream(t[i])
      PROVE  /\ m < t[i].n /\ t[i].n <= n
             /\ m + 1 < t[i].n => \E j \in 1 .. i - 1 : IsStream(t[j]) /\ t[j].n = t[i].n - 1
  <2>1. i # 1 /\ i - 1 \in 1 .. Len(s) /\ s[i - 1] = t[i] /\ i \in 1 .. Len(t)
    BY <1>1, <1>3, <1>5
  <2>2. /\ m < t[i].n /\ t[i].n <= n
        /\ m + 1 < t[i].n => \E j \in 1 .. (i - 1) - 1 : IsStream(s[j]) /\ s[j].n = t[i].n - 1
    BY <1>5, <2>1 DEF InSequence
  <2>3. ASSUME NEW j \in 1 .. (i - 1) - 1 PROVE j + 1 \in 1 .. i - 1 /\ t[j + 1] = s[j]
    BY <1>1, <1>2, <2>1
  <2>. QED
    BY <2>2, <2>3
<1>6. ASSUME NEW i \in 1 .. Len(t), NEW j \in 1 .. Len(t), i < j, IsStream(t[i]), IsStream(t[j])
      PROVE  t[i].n < t[j].n
  <2>1. i # 1 /\ j # 1
    BY <1>1, <1>6
  <2>2. /\ i - 1 \in 1 .. Len(s) /\ j - 1 \in 1 .. Len(s) /\ i - 1 < j - 1
        /\ t[i] = s[i - 1] /\ t[j] = s[j - 1]
    BY <1>1, <1>3, <1>6, <2>1
  <2>. QED
    BY <1>6, <2>2 DEF InSequence
<1>. QED
  BY <1>4, <1>5, <1>6 DEF InSequence

LEMMA FirstPosition ==
  ASSUME SessionAssumption, NEW p \in Peers, NEW s, NEW m \in Nat, NEW n \in Nat, m <= n,
         \A i \in 1 .. Len(s) : IsPosition(s[i]) => i = 1 /\ PositionOf(s[i]) = FramePos[p][n]
  PROVE  Acknowledges(s, FramePos[p], m, n)
<1>1. n \in m .. n
  OBVIOUS
<1>2. \A i, j \in 1 .. Len(s) : i < j => i \in Int /\ j \in Int /\ i # j
  OBVIOUS
<1>3. \A i, j \in 1 .. Len(s) : i < j /\ IsPosition(s[i]) /\ IsPosition(s[j]) => FALSE
  BY <1>2
<1>. QED
  BY <1>1, <1>3 DEF Acknowledges

\* dropTo reaches the position after a stored frame, and does not throw.
LEMMA DropReaches ==
  ASSUME SessionAssumption, StoreType, NEW p \in Peers, NEW k \in dropped[p] .. sent[p],
         firstAvailable[p] = FramePos[p][dropped[p]],
         NEW to \in 0 .. MaxFrames[p], DropsUpTo(p, FramePos[p][k], to)
  PROVE  to = k /\ ~DropThrows(p, FramePos[p][k], to)
<1>1. /\ dropped[p] \in Nat /\ sent[p] \in Nat /\ MaxFrames[p] \in Nat
      /\ dropped[p] <= sent[p] /\ sent[p] <= MaxFrames[p]
  BY DEF StoreType, SessionAssumption
<1>. PICK d : d = dropped[p]
  OBVIOUS
<1>. PICK pos : pos = FramePos[p]
  OBVIOUS
<1>2. \A i \in 0 .. MaxFrames[p] : pos[i] \in Nat
  BY DEF SessionAssumption
<1>3. \A i, j \in 0 .. MaxFrames[p] : i < j => pos[i] < pos[j]
  BY DEF SessionAssumption
<1>4. /\ to \in d .. sent[p]
      /\ to > d => pos[to - 1] - pos[d] < pos[k] - pos[d]
      /\ to < sent[p] => pos[to] - pos[d] >= pos[k] - pos[d]
  BY DEF DropsUpTo, Size
<1>5. k \in 0 .. MaxFrames[p] /\ d \in 0 .. MaxFrames[p] /\ k \in Int /\ d <= k /\ k <= sent[p]
  BY <1>1
<1>6. ~(to < k)
  <2>1. to < k => pos[to] < pos[k] /\ to < sent[p]
    BY <1>3, <1>4, <1>5, <1>1
  <2>. QED
    BY <1>2, <1>4, <1>5, <2>1
<1>7. ~(k < to)
  <2>1. SUFFICES ASSUME k < to PROVE FALSE
    OBVIOUS
  <2>2. PICK j : j = to - 1
    OBVIOUS
  <2>3. j \in 0 .. MaxFrames[p] /\ to > d /\ (k = j \/ k < j)
    BY <1>1, <1>4, <1>5, <2>1, <2>2
  <2>4. pos[j] < pos[k]
    <3>1. pos[j] - pos[d] < pos[k] - pos[d]
      BY <1>4, <2>2, <2>3
    <3>2. pos[j] \in Nat /\ pos[d] \in Nat /\ pos[k] \in Nat
      BY <1>2, <1>5, <2>3
    <3>. QED
      BY <3>1, <3>2
  <2>5. pos[k] = pos[j] \/ pos[k] < pos[j]
    BY <1>3, <1>5, <2>3
  <2>. QED
    BY <1>2, <1>5, <2>3, <2>4, <2>5
<1>8. to = k
  BY <1>1, <1>4, <1>5, <1>6, <1>7
<1>. QED
  BY <1>8 DEF DropThrows, Size

LEMMA DropExact ==
  ASSUME SessionAssumption, StoreType, NEW p \in Peers, NEW k \in dropped[p] .. sent[p],
         firstAvailable[p] = FramePos[p][dropped[p]], NEW to \in 0 .. MaxFrames[p]
  PROVE  /\ ~DropToFails(p, FramePos[p][k], to)
         /\ DropTo(p, FramePos[p][k], to) =>
              /\ to = k
              /\ dropped' = [dropped EXCEPT ![p] = k]
              /\ firstAvailable' = [firstAvailable EXCEPT ![p] = FramePos[p][k]]
              /\ inconsistent' = inconsistent
BY DropReaches DEF DropToFails, DropTo

\* The pipes after a peer took a frame and sent others.
LEMMA TransferPipes ==
  ASSUME PipeInv, NEW c \in Conns, NEW p \in Peers, NEW takes \in BOOLEAN,
         NEW d \in Conns, NEW frames \in Seq(FramesTo(Other(p))), takes => pipe[c][p] # <<>>,
         Transfer(c, p, takes, d, frames)
  PROVE  /\ \A x \in Conns, y \in Peers :
              ~(x = c /\ y = p) /\ ~(x = d /\ y = Other(p)) => pipe'[x][y] = pipe[x][y]
         /\ pipe'[c][p] = IF takes THEN Tail(pipe[c][p]) ELSE pipe[c][p]
         /\ pipe'[d][Other(p)] = IF conn[d][p] = "open" /\ conn[d][Other(p)] = "open"
                                 THEN pipe[d][Other(p)] \o frames ELSE pipe[d][Other(p)]
<1>0. Other(p) \in Peers /\ Other(p) # p
  BY DEF Other, Peers, Client, Server
<1>1. \A x \in Conns, y \in Peers : pipe[x][y] \in Seq(FramesTo(y))
  BY DEF PipeInv
<1>2. \A x \in Conns, y \in Peers : pipe[x][y] \o <<>> = pipe[x][y]
  BY <1>1, ConcatEmptySeq
<1>3. takes => Tail(pipe[c][p]) \o <<>> = Tail(pipe[c][p])
  BY <1>1, HeadTailProperties, ConcatEmptySeq
<1>4. \A x \in Conns, y \in Peers :
        pipe'[x][y] = (IF takes /\ x = c /\ y = p THEN Tail(pipe[x][y]) ELSE pipe[x][y])
             \o (IF x = d /\ y = Other(p) /\ conn[d][p] = "open" /\ conn[d][y] = "open"
                 THEN frames ELSE <<>>)
  BY DEF Transfer
<1>. QED
  BY <1>0, <1>2, <1>3, <1>4


-----------------------------------------------------------------------------
(* A session resumed in order. *)

\* The server's old connection is closed before RESUME arrives, and no other
\* client uses the token.
Orderly == ~StaleConnections /\ ~TokenReuse

\* The connection that carries the session: the one the server resumed last.
InUse == outbound[Server]

\* The frames of p that its peer has handled.
Handled(p) == Len(delivered[Other(p)])

\* What p sends arrives unless an end closes.
Live(p) == outbound[p] = InUse /\ conn[InUse][Client] = "open" /\ conn[InUse][Server] = "open"

ResumeFrame ==
  [type |-> "RESUME", clientPosition |-> firstAvailable[Client], serverPosition |-> lastReceived[Client]]

\* Connections are opened one after the other, and given up in this order by
\* the client, and by the server before it resumes.
Succession ==
  /\ \A c \in Conns : conn[c][Client] = "none" <=> conn[c][Server] = "none"
  /\ \A c, d \in Conns : c < d /\ conn[c][Client] # "done" => conn[d][Client] = "none"
  /\ \A c \in Conns : c < InUse => conn[c][Server] = "done"
  /\ conn[InUse][Client] # "none"
  /\ outbound[Client] <= InUse
  /\ InUse \in awaiting <=> outbound[Client] # InUse

\* The session timer.
TimerInv ==
  /\ inStore
  /\ \A c \in watched[Server] : c <= InUse
  /\ timers \subseteq {timeoutId}
  /\ TimerOnlyWhileDisconnected

\* Everything but RESUME travels on the connection in use: RESUME_OK before the
\* frames that follow it, and no ERROR.
FrameOrder ==
  /\ \A c \in Conns, p \in Peers : conn[c][p] # "open" => pipe[c][p] = <<>>
  /\ \A c \in Conns : c # InUse => pipe[c][Client] = <<>>
  /\ \A c \in Conns : c # InUse /\ pipe[c][Server] # <<>> =>
                        c \in awaiting /\ pipe[c][Server] = <<ResumeFrame>>
  /\ InUse \in awaiting => pipe[InUse][Server] = <<>>
  /\ InUse \in awaiting /\ conn[InUse][Client] = "open" => pipe[InUse][Client] # <<>>
  /\ \A p \in Peers : \A i \in 1 .. Len(pipe[InUse][p]) :
       /\ pipe[InUse][p][i].type \in {"STREAM", "KEEPALIVE", "RESUME_OK"}
       /\ pipe[InUse][p][i].type = "RESUME_OK" <=> p = Client /\ i = 1 /\ InUse \in awaiting
       /\ pipe[InUse][p][i].type = "RESUME_OK" => pipe[InUse][p][i].clientPosition = lastReceived[Server]

\* The stores of p and of its peer stand for the same frames of p.
StoreAgrees(p) ==
  /\ firstAvailable[p] = FramePos[p][dropped[p]]
  /\ lastReceived[Other(p)] = FramePos[p][Handled(p)]
  /\ ~inconsistent[p]
  /\ dropped[p] <= Handled(p) /\ Handled(p) <= sent[p]
  /\ \A i \in 1 .. Handled(p) : delivered[Other(p)][i] = i

FramesFollow(p) ==
  /\ InSequence(pipe[InUse][Other(p)], Handled(p), sent[p])
  /\ Live(p) => Complete(pipe[InUse][Other(p)], Handled(p), sent[p])

PositionsFollow(p) == Acknowledges(pipe[InUse][p], FramePos[p], dropped[p], Handled(p))

StoreOrder == \A p \in Peers : StoreAgrees(p) /\ FramesFollow(p) /\ PositionsFollow(p)

OrderInv == Succession /\ TimerInv /\ FrameOrder /\ StoreOrder

-----------------------------------------------------------------------------
LEMMA TwoPeers ==
  /\ Peers = {Client, Server} /\ Client \in Peers /\ Server \in Peers /\ Client # Server
  /\ Other(Client) = Server /\ Other(Server) = Client
  /\ \A p \in Peers : Other(p) \in Peers /\ Other(Other(p)) = p /\ Other(p) # p
BY DEF Peers, Other, Client, Server

LEMMA HandledNat ==
  ASSUME SessionAssumption, StoreType, ReceivedType, StoreOrder, NEW p \in Peers
  PROVE  /\ Handled(p) \in Nat /\ dropped[p] \in Nat /\ sent[p] \in Nat
         /\ dropped[p] <= Handled(p) /\ Handled(p) <= sent[p] /\ sent[p] <= MaxFrames[p]
         /\ Handled(p) \in 0 .. MaxFrames[p] /\ dropped[p] \in 0 .. MaxFrames[p]
         /\ Handled(p) \in dropped[p] .. sent[p] /\ Handled(p) \in 0 .. sent[p]
<1>1. dropped[p] \in Nat /\ sent[p] \in Nat /\ sent[p] <= MaxFrames[p] /\ MaxFrames[p] \in Nat
  BY DEF StoreType, SessionAssumption
<1>2. Handled(p) \in Nat
  BY TwoPeers, LenProperties DEF Handled, ReceivedType
<1>3. dropped[p] <= Handled(p) /\ Handled(p) <= sent[p]
  BY DEF StoreOrder, StoreAgrees
<1>. QED
  BY <1>1, <1>2, <1>3

\* While RESUME is on its way the client has left the connection in use.
LEMMA NotInUse ==
  ASSUME NetType, MuxType, Succession, FrameOrder, NEW c \in Conns, c # InUse, pipe[c][Server] # <<>>
  PROVE  /\ InUse < c /\ conn[InUse][Client] = "done" /\ c \in awaiting
         /\ pipe[c][Server] = <<ResumeFrame>>
<1>1. InUse \in Conns /\ c \in Int /\ InUse \in Int
  BY TwoPeers DEF InUse, MuxType, Conns
<1>2. conn[c][Server] = "open"
  BY TwoPeers DEF FrameOrder
<1>3. InUse < c
  BY <1>1, <1>2 DEF Succession
<1>4. conn[c][Client] # "none"
  BY <1>2 DEF Succession
<1>5. conn[InUse][Client] = "done"
  BY <1>1, <1>3, <1>4 DEF Succession
<1>. QED
  BY <1>3, <1>5 DEF FrameOrder

\* Only RESUME is received anywhere else than on the connection in use.
LEMMA ReceivedInUse ==
  ASSUME PipeInv, NetType, MuxType, Succession, FrameOrder, NEW c \in Conns, NEW p \in Peers,
         pipe[c][p] # <<>>
  PROVE  /\ Head(pipe[c][p]).type # "ERROR"
         /\ Head(pipe[c][p]).type = "RESUME" => c # InUse /\ p = Server
         /\ Head(pipe[c][p]).type \in {"STREAM", "KEEPALIVE", "RESUME_OK"} => c = InUse
         /\ Head(pipe[c][p]).type \in {"STREAM", "KEEPALIVE"} => InUse \notin awaiting \/ p = Client
         /\ Head(pipe[c][p]).type = "RESUME_OK" <=> c = InUse /\ p = Client /\ InUse \in awaiting
<1>1. CASE c = InUse
  <2>1. Head(pipe[c][p]) = pipe[InUse][p][1] /\ 1 \in 1 .. Len(pipe[InUse][p])
    BY <1>1, Shifted DEF PipeInv
  <2>2. /\ pipe[InUse][p][1].type \in {"STREAM", "KEEPALIVE", "RESUME_OK"}
        /\ pipe[InUse][p][1].type = "RESUME_OK" <=> p = Client /\ InUse \in awaiting
    BY <2>1 DEF FrameOrder
  <2>3. InUse \notin awaiting \/ p = Client
    BY <1>1, TwoPeers DEF FrameOrder
  <2>. QED
    BY <1>1, <2>1, <2>2, <2>3
<1>2. CASE c # InUse
  <2>1. p = Server
    BY <1>2, TwoPeers DEF FrameOrder
  <2>2. pipe[c][p] = <<ResumeFrame>>
    BY <1>2, <2>1, NotInUse
  <2>3. Head(pipe[c][p]).type = "RESUME"
    BY <2>2 DEF ResumeFrame
  <2>. QED
    BY <1>2, <2>1, <2>3
<1>. QED
  BY <1>1, <1>2

\* Who takes a frame of a stream, or a keepalive, sends on the connection in use.
LEMMA HandlerInUse ==
  ASSUME PipeInv, NetType, MuxType, Succession, FrameOrder, NEW c \in Conns, NEW p \in Peers,
         Delegates(c, p), conn[c][p] = "open", pipe[c][p] # <<>>,
         Head(pipe[c][p]).type \in {"STREAM", "KEEPALIVE"}
  PROVE  c = InUse /\ InUse \notin awaiting /\ outbound[p] = InUse
<1>1. c = InUse
  BY ReceivedInUse
<1>2. InUse \notin awaiting
  BY <1>1, ReceivedInUse DEF Delegates
<1>3. outbound[p] = InUse
  BY <1>2, TwoPeers DEF Succession, InUse
<1>. QED
  BY <1>1, <1>2, <1>3

\* The pipes after p took a frame of the connection in use and sent others.
LEMMA TrafficPipes ==
  ASSUME PipeInv, NetType, MuxType, Succession, NEW p \in Peers, NEW takes \in BOOLEAN,
         NEW frames \in Seq(FramesTo(Other(p))),
         takes => outbound[p] = InUse /\ pipe[InUse][p] # <<>>,
         Transfer(outbound[p], p, takes, outbound[p], frames)
  PROVE  /\ \A x \in Conns, y \in Peers : x # InUse => pipe'[x][y] = pipe[x][y]
         /\ pipe'[InUse][p] = IF takes THEN Tail(pipe[InUse][p]) ELSE pipe[InUse][p]
         /\ pipe'[InUse][Other(p)] = IF Live(p) THEN pipe[InUse][Other(p)] \o frames
                                     ELSE pipe[InUse][Other(p)]
<1>. DEFINE d == outbound[p]
<1>1. d \in Conns /\ InUse \in Conns /\ \A c \in Conns : c \in Int
  BY TwoPeers DEF InUse, MuxType, Conns
<1>2. takes => pipe[d][p] # <<>>
  OBVIOUS
<1>3. /\ \A x \in Conns, y \in Peers :
            ~(x = d /\ y = p) /\ ~(x = d /\ y = Other(p)) => pipe'[x][y] = pipe[x][y]
      /\ pipe'[d][p] = IF takes THEN Tail(pipe[d][p]) ELSE pipe[d][p]
      /\ pipe'[d][Other(p)] = IF conn[d][p] = "open" /\ conn[d][Other(p)] = "open"
                              THEN pipe[d][Other(p)] \o frames ELSE pipe[d][Other(p)]
  <2>. HIDE DEF d
  <2>. QED
    BY <1>1, <1>2, TransferPipes DEF d
<1>4. CASE d = InUse
  <2>1. Live(p) <=> conn[d][p] = "open" /\ conn[d][Other(p)] = "open"
    BY <1>4, TwoPeers DEF Live
  <2>. QED
    BY <1>3, <1>4, <2>1, TwoPeers
<1>5. CASE d # InUse
  <2>1. p = Client /\ d < InUse
    BY <1>1, <1>5, TwoPeers DEF Succession, InUse
  <2>2. conn[d][Server] = "done"
    BY <1>1, <2>1 DEF Succession
  <2>3. ~takes /\ ~Live(p) /\ Other(p) = Server
    BY <1>5, <2>1, TwoPeers DEF Live
  <2>. QED
    BY <1>1, <1>3, <1>5, <2>2, <2>3, TwoPeers
<1>. QED
  BY <1>4, <1>5


\* Frames of streams and keepalives, sent and taken, keep the order.
LEMMA TrafficOrder ==
  ASSUME PipeInv, NetType, MuxType, Succession, FrameOrder, NEW p \in Peers, NEW takes \in BOOLEAN,
         NEW frames \in Seq(FramesTo(Other(p))),
         \A i \in 1 .. Len(frames) : frames[i].type \in {"STREAM", "KEEPALIVE"},
         takes => outbound[p] = InUse /\ InUse \notin awaiting /\ pipe[InUse][p] # <<>>,
         Transfer(outbound[p], p, takes, outbound[p], frames),
         UNCHANGED <<conn, awaiting, outbound>>,
         ResumeFrame' = ResumeFrame \/ conn[InUse][Client] = "open",
         lastReceived'[Server] = lastReceived[Server] \/ InUse \notin awaiting
  PROVE  FrameOrder'
<1>. DEFINE q == Other(p)
<1>1. /\ \A x \in Conns, y \in Peers : x # InUse => pipe'[x][y] = pipe[x][y]
      /\ pipe'[InUse][p] = IF takes THEN Tail(pipe[InUse][p]) ELSE pipe[InUse][p]
      /\ pipe'[InUse][q] = IF Live(p) THEN pipe[InUse][q] \o frames ELSE pipe[InUse][q]
  BY TrafficPipes
<1>2. InUse' = InUse /\ InUse \in Conns
  BY TwoPeers DEF InUse, MuxType
<1>3. p \in Peers /\ q \in Peers /\ Peers = {p, q} /\ q # p
  BY TwoPeers
<1>4. pipe[InUse][p] \in Seq(FramesTo(p)) /\ pipe[InUse][q] \in Seq(FramesTo(q))
  BY <1>2, <1>3 DEF PipeInv
<1>. HIDE DEF q
<1>5. ASSUME NEW c \in Conns, NEW y \in Peers, conn[c][y] # "open" PROVE pipe'[c][y] = <<>>
  <2>1. pipe[c][y] = <<>>
    BY <1>5 DEF FrameOrder
  <2>2. CASE c # InUse
    BY <1>1, <2>1, <2>2
  <2>3. CASE c = InUse /\ y = p
    BY <1>1, <2>1, <2>3
  <2>4. CASE c = InUse /\ y = q
    <3>1. ~Live(p)
      BY <1>5, <2>4, TwoPeers DEF Live
    <3>. QED
      BY <1>1, <2>1, <2>4, <3>1
  <2>. QED
    BY <1>3, <2>2, <2>3, <2>4
<1>6. \A c \in Conns : c # InUse => pipe'[c][Client] = <<>>
  BY <1>1, TwoPeers DEF FrameOrder
<1>7. ASSUME NEW c \in Conns, c # InUse, pipe'[c][Server] # <<>>
      PROVE  c \in awaiting /\ pipe'[c][Server] = <<ResumeFrame'>>
  <2>1. pipe'[c][Server] = pipe[c][Server]
    BY <1>1, <1>7, TwoPeers
  <2>2. conn[InUse][Client] # "open" /\ c \in awaiting /\ pipe[c][Server] = <<ResumeFrame>>
    BY <1>7, <2>1, NotInUse
  <2>. QED
    BY <2>1, <2>2
<1>8. InUse \in awaiting => pipe'[InUse][Server] = <<>>
  <2>1. SUFFICES ASSUME InUse \in awaiting PROVE pipe'[InUse][Server] = <<>>
    OBVIOUS
  <2>2. ~takes /\ pipe[InUse][Server] = <<>>
    BY <2>1 DEF FrameOrder
  <2>3. p = Client => ~Live(p)
    BY <2>1 DEF Live, Succession
  <2>. QED
    BY <1>1, <1>3, <2>2, <2>3, TwoPeers DEF q
<1>9. InUse \in awaiting /\ conn[InUse][Client] = "open" => pipe'[InUse][Client] # <<>>
  <2>1. SUFFICES ASSUME InUse \in awaiting, conn[InUse][Client] = "open"
                 PROVE  pipe'[InUse][Client] # <<>>
    OBVIOUS
  <2>2. ~takes /\ pipe[InUse][Client] # <<>>
    BY <2>1 DEF FrameOrder
  <2>3. pipe[InUse][q] \o frames = <<>> => pipe[InUse][q] = <<>>
    BY <1>4, ConcatEqualIffEmpty DEF q
  <2>. QED
    BY <1>1, <1>3, <2>2, <2>3, TwoPeers
<1>10. ASSUME NEW y \in Peers, NEW i \in 1 .. Len(pipe'[InUse][y])
       PROVE  /\ pipe'[InUse][y][i].type \in {"STREAM", "KEEPALIVE", "RESUME_OK"}
              /\ pipe'[InUse][y][i].type = "RESUME_OK" <=> y = Client /\ i = 1 /\ InUse \in awaiting
              /\ pipe'[InUse][y][i].type = "RESUME_OK" =>
                   pipe'[InUse][y][i].clientPosition = lastReceived'[Server]
  <2>0. i \in Nat
    OBVIOUS
  <2>1. CASE \E j \in 1 .. Len(pipe[InUse][y]) :
               pipe'[InUse][y][i] = pipe[InUse][y][j] /\ (i = j \/ InUse \notin awaiting)
    BY <2>1 DEF FrameOrder
  <2>2. CASE takes /\ y = p
    <3>0. pipe'[InUse][y] = Tail(pipe[InUse][y]) /\ pipe[InUse][y] # <<>>
      BY <1>1, <2>2
    <3>1. i + 1 \in 1 .. Len(pipe[InUse][y]) /\ pipe'[InUse][y][i] = pipe[InUse][y][i + 1]
      <4>. PICK t : t = pipe'[InUse][y]
        OBVIOUS
      <4>1. i \in 1 .. Len(t) /\ t = Tail(pipe[InUse][y])
        BY <1>10, <3>0
      <4>. QED
        BY <1>4, <2>2, <3>0, <4>1, Shifted
    <3>. QED
      BY <2>1, <2>2, <3>1
  <2>3. CASE pipe'[InUse][y] = pipe[InUse][y]
    BY <1>10, <2>1, <2>3
  <2>4. CASE y = q /\ Live(p)
    <3>. PICK s : s = pipe[InUse][q]
      OBVIOUS
    <3>1. pipe'[InUse][y] = s \o frames /\ s \in Seq(FramesTo(q)) /\ frames \in Seq(FramesTo(q))
      BY <1>1, <1>4, <2>4 DEF q
    <3>2. /\ Len(s) \in Nat /\ Len(frames) \in Nat
          /\ \A k \in 1 .. Len(s) + Len(frames) :
               (s \o frames)[k] = IF k <= Len(s) THEN s[k] ELSE frames[k - Len(s)]
          /\ Len(s \o frames) = Len(s) + Len(frames)
      BY <3>1, ConcatProperties, LenProperties
    <3>3. CASE i <= Len(s)
      BY <1>10, <2>0, <2>1, <2>4, <3>1, <3>2, <3>3
    <3>4. CASE ~(i <= Len(s))
      <4>1. i - Len(s) \in 1 .. Len(frames) /\ pipe'[InUse][y][i] = frames[i - Len(s)]
        <5>. PICK t : t = pipe'[InUse][y]
          OBVIOUS
        <5>1. i \in 1 .. Len(s) + Len(frames) /\ t[i] = frames[i - Len(s)]
          BY <1>10, <3>1, <3>2, <3>4
        <5>2. i - Len(s) \in 1 .. Len(frames)
          BY <3>2, <3>4, <5>1
        <5>. QED
          BY <5>1, <5>2
      <4>2. pipe'[InUse][y][i].type \in {"STREAM", "KEEPALIVE"}
        BY <4>1
      <4>3. ~(y = Client /\ i = 1 /\ InUse \in awaiting)
        <5>1. SUFFICES ASSUME y = Client, i = 1, InUse \in awaiting PROVE FALSE
          OBVIOUS
        <5>2. conn[InUse][Client] = "open"
          BY <2>4 DEF Live
        <5>3. s # <<>>
          BY <2>4, <5>1, <5>2 DEF FrameOrder
        <5>4. Len(s) \in Nat \ {0}
          BY <3>1, <5>3, EmptySeq
        <5>. QED
          BY <3>4, <5>1, <5>4
      <4>. QED
        BY <4>2, <4>3
    <3>. QED
      BY <3>3, <3>4
  <2>5. (takes /\ y = p) \/ pipe'[InUse][y] = pipe[InUse][y] \/ (y = q /\ Live(p))
    BY <1>1, <1>3
  <2>. QED
    BY <2>2, <2>3, <2>4, <2>5
<1>. QED
  BY <1>2, <1>5, <1>6, <1>7, <1>8, <1>9, <1>10 DEF FrameOrder


\* The connections and the session timer are those of the step before.
LEMMA SameConnections ==
  ASSUME Succession, TimerInv, UNCHANGED <<conn, awaiting, outbound, watched, inStore, timers, timeoutId>>
  PROVE  Succession' /\ TimerInv'
BY DEF Succession, TimerInv, InUse, TimerOnlyWhileDisconnected

LEMMA SameSession ==
  ASSUME OrderInv, UNCHANGED <<conn, pipe, awaiting, outbound, watched, inStore, timers, timeoutId>>,
         UNCHANGED <<sent, dropped, firstAvailable, lastReceived, delivered, inconsistent>>
  PROVE  OrderInv'
<1>1. Succession' /\ TimerInv'
  BY SameConnections DEF OrderInv
<1>2. InUse' = InUse /\ ResumeFrame' = ResumeFrame
  BY DEF InUse, ResumeFrame
<1>3. FrameOrder'
  BY <1>2 DEF OrderInv, FrameOrder
<1>4. StoreOrder'
  BY <1>2 DEF OrderInv, StoreOrder, StoreAgrees, FramesFollow, PositionsFollow, Handled, Live
<1>. QED
  BY <1>1, <1>3, <1>4 DEF OrderInv

LEMMA PipeOf ==
  ASSUME PipeInv, MuxType, NEW p \in Peers
  PROVE  InUse \in Conns /\ pipe[InUse][p] \in Seq(FramesTo(p))
BY TwoPeers DEF PipeInv, MuxType, InUse

\* What an appended frame does to the two directions it is about.
LEMMA AppendedFrame ==
  ASSUME SessionAssumption, PipeInv, MuxType, StoreType, ReceivedType, StoreOrder,
         NEW p \in Peers, NEW f \in FramesTo(Other(p)), ~IsStream(f),
         IsPosition(f) => PositionOf(f) = lastReceived[p]
  PROVE  /\ InSequence(pipe[InUse][Other(p)] \o <<f>>, Handled(p), sent[p])
         /\ Live(p) => Complete(pipe[InUse][Other(p)] \o <<f>>, Handled(p), sent[p])
         /\ Acknowledges(pipe[InUse][Other(p)] \o <<f>>, FramePos[Other(p)],
                         dropped[Other(p)], Handled(Other(p)))
<1>. DEFINE q == Other(p)
<1>1. q \in Peers /\ Other(q) = p
  BY TwoPeers
<1>2. pipe[InUse][q] \in Seq(FramesTo(q)) /\ f \in FramesTo(q)
  BY <1>1, PipeOf
<1>3. StoreAgrees(q) /\ FramesFollow(p) /\ PositionsFollow(q)
  BY <1>1 DEF StoreOrder
<1>4. InSequence(pipe[InUse][q] \o <<f>>, Handled(p), sent[p])
  BY <1>1, <1>2, <1>3, SendOther DEF FramesFollow
<1>5. Live(p) => Complete(pipe[InUse][q] \o <<f>>, Handled(p), sent[p])
  BY <1>1, <1>2, <1>3, SendOther DEF FramesFollow
<1>6. IsPosition(f) => PositionOf(f) = FramePos[q][Handled(q)]
  BY <1>1, <1>3 DEF StoreAgrees
<1>7. /\ dropped[q] \in 0 .. MaxFrames[q] /\ Handled(q) \in 0 .. MaxFrames[q]
      /\ dropped[q] <= Handled(q)
  BY <1>1, HandledNat
<1>8. Acknowledges(pipe[InUse][q] \o <<f>>, FramePos[q], dropped[q], Handled(q))
  <2>. HIDE DEF q
  <2>. QED
    BY <1>1, <1>2, <1>3, <1>6, <1>7, SendPosition DEF PositionsFollow
<1>. QED
  BY <1>4, <1>5, <1>8

LEMMA SendKeepAliveOrder ==
  ASSUME SessionAssumption, PipeInv, NetType, MuxType, StoreType, ReceivedType, OrderInv,
         NEW p \in Peers, SendKeepAlive(p)
  PROVE  OrderInv'
<1>. DEFINE f == KeepAliveFrame(p, TRUE)
            q == Other(p)
<1>1. Transfer(outbound[p], p, FALSE, outbound[p], <<f>>)
  BY DEF SendKeepAlive, Send
<1>2. /\ f.type = "KEEPALIVE" /\ f.lastReceivedPosition = lastReceived[p]
      /\ ~IsStream(f) /\ PositionOf(f) = lastReceived[p]
  BY DEF KeepAliveFrame, IsStream, PositionOf
<1>3. f \in FramesTo(q)
  BY FramesSent, TwoPeers DEF KeepAliveFrame, ReceivedType
<1>4. /\ UNCHANGED <<conn, awaiting, outbound, watched, inStore, timers, timeoutId>>
      /\ UNCHANGED <<sent, dropped, firstAvailable, lastReceived, delivered, inconsistent>>
  BY DEF SendKeepAlive, storeVars, clientVars, serverVars
<1>. HIDE DEF f
<1>5. <<f>> \in Seq(FramesTo(q)) /\ \A i \in 1 .. Len(<<f>>) : <<f>>[i].type \in {"STREAM", "KEEPALIVE"}
  BY <1>2, <1>3
<1>6. Succession' /\ TimerInv'
  BY <1>4, SameConnections DEF OrderInv
<1>7. ResumeFrame' = ResumeFrame /\ InUse' = InUse
  BY <1>4 DEF ResumeFrame, InUse
<1>8. FrameOrder'
  BY <1>1, <1>4, <1>5, <1>7, TrafficOrder DEF OrderInv
<1>9. pipe'[InUse][p] = pipe[InUse][p] /\
      pipe'[InUse][q] = IF Live(p) THEN pipe[InUse][q] \o <<f>> ELSE pipe[InUse][q]
  BY <1>1, <1>5, TrafficPipes DEF OrderInv
<1>10. q \in Peers /\ Other(q) = p /\ Peers = {p, q}
  BY TwoPeers
<1>11. /\ InSequence(pipe[InUse][q] \o <<f>>, Handled(p), sent[p])
       /\ Live(p) => Complete(pipe[InUse][q] \o <<f>>, Handled(p), sent[p])
       /\ Acknowledges(pipe[InUse][q] \o <<f>>, FramePos[q], dropped[q], Handled(q))
  BY <1>2, <1>3, AppendedFrame DEF OrderInv
<1>12. \A r \in Peers : Handled(r)' = Handled(r) /\ Live(r)' = Live(r)
  BY <1>4, <1>7 DEF Handled, Live
<1>13. \A r \in Peers : StoreAgrees(r) /\ FramesFollow(r) /\ PositionsFollow(r)
  BY DEF OrderInv, StoreOrder
<1>14. \A r \in Peers : StoreAgrees(r)'
  BY <1>4, <1>12, <1>13 DEF StoreAgrees
<1>15. FramesFollow(p)' /\ FramesFollow(q)'
  BY <1>4, <1>7, <1>9, <1>10, <1>11, <1>12, <1>13 DEF FramesFollow
<1>16. PositionsFollow(p)' /\ PositionsFollow(q)'
  BY <1>4, <1>7, <1>9, <1>10, <1>11, <1>12, <1>13 DEF PositionsFollow
<1>. QED
  BY <1>6, <1>8, <1>10, <1>14, <1>15, <1>16 DEF OrderInv, StoreOrder

LEMMA SendStreamFrameOrder ==
  ASSUME SessionAssumption, PipeInv, NetType, MuxType, StoreType, ReceivedType, OrderInv,
         NEW p \in Peers, SendStreamFrame(p)
  PROVE  OrderInv'
<1>. DEFINE f == StreamFrame(sent[p] + 1)
            q == Other(p)
<1>1. Transfer(outbound[p], p, FALSE, outbound[p], <<f>>)
  BY DEF SendStreamFrame, Send
<1>2. f.type = "STREAM" /\ f.n = sent[p] + 1 /\ IsStream(f) /\ ~IsPosition(f)
  BY DEF StreamFrame, IsStream, IsPosition
<1>3. f \in FramesTo(q)
  <2>1. sent[p] + 1 \in 1 .. MaxFrames[p]
    BY DEF SendStreamFrame, StoreType, SessionAssumption
  <2>. QED
    BY <2>1, FramesSent, TwoPeers
<1>4. /\ UNCHANGED <<conn, awaiting, outbound, watched, inStore, timers, timeoutId>>
      /\ UNCHANGED <<dropped, firstAvailable, lastReceived, delivered, inconsistent>>
      /\ sent' = [sent EXCEPT ![p] = sent[p] + 1]
  BY DEF SendStreamFrame, clientVars, serverVars
<1>. HIDE DEF f
<1>5. <<f>> \in Seq(FramesTo(q)) /\ \A i \in 1 .. Len(<<f>>) : <<f>>[i].type \in {"STREAM", "KEEPALIVE"}
  BY <1>2, <1>3
<1>6. Succession' /\ TimerInv'
  BY <1>4, SameConnections DEF OrderInv
<1>7. ResumeFrame' = ResumeFrame /\ InUse' = InUse
  BY <1>4 DEF ResumeFrame, InUse
<1>8. FrameOrder'
  BY <1>1, <1>4, <1>5, <1>7, TrafficOrder DEF OrderInv
<1>9. pipe'[InUse][p] = pipe[InUse][p] /\
      pipe'[InUse][q] = IF Live(p) THEN pipe[InUse][q] \o <<f>> ELSE pipe[InUse][q]
  BY <1>1, <1>5, TrafficPipes DEF OrderInv
<1>10. q \in Peers /\ Other(q) = p /\ Peers = {p, q} /\ p # q
  BY TwoPeers
<1>11. /\ Handled(p) \in Nat /\ sent[p] \in Nat /\ Handled(p) <= sent[p]
       /\ dropped[q] \in 0 .. MaxFrames[q] /\ Handled(q) \in 0 .. MaxFrames[q]
       /\ dropped[q] <= Handled(q)
  <2>. HIDE DEF q
  <2>. QED
    BY <1>10, HandledNat DEF OrderInv
<1>12. \A r \in Peers : Handled(r)' = Handled(r) /\ Live(r)' = Live(r)
  BY <1>4, <1>7 DEF Handled, Live
<1>13. \A r \in Peers : StoreAgrees(r) /\ FramesFollow(r) /\ PositionsFollow(r)
  BY DEF OrderInv, StoreOrder
<1>14. sent'[p] = sent[p] + 1 /\ sent'[q] = sent[q]
  BY <1>4, <1>10 DEF StoreType
<1>15. ASSUME NEW r \in Peers PROVE StoreAgrees(r)'
  <2>1. sent[r] \in Nat /\ Handled(r) \in Nat
    BY HandledNat DEF OrderInv
  <2>2. sent'[r] = sent[r] \/ sent'[r] = sent[r] + 1
    BY <1>4 DEF StoreType
  <2>. QED
    BY <1>4, <1>12, <1>13, <2>1, <2>2 DEF StoreAgrees
<1>16. pipe[InUse][q] \in Seq(FramesTo(q))
  BY <1>10, PipeOf
<1>17. FramesFollow(p)'
  <2>1. CASE Live(p)
    <3>1. /\ InSequence(pipe[InUse][q] \o <<f>>, Handled(p), sent[p] + 1)
          /\ Complete(pipe[InUse][q] \o <<f>>, Handled(p), sent[p] + 1)
      <4>. HIDE DEF q
      <4>1. InSequence(pipe[InUse][q], Handled(p), sent[p]) /\ Complete(pipe[InUse][q], Handled(p), sent[p])
        BY <1>13, <2>1 DEF FramesFollow, q
      <4>. QED
        BY <1>2, <1>3, <1>10, <1>11, <1>16, <4>1, SendInSequence
    <3>. QED
      BY <1>7, <1>9, <1>12, <1>14, <2>1, <3>1 DEF FramesFollow
  <2>2. CASE ~Live(p)
    <3>1. InSequence(pipe[InUse][q], Handled(p), sent[p] + 1)
      BY <1>10, <1>11, <1>13, <1>16, MoreSent DEF FramesFollow
    <3>. QED
      BY <1>7, <1>9, <1>12, <1>14, <2>2, <3>1 DEF FramesFollow
  <2>. QED
    BY <2>1, <2>2
<1>18. FramesFollow(q)'
  BY <1>7, <1>9, <1>10, <1>12, <1>13, <1>14 DEF FramesFollow
<1>19. Acknowledges(pipe[InUse][q] \o <<f>>, FramePos[q], dropped[q], Handled(q))
  <2>1. Acknowledges(pipe[InUse][q], FramePos[q], dropped[q], Handled(q))
    BY <1>10, <1>13 DEF PositionsFollow
  <2>. HIDE DEF q
  <2>. QED
    BY <1>2, <1>3, <1>10, <1>11, <1>16, <2>1, SendPosition
<1>20. PositionsFollow(p)' /\ PositionsFollow(q)'
  BY <1>4, <1>7, <1>9, <1>10, <1>12, <1>13, <1>19 DEF PositionsFollow
<1>. QED
  BY <1>6, <1>8, <1>10, <1>15, <1>17, <1>18, <1>20 DEF OrderInv, StoreOrder


LEMMA HandleStreamFrameOrder ==
  ASSUME SessionAssumption, PipeInv, NetType, MuxType, StoreType, ReceivedType, OrderInv,
         NEW c \in Conns, NEW p \in Peers, HandleStreamFrame(c, p)
  PROVE  OrderInv' /\ Head(pipe[c][p]).n = Len(delivered[p]) + 1 /\ Len(delivered[p]) < sent[Other(p)]
<1>. DEFINE f == Head(pipe[c][p])
            q == Other(p)
<1>1. /\ pipe[c][p] # <<>> /\ f.type = "STREAM" /\ conn[c][p] = "open" /\ Delegates(c, p)
      /\ lastReceived' = [lastReceived EXCEPT ![p] = @ + Size(q, f.n - 1, f.n)]
      /\ delivered' = [delivered EXCEPT ![p] = Append(@, f.n)]
      /\ Transfer(c, p, TRUE, outbound[p], <<>>)
      /\ UNCHANGED <<conn, awaiting, outbound, watched, inStore, timers, timeoutId>>
      /\ UNCHANGED <<sent, dropped, firstAvailable, inconsistent>>
  BY DEF HandleStreamFrame, Received, clientVars, serverVars
<1>2. c = InUse /\ InUse \notin awaiting /\ outbound[p] = InUse
  BY <1>1, HandlerInUse DEF OrderInv
<1>3. q \in Peers /\ Other(q) = p /\ Peers = {p, q} /\ p # q
  BY TwoPeers
<1>4. pipe[InUse][p] \in Seq(FramesTo(p)) /\ pipe[InUse][q] \in Seq(FramesTo(q)) /\ <<>> \in Seq(FramesTo(q))
  BY <1>3, PipeOf, EmptySeq
<1>5. \A r \in Peers : StoreAgrees(r) /\ FramesFollow(r) /\ PositionsFollow(r)
  BY DEF OrderInv, StoreOrder
<1>6. /\ Handled(q) \in Nat /\ sent[q] \in Nat /\ dropped[q] \in Nat /\ sent[q] <= MaxFrames[q]
      /\ dropped[q] <= Handled(q)
  BY <1>3, HandledNat DEF OrderInv
<1>7. IsStream(f)
  BY <1>1 DEF IsStream
<1>8. InSequence(pipe[InUse][p], Handled(q), sent[q])
  BY <1>3, <1>5 DEF FramesFollow
<1>9. /\ f.n = Handled(q) + 1 /\ Handled(q) + 1 <= sent[q]
      /\ InSequence(Tail(pipe[InUse][p]), Handled(q) + 1, sent[q])
      /\ Complete(pipe[InUse][p], Handled(q), sent[q]) =>
           Complete(Tail(pipe[InUse][p]), Handled(q) + 1, sent[q])
  BY <1>1, <1>2, <1>4, <1>6, <1>7, <1>8, TakeStream
<1>10. Handled(q) = Len(delivered[p])
  BY <1>3 DEF Handled
<1>. HIDE DEF f
<1>11. Succession' /\ TimerInv'
  BY <1>1, SameConnections DEF OrderInv
<1>12. InUse' = InUse
  BY <1>1 DEF InUse
<1>13. FrameOrder'
  <2>1. lastReceived'[Server] = lastReceived[Server] \/ InUse \notin awaiting
    BY <1>2
  <2>2. ResumeFrame' = ResumeFrame \/ conn[InUse][Client] = "open"
    <3>1. CASE p = Client
      BY <1>1, <1>2, <3>1
    <3>2. CASE p # Client
      <4>1. lastReceived'[Client] = lastReceived[Client]
        BY <1>1, <3>2, TwoPeers DEF ReceivedType
      <4>. QED
        BY <1>1, <4>1 DEF ResumeFrame
    <3>. QED
      BY <3>1, <3>2
  <2>. PICK none : none = <<>>
    OBVIOUS
  <2>3. none \in Seq(FramesTo(q)) /\ \A i \in 1 .. Len(none) : none[i].type \in {"STREAM", "KEEPALIVE"}
    BY <1>4
  <2>4. Transfer(outbound[p], p, TRUE, outbound[p], none) /\ pipe[InUse][p] # <<>>
    BY <1>1, <1>2
  <2>. QED
    BY <1>1, <1>2, <2>1, <2>2, <2>3, <2>4, TrafficOrder DEF OrderInv
<1>14. pipe'[InUse][p] = Tail(pipe[InUse][p]) /\ pipe'[InUse][q] = pipe[InUse][q]
  <2>1. pipe[InUse][q] \o <<>> = pipe[InUse][q]
    BY <1>4, ConcatEmptySeq
  <2>. PICK none : none = <<>>
    OBVIOUS
  <2>2. Transfer(outbound[p], p, TRUE, outbound[p], none) /\ pipe[InUse][p] # <<>>
    BY <1>1, <1>2
  <2>3. none \in Seq(FramesTo(q))
    BY <1>4
  <2>. HIDE DEF q
  <2>4. /\ pipe'[InUse][p] = Tail(pipe[InUse][p])
        /\ pipe'[InUse][q] = IF Live(p) THEN pipe[InUse][q] \o none ELSE pipe[InUse][q]
    BY <1>2, <2>2, <2>3, TrafficPipes DEF OrderInv, q
  <2>. QED
    BY <2>1, <2>4
<1>15. /\ delivered'[p] = Append(delivered[p], f.n) /\ delivered'[q] = delivered[q]
       /\ lastReceived'[p] = lastReceived[p] + Size(q, f.n - 1, f.n) /\ lastReceived'[q] = lastReceived[q]
  BY <1>1, <1>3 DEF ReceivedType
<1>16. Handled(p)' = Handled(p) /\ Handled(q)' = Handled(q) + 1
  <2>1. delivered[p] \in Seq(FrameNumbers)
    BY DEF ReceivedType
  <2>2. Len(Append(delivered[p], f.n)) = Len(delivered[p]) + 1
    BY <2>1
  <2>. QED
    BY <1>3, <1>10, <1>15, <2>2 DEF Handled
<1>17. \A r \in Peers : Live(r)' = Live(r)
  BY <1>1, <1>12 DEF Live
<1>18. StoreAgrees(p)'
  BY <1>1, <1>3, <1>5, <1>15, <1>16 DEF StoreAgrees
<1>19. StoreAgrees(q)'
  <2>1. lastReceived'[p] = FramePos[q][Handled(q) + 1]
    <3>1. lastReceived[p] = FramePos[q][Handled(q)]
      BY <1>3, <1>5 DEF StoreAgrees
    <3>2. f.n - 1 = Handled(q)
      BY <1>6, <1>9
    <3>3. FramePos[q][Handled(q)] \in Nat /\ FramePos[q][Handled(q) + 1] \in Nat
      <4>1. Handled(q) \in 0 .. MaxFrames[q] /\ Handled(q) + 1 \in 0 .. MaxFrames[q]
        BY <1>3, <1>6, <1>9 DEF SessionAssumption
      <4>. QED
        BY <1>3, <4>1 DEF SessionAssumption
    <3>. QED
      BY <1>9, <1>15, <3>1, <3>2, <3>3 DEF Size
  <2>2. dropped[q] <= Handled(q) + 1 /\ Handled(q) + 1 <= sent[q]
    BY <1>6, <1>9
  <2>3. ASSUME NEW i \in 1 .. Handled(q) + 1 PROVE delivered'[p][i] = i
    <3>1. delivered[p] \in Seq(FrameNumbers)
      BY DEF ReceivedType
    <3>2. CASE i \in 1 .. Handled(q)
      BY <1>3, <1>5, <1>10, <1>15, <3>1, <3>2 DEF StoreAgrees
    <3>3. CASE i = Handled(q) + 1
      BY <1>9, <1>10, <1>15, <3>1, <3>3
    <3>. QED
      BY <1>6, <3>2, <3>3
  <2>. QED
    BY <1>1, <1>3, <1>5, <1>16, <2>1, <2>2, <2>3 DEF StoreAgrees
<1>20. FramesFollow(p)' /\ FramesFollow(q)'
  BY <1>1, <1>3, <1>5, <1>9, <1>12, <1>14, <1>16, <1>17 DEF FramesFollow
<1>21. PositionsFollow(p)'
  <2>1. Acknowledges(Tail(pipe[InUse][p]), FramePos[p], dropped[p], Handled(p))
    BY <1>1, <1>2, <1>4, <1>5, TakeNoPosition DEF PositionsFollow
  <2>. QED
    BY <1>1, <1>12, <1>14, <1>16, <2>1 DEF PositionsFollow
<1>22. PositionsFollow(q)'
  <2>1. Acknowledges(pipe[InUse][q], FramePos[q], dropped[q], Handled(q) + 1)
    BY <1>3, <1>5, <1>6, MoreHandled DEF PositionsFollow
  <2>. QED
    BY <1>1, <1>12, <1>14, <1>16, <2>1 DEF PositionsFollow
<1>23. OrderInv'
  BY <1>3, <1>11, <1>13, <1>18, <1>19, <1>20, <1>21, <1>22 DEF OrderInv, StoreOrder
<1>24. Len(delivered[p]) < sent[q]
  BY <1>6, <1>9, <1>10
<1>. QED
  BY <1>9, <1>10, <1>23, <1>24 DEF f

\* The position of a keepalive, and what dropTo does with it.
LEMMA KeepAlivePosition ==
  ASSUME SessionAssumption, PipeInv, NetType, MuxType, StoreType, ReceivedType, OrderInv,
         NEW c \in Conns, NEW p \in Peers, Received(c, p, "KEEPALIVE"), Delegates(c, p)
  PROVE  \E k \in dropped[p] .. Handled(p) :
           /\ Head(pipe[c][p]).lastReceivedPosition = FramePos[p][k]
           /\ Acknowledges(Tail(pipe[c][p]), FramePos[p], k, Handled(p))
<1>1. c = InUse
  BY HandlerInUse DEF OrderInv, Received
<1>2. pipe[c][p] \in Seq(FramesTo(p)) /\ pipe[c][p] # <<>>
  BY <1>1, PipeOf DEF Received
<1>3. /\ IsPosition(Head(pipe[c][p]))
      /\ PositionOf(Head(pipe[c][p])) = Head(pipe[c][p]).lastReceivedPosition
  BY DEF Received, IsPosition, PositionOf
<1>4. Acknowledges(pipe[c][p], FramePos[p], dropped[p], Handled(p))
  BY <1>1 DEF OrderInv, StoreOrder, PositionsFollow
<1>5. dropped[p] \in 0 .. MaxFrames[p] /\ Handled(p) \in 0 .. MaxFrames[p]
  BY HandledNat DEF OrderInv
<1>. QED
  BY <1>2, <1>3, <1>4, <1>5, TakePosition

LEMMA HandleKeepAliveOrder ==
  ASSUME SessionAssumption, PipeInv, NetType, MuxType, StoreType, ReceivedType, OrderInv,
         NEW c \in Conns, NEW p \in Peers, HandleKeepAlive(c, p)
  PROVE  OrderInv'
<1>. DEFINE q == Other(p)
            frames == Answer(c, p)
            f == KeepAliveFrame(p, FALSE)
<1>1. /\ pipe[c][p] # <<>> /\ Head(pipe[c][p]).type = "KEEPALIVE" /\ conn[c][p] = "open"
      /\ Delegates(c, p) /\ Received(c, p, "KEEPALIVE")
      /\ Transfer(c, p, TRUE, outbound[p], frames)
      /\ UNCHANGED <<conn, awaiting, outbound, watched, inStore, timers, timeoutId>>
      /\ UNCHANGED <<sent, lastReceived, delivered>>
  BY DEF HandleKeepAlive, Received, clientVars, serverVars
<1>2. c = InUse /\ InUse \notin awaiting /\ outbound[p] = InUse
  BY <1>1, HandlerInUse DEF OrderInv
<1>3. q \in Peers /\ Other(q) = p /\ Peers = {p, q} /\ p # q
  BY TwoPeers
<1>4. pipe[InUse][p] \in Seq(FramesTo(p)) /\ pipe[InUse][q] \in Seq(FramesTo(q)) /\ <<>> \in Seq(FramesTo(q))
  BY <1>3, PipeOf, EmptySeq
<1>5. \A r \in Peers : StoreAgrees(r) /\ FramesFollow(r) /\ PositionsFollow(r)
  BY DEF OrderInv, StoreOrder
<1>6. PICK k \in dropped[p] .. Handled(p) :
           /\ Head(pipe[c][p]).lastReceivedPosition = FramePos[p][k]
           /\ Acknowledges(Tail(pipe[c][p]), FramePos[p], k, Handled(p))
  BY <1>1, KeepAlivePosition
<1>7. k \in dropped[p] .. sent[p] /\ k \in Nat /\ k <= Handled(p) /\ firstAvailable[p] = FramePos[p][dropped[p]]
  <2>1. dropped[p] \in Nat /\ Handled(p) \in Nat /\ sent[p] \in Nat /\ Handled(p) <= sent[p]
    BY HandledNat DEF OrderInv
  <2>. QED
    BY <1>5, <2>1 DEF StoreAgrees
<1>8. /\ dropped' = [dropped EXCEPT ![p] = k]
      /\ firstAvailable' = [firstAvailable EXCEPT ![p] = FramePos[p][k]]
      /\ inconsistent' = inconsistent
  <2>1. PICK to \in 0 .. MaxFrames[p] : DropTo(p, FramePos[p][k], to)
    BY <1>6 DEF HandleKeepAlive
  <2>. QED
    BY <1>7, <2>1, DropExact
<1>9. /\ dropped'[p] = k /\ dropped'[q] = dropped[q]
      /\ firstAvailable'[p] = FramePos[p][k] /\ firstAvailable'[q] = firstAvailable[q]
  BY <1>3, <1>8 DEF StoreType
<1>10. f.type = "KEEPALIVE" /\ ~IsStream(f) /\ PositionOf(f) = lastReceived[p]
  BY DEF KeepAliveFrame, IsStream, PositionOf
<1>11. f \in FramesTo(q)
  BY FramesSent, TwoPeers DEF KeepAliveFrame, ReceivedType
<1>12. frames = <<>> \/ frames = <<f>>
  BY DEF Answer
<1>. HIDE DEF f, frames
<1>13. frames \in Seq(FramesTo(q)) /\ \A i \in 1 .. Len(frames) : frames[i].type \in {"STREAM", "KEEPALIVE"}
  <2>1. <<f>> \in Seq(FramesTo(q)) /\ \A i \in 1 .. Len(<<f>>) : <<f>>[i].type \in {"STREAM", "KEEPALIVE"}
    BY <1>10, <1>11
  <2>2. \A i \in 1 .. Len(<<>>) : FALSE
    BY EmptySeq
  <2>. QED
    BY <1>4, <1>12, <2>1, <2>2
<1>14. Succession' /\ TimerInv'
  BY <1>1, SameConnections DEF OrderInv
<1>15. InUse' = InUse
  BY <1>1 DEF InUse
<1>16. FrameOrder'
  <2>1. lastReceived'[Server] = lastReceived[Server]
    BY <1>1
  <2>2. ResumeFrame' = ResumeFrame \/ conn[InUse][Client] = "open"
    <3>1. CASE p = Client
      BY <1>1, <1>2, <3>1
    <3>2. CASE p # Client
      <4>1. firstAvailable'[Client] = firstAvailable[Client]
        BY <1>3, <1>9, <3>2, TwoPeers
      <4>. QED
        BY <1>1, <4>1 DEF ResumeFrame
    <3>. QED
      BY <3>1, <3>2
  <2>. QED
    BY <1>1, <1>2, <1>13, <2>1, <2>2, TrafficOrder DEF OrderInv
<1>17. /\ pipe'[InUse][p] = Tail(pipe[InUse][p])
       /\ pipe'[InUse][q] = pipe[InUse][q] \/ pipe'[InUse][q] = pipe[InUse][q] \o <<f>>
       /\ pipe'[InUse][q] = pipe[InUse][q] \/ Live(p)
  <2>1. pipe[InUse][q] \o <<>> = pipe[InUse][q]
    BY <1>4, ConcatEmptySeq
  <2>2. Transfer(outbound[p], p, TRUE, outbound[p], frames) /\ pipe[InUse][p] # <<>>
    BY <1>1, <1>2
  <2>3. /\ pipe'[InUse][p] = Tail(pipe[InUse][p])
        /\ pipe'[InUse][q] = IF Live(p) THEN pipe[InUse][q] \o frames ELSE pipe[InUse][q]
    BY <1>2, <1>13, <2>2, TrafficPipes DEF OrderInv
  <2>. QED
    BY <1>12, <2>1, <2>3
<1>18. /\ InSequence(pipe[InUse][q] \o <<f>>, Handled(p), sent[p])
       /\ Live(p) => Complete(pipe[InUse][q] \o <<f>>, Handled(p), sent[p])
       /\ Acknowledges(pipe[InUse][q] \o <<f>>, FramePos[q], dropped[q], Handled(q))
  BY <1>10, <1>11, AppendedFrame DEF OrderInv
<1>19. \A r \in Peers : Handled(r)' = Handled(r) /\ Live(r)' = Live(r)
  BY <1>1, <1>15 DEF Handled, Live
<1>20. StoreAgrees(p)' /\ StoreAgrees(q)'
  BY <1>1, <1>3, <1>5, <1>7, <1>8, <1>9, <1>19 DEF StoreAgrees
<1>21. FramesFollow(p)'
  BY <1>1, <1>5, <1>15, <1>17, <1>18, <1>19 DEF FramesFollow
<1>22. FramesFollow(q)'
  <2>1. ~IsStream(Head(pipe[InUse][p]))
    BY <1>1, <1>2 DEF IsStream
  <2>2. /\ InSequence(Tail(pipe[InUse][p]), Handled(q), sent[q])
        /\ Live(q) => Complete(Tail(pipe[InUse][p]), Handled(q), sent[q])
    BY <1>1, <1>2, <1>3, <1>4, <1>5, <2>1, TakeOther DEF FramesFollow
  <2>. QED
    BY <1>1, <1>3, <1>15, <1>17, <1>19, <2>2 DEF FramesFollow
<1>23. PositionsFollow(p)'
  BY <1>2, <1>6, <1>9, <1>15, <1>17, <1>19 DEF PositionsFollow
<1>24. PositionsFollow(q)'
  BY <1>3, <1>5, <1>9, <1>15, <1>17, <1>18, <1>19 DEF PositionsFollow
<1>. QED
  BY <1>3, <1>14, <1>16, <1>20, <1>21, <1>22, <1>23, <1>24 DEF OrderInv, StoreOrder


\* A socket closes: its pipe is emptied, and nothing follows on it.
LEMMA CloseEndOrder ==
  ASSUME SessionAssumption, PipeInv, NetType, MuxType, StoreType, ReceivedType, OrderInv,
         NEW c \in Conns, NEW p \in Peers, CloseEnd(c, p)
  PROVE  OrderInv'
<1>1. /\ conn[c][p] = "open"
      /\ conn' = [conn EXCEPT ![c][p] = "done"]
      /\ pipe' = [pipe EXCEPT ![c][p] = <<>>]
      /\ timers' = IF p = Server /\ c \in watched[p] THEN timers \cup {c} ELSE timers
      /\ timeoutId' = IF p = Server /\ c \in watched[p] THEN c ELSE timeoutId
      /\ UNCHANGED <<awaiting, inStore, outbound, watched>>
      /\ UNCHANGED <<sent, dropped, firstAvailable, lastReceived, delivered, inconsistent>>
  BY DEF CloseEnd, HandleConnectionClose, storeVars
<1>2. \A d \in Conns, r \in Peers : conn'[d][r] = IF d = c /\ r = p THEN "done" ELSE conn[d][r]
  BY <1>1 DEF NetType
<1>3. \A d \in Conns, r \in Peers : pipe'[d][r] = IF d = c /\ r = p THEN <<>> ELSE pipe[d][r]
  BY <1>1 DEF PipeInv, PipeType
<1>4. InUse' = InUse /\ ResumeFrame' = ResumeFrame /\ InUse \in Conns
  BY <1>1, TwoPeers DEF InUse, ResumeFrame, MuxType
<1>5. Succession'
  <2>1. Succession
    BY DEF OrderInv
  <2>2. \A d \in Conns : conn'[d][Client] = "none" <=> conn'[d][Server] = "none"
    BY <1>1, <1>2, <2>1, TwoPeers DEF Succession
  <2>3. ASSUME NEW d \in Conns, NEW e \in Conns, d < e, conn'[d][Client] # "done"
        PROVE  conn'[e][Client] = "none"
    <3>1. conn[d][Client] # "done"
      BY <1>2, <2>3, TwoPeers
    <3>2. conn[e][Client] = "none" /\ conn[e][Server] = "none"
      BY <2>1, <2>3, <3>1 DEF Succession
    <3>3. ~(e = c)
      BY <1>1, <3>2, TwoPeers
    <3>. QED
      BY <1>2, <3>2, <3>3, TwoPeers
  <2>4. \A d \in Conns : d < InUse => conn'[d][Server] = "done"
    BY <1>2, <2>1, TwoPeers DEF Succession
  <2>5. conn'[InUse][Client] # "none"
    BY <1>2, <1>4, <2>1, TwoPeers DEF Succession
  <2>. QED
    BY <1>1, <1>4, <2>1, <2>2, <2>3, <2>4, <2>5 DEF Succession
<1>6. TimerInv'
  <2>1. TimerInv /\ Succession
    BY DEF OrderInv
  <2>2. CASE p = Server /\ c \in watched[p]
    <3>1. c <= InUse /\ c \in Int /\ InUse \in Int
      BY <1>4, <2>1, <2>2 DEF TimerInv, Conns
    <3>2. ~(c < InUse)
      BY <1>1, <2>1, <2>2 DEF Succession
    <3>3. c = InUse
      BY <3>1, <3>2
    <3>4. timers = {}
      BY <1>1, <2>1, <2>2, <3>3 DEF TimerInv, TimerOnlyWhileDisconnected, InUse
    <3>5. timers' = {c} /\ timeoutId' = c /\ conn'[InUse][Server] = "done"
      BY <1>1, <1>2, <1>4, <2>2, <3>3, <3>4
    <3>. QED
      BY <1>1, <1>4, <2>1, <3>5 DEF TimerInv, TimerOnlyWhileDisconnected, InUse
  <2>3. CASE ~(p = Server /\ c \in watched[p])
    <3>1. timers' = timers /\ timeoutId' = timeoutId
      BY <1>1, <2>3
    <3>2. timers # {} => conn'[InUse][Server] = "done"
      BY <1>2, <1>4, <2>1, TwoPeers DEF TimerInv, TimerOnlyWhileDisconnected, InUse
    <3>. QED
      BY <1>1, <1>4, <2>1, <3>1, <3>2 DEF TimerInv, TimerOnlyWhileDisconnected, InUse
  <2>. QED
    BY <2>2, <2>3
<1>7. FrameOrder'
  <2>1. FrameOrder
    BY DEF OrderInv
  <2>2. \A d \in Conns, r \in Peers : conn'[d][r] # "open" => pipe'[d][r] = <<>>
    BY <1>2, <1>3, <2>1 DEF FrameOrder
  <2>3. \A d \in Conns : d # InUse => pipe'[d][Client] = <<>>
    BY <1>3, <2>1, TwoPeers DEF FrameOrder
  <2>4. \A d \in Conns : d # InUse /\ pipe'[d][Server] # <<>> =>
                           d \in awaiting /\ pipe'[d][Server] = <<ResumeFrame>>
    BY <1>3, <2>1, TwoPeers DEF FrameOrder
  <2>5. InUse \in awaiting => pipe'[InUse][Server] = <<>>
    BY <1>3, <1>4, <2>1, TwoPeers DEF FrameOrder
  <2>6. InUse \in awaiting /\ conn'[InUse][Client] = "open" => pipe'[InUse][Client] # <<>>
    BY <1>2, <1>3, <1>4, <2>1, TwoPeers DEF FrameOrder
  <2>7. ASSUME NEW r \in Peers, NEW i \in 1 .. Len(pipe'[InUse][r])
        PROVE  i \in 1 .. Len(pipe[InUse][r]) /\ pipe'[InUse][r] = pipe[InUse][r]
    <3>1. pipe'[InUse][r] # <<>>
      BY <2>7, EmptySeq
    <3>. QED
      BY <1>3, <1>4, <2>7, <3>1
  <2>8. \A r \in Peers : \A i \in 1 .. Len(pipe'[InUse][r]) :
         /\ pipe'[InUse][r][i].type \in {"STREAM", "KEEPALIVE", "RESUME_OK"}
         /\ pipe'[InUse][r][i].type = "RESUME_OK" <=> r = Client /\ i = 1 /\ InUse \in awaiting
         /\ pipe'[InUse][r][i].type = "RESUME_OK" => pipe'[InUse][r][i].clientPosition = lastReceived[Server]
    BY <2>1, <2>7 DEF FrameOrder
  <2>. QED
    BY <1>1, <1>4, <2>2, <2>3, <2>4, <2>5, <2>6, <2>8 DEF FrameOrder
<1>8. StoreOrder'
  <2>. SUFFICES ASSUME NEW r \in Peers PROVE StoreAgrees(r)' /\ FramesFollow(r)' /\ PositionsFollow(r)'
    BY DEF StoreOrder
  <2>1. StoreAgrees(r) /\ FramesFollow(r) /\ PositionsFollow(r)
    BY DEF OrderInv, StoreOrder
  <2>2. Handled(r)' = Handled(r)
    BY <1>1 DEF Handled
  <2>3. StoreAgrees(r)'
    BY <1>1, <2>1, <2>2 DEF StoreAgrees
  <2>4. \A y \in Peers : pipe'[InUse][y] = pipe[InUse][y] \/ pipe'[InUse][y] = <<>>
    BY <1>3, <1>4
  <2>5. PositionsFollow(r)'
    BY <1>1, <1>4, <2>1, <2>2, <2>4, NothingOnItsWay DEF PositionsFollow
  <2>6. InSequence(pipe'[InUse][Other(r)], Handled(r), sent[r])
    BY <2>1, <2>4, NothingOnItsWay, TwoPeers DEF FramesFollow
  <2>7. ASSUME Live(r)' PROVE Complete(pipe'[InUse][Other(r)], Handled(r), sent[r])
    <3>1. conn'[InUse][Client] = "open" /\ conn'[InUse][Server] = "open" /\ outbound[r] = InUse
      BY <1>1, <1>4, <2>7 DEF Live
    <3>2. c # InUse /\ Live(r)
      BY <1>2, <1>4, <3>1, TwoPeers DEF Live
    <3>3. pipe'[InUse][Other(r)] = pipe[InUse][Other(r)]
      BY <1>3, <1>4, <3>2, TwoPeers
    <3>. QED
      BY <2>1, <3>2, <3>3 DEF FramesFollow
  <2>8. FramesFollow(r)'
    BY <1>1, <1>4, <2>2, <2>6, <2>7 DEF FramesFollow
  <2>. QED
    BY <2>3, <2>5, <2>8
<1>. QED
  BY <1>5, <1>6, <1>7, <1>8 DEF OrderInv

LEMMA ReconnectOrder ==
  ASSUME SessionAssumption, PipeInv, NetType, MuxType, StoreType, ReceivedType, OrderInv, ClientInv,
         Reconnect
  PROVE  OrderInv'
<1>1. PICK c \in Conns :
        /\ conn[c][Client] = "none"
        /\ \A d \in Conns : d < c => conn[d][Client] # "none"
        /\ conn' = [conn EXCEPT ![c] = [p \in Peers |-> "open"]]
        /\ pipe' = [pipe EXCEPT ![c][Server] = <<ResumeFrame>>]
        /\ awaiting' = awaiting \cup {c}
  BY DEF Reconnect, ResumeFrame
<1>2. /\ UNCHANGED <<outbound, watched, inStore, timers, timeoutId>>
      /\ UNCHANGED <<sent, dropped, firstAvailable, lastReceived, delivered, inconsistent>>
  BY DEF Reconnect, storeVars, serverVars
<1>3. InUse' = InUse /\ ResumeFrame' = ResumeFrame /\ InUse \in Conns
  BY <1>2, TwoPeers DEF InUse, ResumeFrame, MuxType
<1>4. Succession /\ TimerInv /\ FrameOrder
  BY DEF OrderInv
<1>5. c # InUse
  BY <1>1, <1>4 DEF Succession
<1>6. \A d \in Conns, r \in Peers : conn'[d][r] = IF d = c THEN "open" ELSE conn[d][r]
  BY <1>1 DEF NetType
<1>7. \A d \in Conns, r \in Peers :
        pipe'[d][r] = IF d = c /\ r = Server THEN <<ResumeFrame>> ELSE pipe[d][r]
  BY <1>1 DEF PipeInv, PipeType
<1>8. Succession'
  <2>1. ASSUME NEW d \in Conns, NEW e \in Conns, d < e, conn'[d][Client] # "done"
        PROVE  conn'[e][Client] = "none"
    <3>1. CASE d = c
      <4>1. conn[e][Client] = "none" /\ e # c
        BY <1>1, <1>4, <2>1, <3>1 DEF Succession, Conns
      <4>. QED
        BY <1>6, <4>1, TwoPeers
    <3>2. CASE d # c
      <4>1. conn[d][Client] # "done" /\ conn[d][Client] # "open"
        BY <1>6, <2>1, <3>2, TwoPeers DEF ClientInv, Reconnect
      <4>2. conn[d][Client] = "none"
        BY <4>1, TwoPeers DEF NetType
      <4>3. ~(d < c) /\ d \in Int /\ c \in Int /\ e \in Int
        BY <1>1, <4>2 DEF Conns
      <4>4. c < d
        BY <3>2, <4>3
      <4>5. e # c
        BY <2>1, <4>3, <4>4
      <4>6. conn[e][Client] = "none"
        BY <1>4, <2>1, <4>1 DEF Succession
      <4>. QED
        BY <1>6, <4>5, <4>6, TwoPeers
    <3>. QED
      BY <3>1, <3>2
  <2>2. \A d \in Conns : conn'[d][Client] = "none" <=> conn'[d][Server] = "none"
    BY <1>4, <1>6, TwoPeers DEF Succession
  <2>3. ASSUME NEW d \in Conns, d < InUse PROVE conn'[d][Server] = "done"
    <3>1. conn[d][Server] = "done"
      BY <1>4, <2>3 DEF Succession
    <3>2. d # c
      BY <1>1, <1>4, <3>1 DEF Succession
    <3>. QED
      BY <1>6, <3>1, <3>2, TwoPeers
  <2>4. conn'[InUse][Client] # "none"
    BY <1>3, <1>4, <1>6, TwoPeers DEF Succession
  <2>5. InUse \in awaiting' <=> InUse \in awaiting
    BY <1>1, <1>5
  <2>. QED
    BY <1>2, <1>3, <1>4, <2>1, <2>2, <2>3, <2>4, <2>5 DEF Succession
<1>9. TimerInv'
  <2>1. conn'[InUse][Server] = conn[InUse][Server]
    BY <1>3, <1>5, <1>6, TwoPeers
  <2>. QED
    BY <1>2, <1>3, <1>4, <2>1 DEF TimerInv, TimerOnlyWhileDisconnected, InUse
<1>10. \A r \in Peers : pipe'[InUse][r] = pipe[InUse][r] /\ conn'[InUse][r] = conn[InUse][r]
  BY <1>3, <1>5, <1>6, <1>7
<1>11. FrameOrder'
  <2>1. \A d \in Conns, r \in Peers : conn'[d][r] # "open" => pipe'[d][r] = <<>>
    BY <1>4, <1>6, <1>7 DEF FrameOrder
  <2>2. \A d \in Conns : d # InUse => pipe'[d][Client] = <<>>
    BY <1>4, <1>7, TwoPeers DEF FrameOrder
  <2>3. ASSUME NEW d \in Conns, d # InUse, pipe'[d][Server] # <<>>
        PROVE  d \in awaiting' /\ pipe'[d][Server] = <<ResumeFrame>>
    <3>1. CASE d = c
      BY <1>1, <1>7, <3>1, TwoPeers
    <3>2. CASE d # c
      BY <1>1, <1>4, <1>7, <2>3, <3>2, TwoPeers DEF FrameOrder
    <3>. QED
      BY <3>1, <3>2
  <2>4. InUse \in awaiting' <=> InUse \in awaiting
    BY <1>1, <1>5
  <2>5. InUse \in awaiting' => pipe'[InUse][Server] = <<>>
    BY <1>4, <1>10, <2>4, TwoPeers DEF FrameOrder
  <2>6. InUse \in awaiting' /\ conn'[InUse][Client] = "open" => pipe'[InUse][Client] # <<>>
    BY <1>4, <1>10, <2>4, TwoPeers DEF FrameOrder
  <2>7. \A r \in Peers : \A i \in 1 .. Len(pipe'[InUse][r]) :
         /\ pipe'[InUse][r][i].type \in {"STREAM", "KEEPALIVE", "RESUME_OK"}
         /\ pipe'[InUse][r][i].type = "RESUME_OK" <=> r = Client /\ i = 1 /\ InUse \in awaiting'
         /\ pipe'[InUse][r][i].type = "RESUME_OK" => pipe'[InUse][r][i].clientPosition = lastReceived[Server]
    BY <1>4, <1>10, <2>4 DEF FrameOrder
  <2>. QED
    BY <1>2, <1>3, <2>1, <2>2, <2>3, <2>5, <2>6, <2>7 DEF FrameOrder
<1>12. StoreOrder'
  <2>. SUFFICES ASSUME NEW r \in Peers PROVE StoreAgrees(r)' /\ FramesFollow(r)' /\ PositionsFollow(r)'
    BY DEF StoreOrder
  <2>1. StoreAgrees(r) /\ FramesFollow(r) /\ PositionsFollow(r)
    BY DEF OrderInv, StoreOrder
  <2>2. Handled(r)' = Handled(r) /\ Live(r)' = Live(r)
    BY <1>2, <1>3, <1>10, TwoPeers DEF Handled, Live
  <2>. QED
    BY <1>2, <1>3, <1>10, <2>1, <2>2, TwoPeers DEF StoreAgrees, FramesFollow, PositionsFollow
<1>. QED
  BY <1>8, <1>9, <1>11, <1>12 DEF OrderInv

LEMMA SessionTimeoutOrder ==
  ASSUME OrderInv, NEW c \in Conns, SessionTimeout(c)
  PROVE  OrderInv'
<1>1. /\ UNCHANGED <<conn, pipe, awaiting, outbound, watched, inStore, timeoutId>>
      /\ UNCHANGED <<sent, dropped, firstAvailable, lastReceived, delivered, inconsistent>>
      /\ timers' = timers \ {c}
  BY DEF SessionTimeout, netVars, storeVars, clientVars
<1>2. InUse' = InUse /\ ResumeFrame' = ResumeFrame
  BY <1>1 DEF InUse, ResumeFrame
<1>3. Succession' /\ TimerInv'
  BY <1>1, <1>2 DEF OrderInv, Succession, TimerInv, TimerOnlyWhileDisconnected
<1>4. FrameOrder'
  BY <1>1, <1>2 DEF OrderInv, FrameOrder
<1>5. StoreOrder'
  BY <1>1, <1>2 DEF OrderInv, StoreOrder, StoreAgrees, FramesFollow, PositionsFollow, Handled, Live
<1>. QED
  BY <1>3, <1>4, <1>5 DEF OrderInv


\* What a RESUME that arrives in order finds: the old connection is over at both
\* ends, and its positions are those of the client's store.
LEMMA ResumeArrives ==
  ASSUME SessionAssumption, PipeInv, NetType, MuxType, OrderInv, Orderly,
         NEW c \in Conns, ReceivedResume(c)
  PROVE  /\ c # InUse /\ InUse < c /\ c \in awaiting
         /\ conn[c][Server] = "open" /\ conn[c][Client] # "none"
         /\ pipe[c][Server] = <<ResumeFrame>> /\ pipe[c][Client] = <<>>
         /\ \A d \in Conns : d < c => conn[d][Server] = "done"
         /\ \A r \in Peers : pipe[InUse][r] = <<>>
<1>1. pipe[c][Server] # <<>> /\ Head(pipe[c][Server]).type = "RESUME" /\ conn[c][Server] = "open"
  BY DEF ReceivedResume, Received
<1>2. c # InUse
  BY <1>1, TwoPeers, ReceivedInUse DEF OrderInv
<1>3. /\ InUse < c /\ conn[InUse][Client] = "done" /\ c \in awaiting
      /\ pipe[c][Server] = <<ResumeFrame>>
  BY <1>1, <1>2, NotInUse DEF OrderInv
<1>4. \A d \in Conns : d < c => conn[d][Server] = "done"
  BY DEF ReceivedResume, Orderly
<1>5. pipe[c][Client] = <<>> /\ conn[c][Client] # "none"
  BY <1>1, <1>2 DEF OrderInv, FrameOrder, Succession
<1>6. InUse \in Conns
  BY TwoPeers DEF InUse, MuxType
<1>7. pipe[InUse][Client] = <<>> /\ pipe[InUse][Server] = <<>>
  BY <1>3, <1>4, <1>6, TwoPeers DEF OrderInv, FrameOrder
<1>. QED
  BY <1>1, <1>2, <1>3, <1>4, <1>5, <1>7, TwoPeers

LEMMA HandleResumeOrder ==
  ASSUME SessionAssumption, PipeInv, NetType, MuxType, StoreType, ReceivedType, OrderInv, Orderly,
         NEW c \in Conns, HandleResume(c)
  PROVE  OrderInv'
<1>. DEFINE ok == [type |-> "RESUME_OK", clientPosition |-> lastReceived[Server]]
            k == Handled(Server)
            stored == StoredFrames(Server, k)
<1>1. /\ c # InUse /\ InUse < c /\ c \in awaiting
      /\ conn[c][Server] = "open" /\ conn[c][Client] # "none"
      /\ pipe[c][Server] = <<ResumeFrame>> /\ pipe[c][Client] = <<>>
      /\ \A d \in Conns : d < c => conn[d][Server] = "done"
      /\ \A r \in Peers : pipe[InUse][r] = <<>>
  BY ResumeArrives DEF HandleResume
<1>2. Succession /\ TimerInv /\ FrameOrder
  BY DEF OrderInv
<1>3. \A r \in Peers : StoreAgrees(r)
  BY DEF OrderInv, StoreOrder
<1>4. Head(pipe[c][Server]).serverPosition = FramePos[Server][k]
  BY <1>1, <1>3, TwoPeers DEF ResumeFrame, StoreAgrees
<1>5. /\ k \in dropped[Server] .. sent[Server] /\ k \in 0 .. sent[Server] /\ k \in Nat
      /\ firstAvailable[Server] = FramePos[Server][dropped[Server]]
  BY <1>3, TwoPeers, HandledNat DEF OrderInv, StoreAgrees
<1>6. PICK to \in 0 .. MaxFrames[Server] :
        /\ DropTo(Server, FramePos[Server][k], to)
        /\ Transfer(c, Server, TRUE, c, <<ok>> \o StoredFrames(Server, to))
  BY <1>4 DEF HandleResume
<1>. HIDE DEF k
<1>7. /\ to = k
      /\ dropped' = [dropped EXCEPT ![Server] = k]
      /\ firstAvailable' = [firstAvailable EXCEPT ![Server] = FramePos[Server][k]]
      /\ inconsistent' = inconsistent
  BY <1>5, <1>6, TwoPeers, DropExact
<1>8. /\ stored \in Seq(FramesTo(Client))
      /\ \A i \in 1 .. Len(stored) : stored[i].type = "STREAM"
      /\ InSequence(stored, k, sent[Server]) /\ Complete(stored, k, sent[Server])
  BY <1>5, TwoPeers, StoredInSequence
<1>9. ok \in FramesTo(Client) /\ ~IsStream(ok) /\ ok.type = "RESUME_OK" /\ ok.clientPosition = lastReceived[Server]
  BY FramesSent, TwoPeers DEF IsStream, ReceivedType
<1>10. /\ outbound' = [outbound EXCEPT ![Server] = c]
       /\ timers' = timers \ {timeoutId}
       /\ watched' = [watched EXCEPT ![Server] = @ \cup {c}]
       /\ UNCHANGED <<conn, awaiting, inStore, timeoutId, sent, lastReceived, delivered>>
  BY DEF HandleResume, ClearTimeout, clientVars
<1>. HIDE DEF ok, stored
<1>11. PICK frames : frames = <<ok>> \o stored
  OBVIOUS
<1>12. /\ frames \in Seq(FramesTo(Client)) /\ frames # <<>>
       /\ InSequence(frames, k, sent[Server]) /\ Complete(frames, k, sent[Server])
       /\ Len(frames) \in Nat /\ 1 \in 1 .. Len(frames)
       /\ frames[1] = ok
       /\ \A i \in 1 .. Len(frames) : i # 1 => frames[i].type = "STREAM"
  <2>1. frames \in Seq(FramesTo(Client)) /\ frames # <<>> /\ Head(frames) = ok /\ Tail(frames) = stored
    BY <1>8, <1>9, <1>11
  <2>2. InSequence(frames, k, sent[Server]) /\ Complete(frames, k, sent[Server])
    BY <1>8, <1>9, <1>11, TwoPeers, AfterOther
  <2>3. /\ Len(frames) \in Nat \ {0} /\ frames[1] = Head(frames) /\ 1 \in 1 .. Len(frames)
        /\ \A i \in 1 .. Len(frames) : i # 1 => i - 1 \in 1 .. Len(Tail(frames)) /\ Tail(frames)[i - 1] = frames[i]
    BY <2>1, Shifted
  <2>4. ASSUME NEW i \in 1 .. Len(frames), i # 1 PROVE frames[i].type = "STREAM"
    <3>1. i - 1 \in 1 .. Len(stored) /\ frames[i] = stored[i - 1]
      BY <2>1, <2>3, <2>4
    <3>. QED
      BY <1>8, <3>1
  <2>. QED
    BY <2>1, <2>2, <2>3, <2>4
<1>13. /\ Transfer(c, Server, TRUE, c, frames)
       /\ pipe[c][Server] # <<>>
  <2>1. frames = <<ok>> \o StoredFrames(Server, to)
    BY <1>7, <1>11 DEF stored
  <2>2. Transfer(c, Server, TRUE, c, <<ok>> \o StoredFrames(Server, to))
    BY <1>6 DEF ok
  <2>3. Transfer(c, Server, TRUE, c, frames)
    BY <2>1, <2>2 DEF Transfer
  <2>4. pipe[c][Server] # <<>>
    BY <1>1
  <2>. QED
    BY <2>3, <2>4
<1>14. /\ \A x \in Conns, y \in Peers : x # c => pipe'[x][y] = pipe[x][y]
       /\ pipe'[c][Server] = <<>>
       /\ pipe'[c][Client] = IF conn[c][Client] = "open" THEN frames ELSE <<>>
  <2>1. /\ \A x \in Conns, y \in Peers :
             ~(x = c /\ y = Server) /\ ~(x = c /\ y = Client) => pipe'[x][y] = pipe[x][y]
        /\ pipe'[c][Server] = Tail(pipe[c][Server])
        /\ pipe'[c][Client] = IF conn[c][Server] = "open" /\ conn[c][Client] = "open"
                              THEN pipe[c][Client] \o frames ELSE pipe[c][Client]
    <3>1. Server \in Peers /\ Other(Server) = Client /\ TRUE \in BOOLEAN
      BY TwoPeers
    <3>2. frames \in Seq(FramesTo(Other(Server)))
      BY <1>12, <3>1
    <3>3. PICK takes \in BOOLEAN : takes = TRUE
      OBVIOUS
    <3>4. Transfer(c, Server, takes, c, frames) /\ (takes => pipe[c][Server] # <<>>)
      BY <1>13, <3>3 DEF Transfer
    <3>5. /\ \A x \in Conns, y \in Peers :
                ~(x = c /\ y = Server) /\ ~(x = c /\ y = Other(Server)) => pipe'[x][y] = pipe[x][y]
          /\ pipe'[c][Server] = IF takes THEN Tail(pipe[c][Server]) ELSE pipe[c][Server]
          /\ pipe'[c][Other(Server)] = IF conn[c][Server] = "open" /\ conn[c][Other(Server)] = "open"
                                THEN pipe[c][Other(Server)] \o frames ELSE pipe[c][Other(Server)]
      BY <3>1, <3>2, <3>4, TransferPipes
    <3>. QED
      BY <3>1, <3>3, <3>5
  <2>2. Tail(<<ResumeFrame>>) = <<>>
    OBVIOUS
  <2>3. <<>> \o frames = frames
    BY <1>12, ConcatEmptySeq
  <2>. QED
    BY <1>1, <2>1, <2>2, <2>3
<1>15. InUse' = c /\ outbound'[Client] = outbound[Client] /\ outbound' \in [Peers -> Conns]
  BY <1>10, TwoPeers DEF InUse, MuxType
<1>16. InUse \in Conns /\ outbound[Client] \in Conns /\ \A d \in Conns : d \in Int
  BY TwoPeers DEF InUse, MuxType, Conns
<1>17. outbound[Client] < c
  BY <1>1, <1>2, <1>16 DEF Succession
<1>18. Succession'
  <2>1. outbound'[Client] <= c /\ outbound'[Client] # c
    BY <1>15, <1>16, <1>17
  <2>. QED
    BY <1>1, <1>2, <1>10, <1>15, <2>1 DEF Succession
<1>19. TimerInv'
  <2>1. timers' = {}
    BY <1>2, <1>10 DEF TimerInv
  <2>2. ASSUME NEW d \in watched'[Server] PROVE d <= c
    <3>1. CASE d \in watched[Server]
      <4>1. d <= InUse /\ d \in Conns
        BY <1>2, <3>1, TwoPeers DEF TimerInv, MuxType
      <4>. QED
        BY <1>1, <1>16, <4>1
    <3>2. CASE d = c
      BY <1>16, <3>2
    <3>. QED
      BY <1>10, <2>2, <3>1, <3>2, TwoPeers DEF MuxType
  <2>. QED
    BY <1>2, <1>10, <1>15, <2>1, <2>2 DEF TimerInv, TimerOnlyWhileDisconnected
<1>20. lastReceived' = lastReceived /\ firstAvailable'[Client] = firstAvailable[Client]
  BY <1>7, <1>10, TwoPeers DEF StoreType
<1>21. ResumeFrame' = ResumeFrame
  BY <1>20 DEF ResumeFrame
<1>22. FrameOrder'
  <2>1. ASSUME NEW d \in Conns, NEW r \in Peers, conn[d][r] # "open" PROVE pipe'[d][r] = <<>>
    <3>1. CASE d # c
      BY <1>2, <1>14, <2>1, <3>1 DEF FrameOrder
    <3>2. CASE d = c
      BY <1>1, <1>14, <2>1, <3>2, TwoPeers
    <3>. QED
      BY <3>1, <3>2
  <2>2. ASSUME NEW d \in Conns, d # c PROVE pipe'[d][Client] = <<>>
    <3>1. pipe[d][Client] = <<>>
      BY <1>1, <1>2, TwoPeers DEF FrameOrder
    <3>. QED
      BY <1>14, <2>2, <3>1, TwoPeers
  <2>3. ASSUME NEW d \in Conns, d # c, pipe'[d][Server] # <<>>
        PROVE  d \in awaiting /\ pipe'[d][Server] = <<ResumeFrame>>
    <3>1. pipe'[d][Server] = pipe[d][Server] /\ d # InUse
      BY <1>1, <1>14, <2>3, TwoPeers
    <3>. QED
      BY <1>2, <2>3, <3>1 DEF FrameOrder
  <2>4. conn[c][Client] = "open" => pipe'[c][Client] # <<>>
    BY <1>12, <1>14
  <2>5. ASSUME NEW r \in Peers, NEW i \in 1 .. Len(pipe'[c][r])
        PROVE  /\ pipe'[c][r][i].type \in {"STREAM", "KEEPALIVE", "RESUME_OK"}
               /\ pipe'[c][r][i].type = "RESUME_OK" <=> r = Client /\ i = 1
               /\ pipe'[c][r][i].type = "RESUME_OK" => pipe'[c][r][i].clientPosition = lastReceived[Server]
    <3>1. pipe'[c][r] # <<>>
      BY <2>5, EmptySeq
    <3>2. r = Client /\ pipe'[c][r] = frames
      BY <1>14, <3>1, TwoPeers
    <3>3. frames[i].type = "RESUME_OK" <=> i = 1
      BY <1>9, <1>12, <2>5, <3>2
    <3>. QED
      BY <1>9, <1>12, <2>5, <3>2, <3>3
  <2>6. /\ conn' = conn /\ awaiting' = awaiting /\ lastReceived' = lastReceived
        /\ InUse' = c /\ c \in awaiting /\ ResumeFrame' = ResumeFrame /\ pipe'[c][Server] = <<>>
    BY <1>1, <1>10, <1>14, <1>15, <1>20, <1>21
  <2>. QED
    BY <2>1, <2>2, <2>3, <2>4, <2>5, <2>6 DEF FrameOrder
<1>23. \A r \in Peers : Handled(r)' = Handled(r)
  BY <1>10 DEF Handled
<1>24. StoreAgrees(Client)'
  BY <1>3, <1>7, <1>10, <1>23, TwoPeers DEF StoreAgrees, StoreType
<1>25. StoreAgrees(Server)'
  <2>1. dropped'[Server] = k /\ firstAvailable'[Server] = FramePos[Server][k]
    BY <1>7, TwoPeers DEF StoreType
  <2>2. k <= k
    BY <1>5
  <2>. QED
    BY <1>3, <1>7, <1>10, <1>23, <2>1, <2>2, TwoPeers DEF StoreAgrees, k
<1>26. FramesFollow(Server)'
  <2>1. InSequence(pipe'[c][Client], k, sent[Server])
    BY <1>12, <1>14, NothingOnItsWay
  <2>2. conn[c][Client] = "open" => Complete(pipe'[c][Client], k, sent[Server])
    BY <1>12, <1>14
  <2>. QED
    BY <1>10, <1>15, <1>23, <2>1, <2>2, TwoPeers DEF FramesFollow, Live, k
<1>27. FramesFollow(Client)'
  <2>1. ~Live(Client)'
    BY <1>15, <1>16, <1>17 DEF Live
  <2>. QED
    BY <1>14, <1>15, <2>1, NothingOnItsWay, TwoPeers DEF FramesFollow
<1>28. PositionsFollow(Server)'
  BY <1>14, <1>15, NothingOnItsWay DEF PositionsFollow
<1>29. PositionsFollow(Client)'
  <2>1. dropped'[Client] = dropped[Client]
    BY <1>7, TwoPeers DEF StoreType
  <2>2. dropped[Client] \in Nat /\ Handled(Client) \in Nat /\ dropped[Client] <= Handled(Client)
    BY TwoPeers, HandledNat DEF OrderInv
  <2>3. lastReceived[Server] = FramePos[Client][Handled(Client)]
    BY <1>3, TwoPeers DEF StoreAgrees
  <2>4. ASSUME NEW i \in 1 .. Len(frames), IsPosition(frames[i])
        PROVE  i = 1 /\ PositionOf(frames[i]) = FramePos[Client][Handled(Client)]
    BY <1>9, <1>12, <2>3, <2>4 DEF IsPosition, PositionOf
  <2>5. Acknowledges(frames, FramePos[Client], dropped[Client], Handled(Client))
    BY <2>2, <2>4, TwoPeers, FirstPosition
  <2>6. Acknowledges(pipe'[c][Client], FramePos[Client], dropped[Client], Handled(Client))
    BY <1>14, <2>5, NothingOnItsWay
  <2>. QED
    BY <1>15, <1>23, <2>1, <2>6, TwoPeers DEF PositionsFollow
<1>. QED
  BY <1>18, <1>19, <1>22, <1>24, <1>25, <1>26, <1>27, <1>28, <1>29, TwoPeers DEF OrderInv, StoreOrder

\* Positions that arrive in order are found: dropTo does not throw, no ERROR is
\* sent, and the server still has its session.
LEMMA NoFailure ==
  ASSUME SessionAssumption, PipeInv, NetType, MuxType, StoreType, ReceivedType, OrderInv, Orderly,
         NEW c \in Conns, NEW p \in Peers
  PROVE  /\ ~HandleKeepAliveFails(c, p)
         /\ ~HandleError(c, p)
         /\ ~HandleResumeFails(c)
         /\ ~HandleResumeUnknown(c)
         /\ ~HandleNotResumeOk(c)
<1>1. \A r \in Peers : /\ firstAvailable[r] = FramePos[r][dropped[r]]
                       /\ lastReceived[Other(r)] = FramePos[r][Handled(r)]
  BY DEF OrderInv, StoreOrder, StoreAgrees
<1>2. ~HandleKeepAliveFails(c, p)
  <2>1. SUFFICES ASSUME HandleKeepAliveFails(c, p) PROVE FALSE
    OBVIOUS
  <2>2. PICK k \in dropped[p] .. Handled(p) : Head(pipe[c][p]).lastReceivedPosition = FramePos[p][k]
    BY <2>1, KeepAlivePosition DEF HandleKeepAliveFails
  <2>3. k \in dropped[p] .. sent[p]
    BY HandledNat DEF OrderInv
  <2>4. PICK to \in 0 .. MaxFrames[p] : DropToFails(p, FramePos[p][k], to)
    BY <2>1, <2>2 DEF HandleKeepAliveFails
  <2>. QED
    BY <1>1, <2>3, <2>4, DropExact
<1>3. ~HandleError(c, p)
  BY ReceivedInUse DEF HandleError, Received, OrderInv
<1>4. ~HandleNotResumeOk(c)
  BY ReceivedInUse, TwoPeers DEF HandleNotResumeOk, Received, OrderInv
<1>5. ~HandleResumeUnknown(c)
  BY DEF HandleResumeUnknown, OrderInv, TimerInv
<1>6. ~HandleResumeFails(c)
  <2>1. SUFFICES ASSUME HandleResumeFails(c) PROVE FALSE
    OBVIOUS
  <2>2. Head(pipe[c][Server]) = ResumeFrame
    <3>1. pipe[c][Server] = <<ResumeFrame>>
      BY <2>1, ResumeArrives DEF HandleResumeFails
    <3>. QED
      BY <3>1
  <2>3. CASE \E to \in 0 .. MaxFrames[Server] :
               DropToFails(Server, Head(pipe[c][Server]).serverPosition, to)
    <3>1. Head(pipe[c][Server]).serverPosition = FramePos[Server][Handled(Server)]
      BY <1>1, <2>2, TwoPeers DEF ResumeFrame
    <3>2. Handled(Server) \in dropped[Server] .. sent[Server]
      BY TwoPeers, HandledNat DEF OrderInv
    <3>. QED
      BY <1>1, <2>3, <3>1, <3>2, TwoPeers, DropExact
  <2>4. CASE lastReceived[Server] < Head(pipe[c][Server]).clientPosition
    <3>1. Head(pipe[c][Server]).clientPosition = FramePos[Client][dropped[Client]]
      BY <1>1, <2>2, TwoPeers DEF ResumeFrame
    <3>2. lastReceived[Server] = FramePos[Client][Handled(Client)]
      BY <1>1, TwoPeers
    <3>3. /\ dropped[Client] \in 0 .. MaxFrames[Client] /\ Handled(Client) \in 0 .. MaxFrames[Client]
          /\ dropped[Client] = Handled(Client) \/ dropped[Client] < Handled(Client)
      BY TwoPeers, HandledNat DEF OrderInv
    <3>4. FramePos[Client][dropped[Client]] <= FramePos[Client][Handled(Client)]
      BY <3>3, TwoPeers DEF SessionAssumption
    <3>5. FramePos[Client][dropped[Client]] \in Nat /\ FramePos[Client][Handled(Client)] \in Nat
      BY <3>3, TwoPeers DEF SessionAssumption
    <3>. QED
      BY <2>4, <3>1, <3>2, <3>4, <3>5
  <2>. QED
    BY <2>1, <2>3, <2>4 DEF HandleResumeFails
<1>. QED
  BY <1>2, <1>3, <1>4, <1>5, <1>6


\* RESUME_OK names the position of the last frame the server handled, whatever
\* the client sent in the meantime.
LEMMA ResumeOkPosition ==
  ASSUME SessionAssumption, PipeInv, NetType, MuxType, StoreType, ReceivedType, OrderInv,
         NEW c \in Conns, Received(c, Client, "RESUME_OK")
  PROVE  /\ c = InUse /\ c \in awaiting
         /\ Head(pipe[c][Client]).clientPosition = FramePos[Client][Handled(Client)]
         /\ Acknowledges(Tail(pipe[c][Client]), FramePos[Client], Handled(Client), Handled(Client))
<1>1. pipe[c][Client] # <<>> /\ Head(pipe[c][Client]).type = "RESUME_OK"
  BY DEF Received
<1>2. c = InUse /\ c \in awaiting
  BY <1>1, TwoPeers, ReceivedInUse DEF OrderInv
<1>3. /\ Head(pipe[c][Client]) = pipe[c][Client][1] /\ 1 \in 1 .. Len(pipe[c][Client])
      /\ pipe[c][Client] \in Seq(FramesTo(Client))
  <2>1. pipe[c][Client] \in Seq(FramesTo(Client))
    BY <1>2, TwoPeers, PipeOf
  <2>. QED
    BY <1>1, <2>1, Shifted
<1>4. Head(pipe[c][Client]).clientPosition = lastReceived[Server]
  BY <1>1, <1>2, <1>3, TwoPeers DEF OrderInv, FrameOrder
<1>5. StoreAgrees(Client) /\ PositionsFollow(Client)
  BY TwoPeers DEF OrderInv, StoreOrder
<1>6. Head(pipe[c][Client]).clientPosition = FramePos[Client][Handled(Client)]
  BY <1>4, <1>5, TwoPeers DEF StoreAgrees
<1>7. /\ IsPosition(Head(pipe[c][Client]))
      /\ PositionOf(Head(pipe[c][Client])) = FramePos[Client][Handled(Client)]
  BY <1>1, <1>6 DEF IsPosition, PositionOf
<1>8. /\ Handled(Client) \in 0 .. MaxFrames[Client] /\ dropped[Client] \in 0 .. MaxFrames[Client]
      /\ MaxFrames[Client] \in Nat
  BY TwoPeers, HandledNat DEF OrderInv, SessionAssumption
<1>9. PICK k \in dropped[Client] .. Handled(Client) :
        /\ PositionOf(Head(pipe[c][Client])) = FramePos[Client][k]
        /\ Acknowledges(Tail(pipe[c][Client]), FramePos[Client], k, Handled(Client))
  <2>1. Acknowledges(pipe[c][Client], FramePos[Client], dropped[Client], Handled(Client))
    BY <1>2, <1>5 DEF PositionsFollow
  <2>. QED
    BY <1>1, <1>3, <1>7, <1>8, <2>1, TwoPeers, TakePosition
<1>10. k = Handled(Client)
  <2>1. k \in 0 .. MaxFrames[Client] /\ k <= Handled(Client)
    BY <1>8
  <2>2. FramePos[Client][k] \in Nat /\ FramePos[Client][k] = FramePos[Client][Handled(Client)]
    BY <1>7, <1>9, <2>1, TwoPeers DEF SessionAssumption
  <2>3. k < Handled(Client) => FramePos[Client][k] < FramePos[Client][Handled(Client)]
    BY <1>8, <2>1, TwoPeers DEF SessionAssumption
  <2>. QED
    BY <1>8, <2>1, <2>2, <2>3
<1>. QED
  BY <1>2, <1>6, <1>9, <1>10

LEMMA HandleResumeOkOrder ==
  ASSUME SessionAssumption, PipeInv, NetType, MuxType, StoreType, ReceivedType, OrderInv,
         NEW c \in Conns, HandleResumeOk(c)
  PROVE  OrderInv'
<1>. DEFINE k == Handled(Client)
            stored == StoredFrames(Client, k)
<1>1. /\ c = InUse /\ c \in awaiting /\ conn[c][Client] = "open" /\ pipe[c][Client] # <<>>
      /\ Head(pipe[c][Client]).type = "RESUME_OK"
      /\ Head(pipe[c][Client]).clientPosition = FramePos[Client][k]
      /\ Acknowledges(Tail(pipe[c][Client]), FramePos[Client], k, k)
  BY ResumeOkPosition DEF HandleResumeOk, Received
<1>2. Succession /\ TimerInv /\ FrameOrder
  BY DEF OrderInv
<1>3. \A r \in Peers : StoreAgrees(r) /\ FramesFollow(r) /\ PositionsFollow(r)
  BY DEF OrderInv, StoreOrder
<1>4. /\ k \in dropped[Client] .. sent[Client] /\ k \in 0 .. sent[Client] /\ k \in Nat
      /\ firstAvailable[Client] = FramePos[Client][dropped[Client]]
  BY <1>3, TwoPeers, HandledNat DEF OrderInv, StoreAgrees
<1>. HIDE DEF k
<1>5. PICK to \in 0 .. MaxFrames[Client] :
        /\ DropTo(Client, FramePos[Client][k], to)
        /\ Transfer(c, Client, TRUE, c, StoredFrames(Client, to))
  <2>1. PICK to \in 0 .. MaxFrames[Client] :
          \/ /\ DropTo(Client, FramePos[Client][k], to)
             /\ Transfer(c, Client, TRUE, c, StoredFrames(Client, to))
          \/ DropToFails(Client, FramePos[Client][k], to)
    BY <1>1 DEF HandleResumeOk
  <2>2. ~DropToFails(Client, FramePos[Client][k], to)
    BY <1>4, TwoPeers, DropExact
  <2>. QED
    BY <2>1, <2>2
<1>6. /\ to = k
      /\ dropped' = [dropped EXCEPT ![Client] = k]
      /\ firstAvailable' = [firstAvailable EXCEPT ![Client] = FramePos[Client][k]]
      /\ inconsistent' = inconsistent
  BY <1>4, <1>5, TwoPeers, DropExact
<1>7. /\ stored \in Seq(FramesTo(Server)) /\ Len(stored) \in Nat
      /\ \A i \in 1 .. Len(stored) : stored[i].type = "STREAM"
      /\ InSequence(stored, k, sent[Client]) /\ Complete(stored, k, sent[Client])
  BY <1>4, TwoPeers, StoredInSequence, LenProperties
<1>8. /\ outbound' = [outbound EXCEPT ![Client] = c]
      /\ awaiting' = awaiting \ {c}
      /\ watched'[Server] = watched[Server]
      /\ UNCHANGED <<conn, inStore, timers, timeoutId, sent, lastReceived, delivered>>
  BY TwoPeers DEF HandleResumeOk, serverVars, MuxType
<1>9. PICK frames : frames = stored
  OBVIOUS
<1>. HIDE DEF stored
<1>10. /\ \A x \in Conns, y \in Peers : x # c => pipe'[x][y] = pipe[x][y]
       /\ pipe'[c][Client] = Tail(pipe[c][Client])
       /\ pipe'[c][Server] = IF conn[c][Server] = "open" THEN frames ELSE <<>>
  <2>1. Client \in Peers /\ Other(Client) = Server /\ frames \in Seq(FramesTo(Other(Client)))
    BY <1>7, <1>9, TwoPeers
  <2>2. PICK takes \in BOOLEAN : takes = TRUE
    OBVIOUS
  <2>3. Transfer(c, Client, takes, c, frames) /\ (takes => pipe[c][Client] # <<>>)
    BY <1>1, <1>5, <1>6, <1>9, <2>2 DEF Transfer, stored
  <2>4. /\ \A x \in Conns, y \in Peers :
             ~(x = c /\ y = Client) /\ ~(x = c /\ y = Other(Client)) => pipe'[x][y] = pipe[x][y]
        /\ pipe'[c][Client] = IF takes THEN Tail(pipe[c][Client]) ELSE pipe[c][Client]
        /\ pipe'[c][Other(Client)] = IF conn[c][Client] = "open" /\ conn[c][Other(Client)] = "open"
                                     THEN pipe[c][Other(Client)] \o frames ELSE pipe[c][Other(Client)]
    BY <2>1, <2>3, TransferPipes
  <2>5. pipe[c][Server] = <<>>
    BY <1>1, <1>2 DEF FrameOrder
  <2>6. <<>> \o frames = frames
    BY <1>7, <1>9, ConcatEmptySeq
  <2>. QED
    BY <1>1, <2>1, <2>2, <2>4, <2>5, <2>6, TwoPeers
<1>11. InUse' = InUse /\ outbound'[Client] = InUse /\ c \notin awaiting'
  BY <1>1, <1>8, TwoPeers DEF InUse, MuxType
<1>12. InUse \in Conns /\ \A d \in Conns : d \in Int
  BY TwoPeers DEF InUse, MuxType, Conns
<1>13. Succession'
  <2>1. outbound'[Client] <= InUse
    BY <1>11, <1>12
  <2>. QED
    BY <1>1, <1>2, <1>8, <1>11, <2>1 DEF Succession
<1>14. TimerInv'
  BY <1>2, <1>8, <1>11 DEF TimerInv, TimerOnlyWhileDisconnected, InUse
<1>15. \A d \in Conns : d # c => pipe[d][Server] = <<>>
  BY <1>1, <1>2, NotInUse
<1>16. pipe[c][Client] \in Seq(FramesTo(Client))
  BY <1>1, TwoPeers, PipeOf
<1>17. FrameOrder'
  <2>1. ASSUME NEW d \in Conns, NEW r \in Peers, conn[d][r] # "open" PROVE pipe'[d][r] = <<>>
    <3>1. CASE d # c
      BY <1>2, <1>10, <2>1, <3>1 DEF FrameOrder
    <3>2. CASE d = c
      BY <1>1, <1>10, <2>1, <3>2, TwoPeers
    <3>. QED
      BY <3>1, <3>2
  <2>2. \A d \in Conns : d # c => pipe'[d][Client] = <<>> /\ pipe'[d][Server] = <<>>
    BY <1>1, <1>2, <1>10, <1>15, TwoPeers DEF FrameOrder
  <2>3. ASSUME NEW i \in 1 .. Len(pipe'[c][Client])
        PROVE  pipe'[c][Client][i].type \in {"STREAM", "KEEPALIVE"}
    <3>1. /\ pipe'[c][Client][i] = pipe[c][Client][i + 1]
          /\ i + 1 \in 1 .. Len(pipe[c][Client]) /\ i + 1 # 1
      BY <1>1, <1>10, <1>16, <2>3, Shifted
    <3>2. PICK j : j = i + 1
      OBVIOUS
    <3>3. /\ pipe[c][Client][j].type \in {"STREAM", "KEEPALIVE", "RESUME_OK"}
          /\ pipe[c][Client][j].type # "RESUME_OK"
      BY <1>1, <1>2, <3>1, <3>2, TwoPeers DEF FrameOrder
    <3>. QED
      BY <3>1, <3>2, <3>3
  <2>4. ASSUME NEW i \in 1 .. Len(pipe'[c][Server]) PROVE pipe'[c][Server][i].type = "STREAM"
    <3>1. pipe'[c][Server] # <<>>
      BY <2>4, EmptySeq
    <3>2. pipe'[c][Server] = stored
      BY <1>9, <1>10, <3>1
    <3>. QED
      BY <1>7, <2>4, <3>2
  <2>5. ASSUME NEW r \in Peers, NEW i \in 1 .. Len(pipe'[c][r])
        PROVE  pipe'[c][r][i].type \in {"STREAM", "KEEPALIVE"}
    BY <2>3, <2>4, <2>5, TwoPeers
  <2>. QED
    BY <1>1, <1>8, <1>11, <2>1, <2>2, <2>5 DEF FrameOrder
<1>18. \A r \in Peers : Handled(r)' = Handled(r)
  BY <1>8 DEF Handled
<1>19. StoreAgrees(Server)'
  BY <1>3, <1>6, <1>8, <1>18, TwoPeers DEF StoreAgrees, StoreType
<1>20. dropped'[Client] = k /\ firstAvailable'[Client] = FramePos[Client][k]
  BY <1>6, TwoPeers DEF StoreType
<1>21. StoreAgrees(Client)'
  <2>1. k <= k
    BY <1>4
  <2>. QED
    BY <1>3, <1>6, <1>8, <1>18, <1>20, <2>1, TwoPeers DEF StoreAgrees, k
<1>22. FramesFollow(Client)'
  <2>1. InSequence(pipe'[c][Server], k, sent[Client])
    BY <1>7, <1>9, <1>10, NothingOnItsWay
  <2>2. conn[c][Server] = "open" => Complete(pipe'[c][Server], k, sent[Client])
    BY <1>7, <1>9, <1>10
  <2>. QED
    BY <1>1, <1>8, <1>11, <1>18, <2>1, <2>2, TwoPeers DEF FramesFollow, Live, k
<1>23. FramesFollow(Server)'
  <2>1. ~IsStream(Head(pipe[c][Client]))
    BY <1>1 DEF IsStream
  <2>2. FramesFollow(Server)
    BY <1>3, TwoPeers
  <2>3. /\ InSequence(pipe[c][Client], Handled(Server), sent[Server])
        /\ Live(Server) => Complete(pipe[c][Client], Handled(Server), sent[Server])
    BY <1>1, <2>2, TwoPeers DEF FramesFollow
  <2>4. /\ InSequence(Tail(pipe[c][Client]), Handled(Server), sent[Server])
        /\ Live(Server) => Complete(Tail(pipe[c][Client]), Handled(Server), sent[Server])
    BY <1>1, <1>16, <2>1, <2>3, TwoPeers, TakeOther
  <2>5. Live(Server)' = Live(Server)
    BY <1>8, <1>11, TwoPeers DEF Live, InUse
  <2>. QED
    BY <1>1, <1>8, <1>10, <1>11, <1>18, <2>4, <2>5, TwoPeers DEF FramesFollow
<1>24. PositionsFollow(Client)'
  <2>1. Handled(Client)' = k
    BY <1>18, TwoPeers DEF k
  <2>2. pipe'[InUse'][Client] = Tail(pipe[c][Client])
    BY <1>1, <1>10, <1>11
  <2>. QED
    BY <1>1, <1>20, <2>1, <2>2 DEF PositionsFollow
<1>25. PositionsFollow(Server)'
  <2>1. /\ dropped[Server] \in Nat /\ Handled(Server) \in Nat /\ dropped[Server] <= Handled(Server)
        /\ dropped'[Server] = dropped[Server]
    BY <1>6, TwoPeers, HandledNat DEF OrderInv, StoreType
  <2>2. \A i \in 1 .. Len(stored) : ~IsPosition(stored[i])
    BY <1>7 DEF IsPosition
  <2>3. Acknowledges(stored, FramePos[Server], dropped[Server], Handled(Server))
    BY <2>1, <2>2, TwoPeers, FirstPosition
  <2>4. Acknowledges(pipe'[c][Server], FramePos[Server], dropped[Server], Handled(Server))
    BY <1>9, <1>10, <2>3, NothingOnItsWay
  <2>. QED
    BY <1>1, <1>11, <1>18, <2>1, <2>4, TwoPeers DEF PositionsFollow
<1>. QED
  BY <1>13, <1>14, <1>17, <1>19, <1>21, <1>22, <1>23, <1>24, <1>25, TwoPeers DEF OrderInv, StoreOrder


LEMMA OrderInit == Init /\ SessionAssumption => OrderInv
<1>. SUFFICES ASSUME Init, SessionAssumption PROVE OrderInv
  OBVIOUS
<1>1. /\ outbound = [p \in Peers |-> 1] /\ watched = [p \in Peers |-> {1}]
      /\ conn = [c \in Conns |-> [p \in Peers |-> IF c = 1 THEN "open" ELSE "none"]]
      /\ pipe = [c \in Conns |-> [p \in Peers |-> <<>>]]
      /\ awaiting = {} /\ inStore = TRUE /\ timers = {} /\ timeoutId = 0
  BY DEF Init
<1>2. 1 \in Conns /\ \A c \in Conns : c \in Int /\ 1 <= c
  BY DEF SessionAssumption, Conns
<1>3. InUse = 1 /\ outbound[Client] = 1
  BY <1>1, TwoPeers DEF InUse
<1>4. \A c \in Conns, p \in Peers : conn[c][p] = IF c = 1 THEN "open" ELSE "none"
  BY <1>1
<1>5. \A c \in Conns, p \in Peers : pipe[c][p] = <<>>
  BY <1>1
<1>6. Succession
  <2>1. \A c, d \in Conns : c < d => d # 1
    BY <1>2
  <2>2. \A c \in Conns : ~(c < 1)
    BY <1>2
  <2>3. 1 <= 1
    OBVIOUS
  <2>. QED
    BY <1>1, <1>2, <1>3, <1>4, <2>1, <2>2, <2>3, TwoPeers DEF Succession
<1>7. TimerInv
  <2>1. \A c \in watched[Server] : c <= 1
    BY <1>1, TwoPeers
  <2>. QED
    BY <1>1, <1>3, <2>1 DEF TimerInv, TimerOnlyWhileDisconnected
<1>8. FrameOrder
  <2>1. \A p \in Peers : pipe[InUse][p] = <<>> /\ 1 .. Len(pipe[InUse][p]) = {}
    BY <1>2, <1>3, <1>5
  <2>. QED
    BY <1>1, <1>5, <2>1, TwoPeers DEF FrameOrder
<1>9. ASSUME NEW p \in Peers
      PROVE  StoreAgrees(p) /\ FramesFollow(p) /\ PositionsFollow(p)
  <2>1. Other(p) \in Peers
    BY TwoPeers
  <2>2. delivered[Other(p)] = <<>>
    BY <2>1 DEF Init
  <2>3. Handled(p) = 0
    BY <2>2 DEF Handled
  <2>4. /\ sent[p] = 0 /\ dropped[p] = 0 /\ firstAvailable[p] = 0 /\ lastReceived[Other(p)] = 0
        /\ inconsistent[p] = FALSE
    BY <2>1 DEF Init
  <2>5. FramePos[p][0] = 0
    BY DEF SessionAssumption
  <2>6. StoreAgrees(p)
    BY <2>3, <2>4, <2>5 DEF StoreAgrees
  <2>7. pipe[InUse][p] = <<>> /\ pipe[InUse][Other(p)] = <<>>
    BY <1>2, <1>3, <1>5, <2>1
  <2>8. FramesFollow(p)
    <3>1. Complete(pipe[InUse][Other(p)], 0, 0)
      BY DEF Complete
    <3>. QED
      BY <2>3, <2>4, <2>7, <3>1, NothingOnItsWay DEF FramesFollow
  <2>9. PositionsFollow(p)
    BY <2>7, NothingOnItsWay DEF PositionsFollow
  <2>. QED
    BY <2>6, <2>8, <2>9
<1>. QED
  BY <1>6, <1>7, <1>8, <1>9 DEF OrderInv, StoreOrder

LEMMA OrderStep ==
  ASSUME SessionAssumption, Orderly, SessionInv, ClientInv, OrderInv, [Next]_vars
  PROVE  OrderInv'
<1>1. PipeInv /\ NetType /\ MuxType /\ StoreType /\ ReceivedType
  BY TypeParts
<1>2. ASSUME NEW p \in Peers, SendStreamFrame(p) PROVE OrderInv'
  BY <1>1, <1>2, SendStreamFrameOrder
<1>3. ASSUME NEW p \in Peers, SendKeepAlive(p) PROVE OrderInv'
  BY <1>1, <1>3, SendKeepAliveOrder
<1>4. ASSUME NEW c \in Conns, SessionTimeout(c) PROVE OrderInv'
  BY <1>4, SessionTimeoutOrder
<1>5. ASSUME NEW c \in Conns, NEW p \in Peers, LoseConnection(c, p) \/ PeerClosed(c, p) PROVE OrderInv'
  <2>1. CloseEnd(c, p)
    BY <1>5 DEF LoseConnection, PeerClosed
  <2>. QED
    BY <1>1, <2>1, CloseEndOrder
<1>6. CASE Reconnect
  BY <1>1, <1>6, ReconnectOrder
<1>7. CASE GiveUp
  BY <1>7, SameSession DEF GiveUp, netVars, storeVars, serverVars
<1>8. ~ReplaceSession
  BY DEF ReplaceSession, Orderly
<1>9. ASSUME NEW c \in Conns, NEW p \in Peers, Receive(c, p) PROVE OrderInv'
  <2>1. HandleStreamFrame(c, p) \/ HandleKeepAlive(c, p)
    BY <1>1, <1>9, NoFailure DEF Receive
  <2>. QED
    BY <1>1, <2>1, HandleStreamFrameOrder, HandleKeepAliveOrder
<1>10. ASSUME NEW c \in Conns, Handshake(c) PROVE OrderInv'
  <2>1. HandleResume(c) \/ HandleResumeOk(c)
    BY <1>1, <1>10, TwoPeers, NoFailure DEF Handshake
  <2>. QED
    BY <1>1, <2>1, HandleResumeOrder, HandleResumeOkOrder
<1>11. CASE UNCHANGED vars
  BY <1>11, SameSession DEF vars, netVars, storeVars, clientVars, serverVars
<1>. QED
  BY <1>2, <1>3, <1>4, <1>5, <1>6, <1>7, <1>8, <1>9, <1>10, <1>11 DEF Next

\* The inductive invariant of an orderly session.
ResumeInv == SessionInv /\ ClientInv /\ OrderInv

LEMMA ResumeInvCorrect == ASSUME Orderly PROVE Spec => []ResumeInv
<1>1. Init => ResumeInv
  BY SessionAssumption, TypeInit, ClientInvInit, OrderInit DEF ResumeInv
<1>2. ResumeInv /\ [Next]_vars => ResumeInv'
  BY SessionAssumption, TypeStep, ClientInvStep, OrderStep DEF ResumeInv
<1>. QED
  BY <1>1, <1>2, PTL DEF Spec

LEMMA ResumeInvImplies == ASSUME SessionAssumption PROVE ResumeInv => Delivery /\ SessionConsistent
<1>. SUFFICES ASSUME ResumeInv PROVE Delivery /\ SessionConsistent
  OBVIOUS
<1>1. PipeInv /\ NetType /\ MuxType /\ StoreType /\ ReceivedType
  BY TypeParts DEF ResumeInv
<1>2. OrderInv
  BY DEF ResumeInv
<1>3. ASSUME NEW p \in Peers
      PROVE  /\ Len(delivered[Other(p)]) <= sent[p]
             /\ \A i \in DOMAIN delivered[Other(p)] : delivered[Other(p)][i] = i
             /\ dropped[p] <= Len(delivered[Other(p)])
             /\ firstAvailable[p] = FramePos[p][dropped[p]]
             /\ lastReceived[Other(p)] = FramePos[p][Len(delivered[Other(p)])]
             /\ ~inconsistent[p]
  <2>1. delivered[Other(p)] \in Seq(FrameNumbers)
    BY <1>1, TwoPeers DEF ReceivedType
  <2>2. DOMAIN delivered[Other(p)] = 1 .. Len(delivered[Other(p)])
    BY <2>1, LenProperties
  <2>3. StoreAgrees(p)
    BY <1>2 DEF OrderInv, StoreOrder
  <2>. QED
    BY <2>2, <2>3 DEF StoreAgrees, Handled
<1>4. TimerOnlyWhileDisconnected
  BY <1>2 DEF OrderInv, TimerInv
<1>. QED
  BY <1>3, <1>4 DEF Delivery, ExactlyOnceInOrder, DroppedWasDelivered,
                    SessionConsistent, PositionsAgree, DropToConsistent

\* No stream frame is lost, repeated or reordered across the connections of a
\* session resumed in order, and FrameStore drops only what was handled.
THEOREM DeliveryCorrect == ASSUME Orderly PROVE Spec => []Delivery
<1>1. ResumeInv => Delivery
  BY SessionAssumption, ResumeInvImplies
<1>. QED
  BY <1>1, ResumeInvCorrect, PTL

\* The byte positions of the two ends stand for the same frames, dropTo never
\* throws, and the session timer runs only without a connection.
THEOREM SessionConsistentCorrect == ASSUME Orderly PROVE Spec => []SessionConsistent
<1>1. ResumeInv => SessionConsistent
  BY SessionAssumption, ResumeInvImplies
<1>. QED
  BY <1>1, ResumeInvCorrect, PTL

-----------------------------------------------------------------------------
(* The abstract specification. *)

\* Sends and arrivals are those of frames of streams.
LEMMA NothingArrives ==
  ASSUME SessionAssumption, Orderly, SessionInv, OrderInv, [Next]_vars,
         \A p \in Peers : ~SendStreamFrame(p),
         \A c \in Conns, p \in Peers : ~HandleStreamFrame(c, p)
  PROVE  UNCHANGED <<sent, delivered>>
<1>1. ASSUME NEW p \in Peers, SendKeepAlive(p) PROVE UNCHANGED <<sent, delivered>>
  BY <1>1 DEF SendKeepAlive, storeVars
<1>2. ASSUME NEW c \in Conns, SessionTimeout(c) PROVE UNCHANGED <<sent, delivered>>
  BY <1>2 DEF SessionTimeout, storeVars
<1>3. ASSUME NEW c \in Conns, NEW p \in Peers, LoseConnection(c, p) \/ PeerClosed(c, p)
      PROVE  UNCHANGED <<sent, delivered>>
  BY <1>3 DEF LoseConnection, PeerClosed, CloseEnd, storeVars
<1>4. CASE Reconnect \/ GiveUp
  BY <1>4 DEF Reconnect, GiveUp, storeVars
<1>5. ~ReplaceSession
  BY DEF ReplaceSession, Orderly
<1>6. ASSUME NEW c \in Conns, NEW p \in Peers, Receive(c, p) PROVE UNCHANGED <<sent, delivered>>
  BY <1>6 DEF Receive, HandleKeepAlive, HandleKeepAliveFails, HandleError, storeVars
<1>7. ASSUME NEW c \in Conns, Handshake(c) PROVE UNCHANGED <<sent, delivered>>
  BY <1>7 DEF Handshake, HandleResume, HandleResumeFails, HandleResumeUnknown, HandleResumeOk,
              HandleNotResumeOk, storeVars
<1>8. CASE UNCHANGED vars
  BY <1>8 DEF vars, storeVars
<1>. QED
  BY <1>1, <1>2, <1>3, <1>4, <1>5, <1>6, <1>7, <1>8 DEF Next

LEMMA StepRefines ==
  ASSUME SessionAssumption, Orderly, ResumeInv, [Next]_vars
  PROVE  [Reliable!Next]_<<sent, [p \in Peers |-> delivered[Other(p)]]>>
<1>. DEFINE arrived == [p \in Peers |-> delivered[Other(p)]]
<1>1. PipeInv /\ NetType /\ MuxType /\ StoreType /\ ReceivedType /\ OrderInv
  BY TypeParts DEF ResumeInv
<1>2. ASSUME NEW p \in Peers, SendStreamFrame(p) PROVE Reliable!Send(p)
  <2>1. sent' = [sent EXCEPT ![p] = @ + 1] /\ delivered' = delivered
    BY <1>2 DEF SendStreamFrame
  <2>2. arrived' = arrived
    BY <2>1
  <2>. QED
    BY <2>1, <2>2 DEF Reliable!Send
<1>3. ASSUME NEW c \in Conns, NEW p \in Peers, HandleStreamFrame(c, p) PROVE Reliable!Arrive(Other(p))
  <2>1. /\ Head(pipe[c][p]).n = Len(delivered[p]) + 1
        /\ Len(delivered[p]) < sent[Other(p)]
    BY <1>1, <1>3, HandleStreamFrameOrder
  <2>2. delivered' = [delivered EXCEPT ![p] = Append(@, Len(delivered[p]) + 1)] /\ sent' = sent
    BY <1>3, <2>1 DEF HandleStreamFrame
  <2>3. Other(p) \in Peers /\ Other(Other(p)) = p
    BY TwoPeers
  <2>4. arrived[Other(p)] = delivered[p]
    BY <2>3
  <2>5. arrived' = [arrived EXCEPT ![Other(p)] = Append(@, Len(@) + 1)]
    <3>1. \A r \in Peers : r # Other(p) => Other(r) \in Peers /\ Other(r) # p
      BY TwoPeers
    <3>2. delivered'[p] = Append(delivered[p], Len(delivered[p]) + 1)
      BY <1>1, <2>2 DEF ReceivedType
    <3>3. \A r \in Peers : arrived'[r] = IF r = Other(p) THEN Append(delivered[p], Len(delivered[p]) + 1)
                                         ELSE delivered[Other(r)]
      BY <1>1, <2>2, <2>3, <3>1, <3>2 DEF ReceivedType
    <3>. QED
      BY <2>3, <2>4, <3>3
  <2>6. Len(arrived[Other(p)]) < sent[Other(p)]
    BY <2>1, <2>4
  <2>. QED
    BY <2>2, <2>5, <2>6 DEF Reliable!Arrive
<1>4. CASE \E p \in Peers : SendStreamFrame(p)
  BY <1>2, <1>4 DEF Reliable!Next
<1>5. CASE \E c \in Conns, p \in Peers : HandleStreamFrame(c, p)
  BY <1>3, <1>5, TwoPeers DEF Reliable!Next
<1>6. CASE /\ \A p \in Peers : ~SendStreamFrame(p)
           /\ \A c \in Conns, p \in Peers : ~HandleStreamFrame(c, p)
  <2>1. sent' = sent /\ delivered' = delivered
    BY <1>6, NothingArrives DEF ResumeInv
  <2>2. arrived' = arrived
    BY <2>1
  <2>. QED
    BY <2>1, <2>2
<1>. QED
  BY <1>4, <1>5, <1>6

\* A session resumed in order promises what one connection would: each frame
\* sent arrives once, after the one before it.
THEOREM DeliversReliablyCorrect == ASSUME Orderly PROVE Spec => DeliversReliably
<1>1. Init => Reliable!Init
  BY TwoPeers DEF Init, Reliable!Init
<1>2. ResumeInv /\ [Next]_vars => [Reliable!Next]_<<sent, [p \in Peers |-> delivered[Other(p)]]>>
  BY SessionAssumption, StepRefines
<1>. QED
  BY <1>1, <1>2, ResumeInvCorrect, PTL DEF Spec, DeliversReliably, Reliable!Spec
==============================================================================
