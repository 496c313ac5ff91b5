----------------------------- MODULE Connection -----------------------------
(***************************************************************************)
(* A connection from RSocketConnector.connect() to its close: the setup    *)
(* and its rejection, the acceptor of the server that takes its time, the  *)
(* keepalive of both ends, a link that loses everything or is reset, and   *)
(* the second connection of a resumable session, whose own handshake is in *)
(* ResumableSession.                                                       *)
(***************************************************************************)
EXTENDS KeepAlive, Sequences, Sums

CONSTANTS
  Configs,       \* how the two ends may be configured
  MaxRequests,   \* how many requests the client makes
  MaxResumes     \* how often a session is resumed

Configurations ==
  [clientLease : BOOLEAN, serverLease : BOOLEAN, resume : BOOLEAN, sessionStore : BOOLEAN,
   serverSideKeepAlive : BOOLEAN]

ASSUME ConnectionAssumption ==
  Configs \subseteq Configurations /\ {MaxRequests, MaxResumes} \subseteq Nat

Client == "client"
Server == "server"
Peers == {Client, Server}
Other(p) == IF p = Client THEN Server ELSE Client

VARIABLES
  config,        \* what both ends were configured with
  listener,      \* of the server transport: "binding", "listening", "closed" or "failed"
  conn,          \* each end: "none", "open", "closed", or "failed" to connect
  reason,        \* what each end was closed for
  accepting,     \* the acceptor of the server: "none", "awaited" or "done"
  installed,     \* whether the end has its frame handlers and onClose callback
  responderCloses,  \* how often close() of the end's responder was called
  ends,          \* the keepalive handler and sender of each end
  pipe,          \* the frames on their way to each end, oldest first
  held,          \* what came with the SETUP frame in the first chunk
  cut,           \* the link loses everything from now on
  stalled,       \* a frame has waited for longer than Delay
  requests,      \* how many requests were sent, and how many were dispatched
  resumes        \* how often the session was resumed

vars == <<config, listener, conn, reason, accepting, installed, responderCloses, ends,
          pipe, held, cut, stalled, requests, resumes>>

Init ==
  /\ config \in Configs
  /\ listener = "binding"
  /\ conn = [p \in Peers |-> "none"] /\ reason = [p \in Peers |-> "none"]
  /\ accepting = "none"
  /\ installed = [p \in Peers |-> FALSE]
  /\ responderCloses = [p \in Peers |-> 0]
  /\ ends = [p \in Peers |-> [handler |-> NewHandler, sender |-> NewSender]]
  /\ pipe = [p \in Peers |-> <<>>] /\ held = <<>>
  /\ cut = FALSE /\ stalled = FALSE
  /\ requests = [sent |-> 0, dispatched |-> 0] /\ resumes = 0

-----------------------------------------------------------------------------
Frame(type) == [type |-> type, respond |-> FALSE, age |-> 0]
KeepAliveFrame(respond) == [type |-> "KEEPALIVE", respond |-> respond, age |-> 0]
Fin == Frame("FIN")      \* what the end of a socket looks like to its other end

\* The pipes after an end has sent frames.  A closed socket takes none.
Sent(p, frames) ==
  IF cut \/ conn[Other(p)] = "closed" THEN pipe ELSE [pipe EXCEPT ![Other(p)] = @ \o frames]

Started(end, sends) ==
  [handler |-> start(end.handler),
   sender |-> IF sends THEN startSender(end.sender) ELSE end.sender]
Paused(end) == [handler |-> pause(end.handler), sender |-> pauseSender(end.sender)]
Closed(end) == [handler |-> close(end.handler), sender |-> closeSender]

\* An end's connection closes: its socket ends once it has sent the last
\* frames, and its callbacks run.  A session pauses; then those of its first
\* connection close the keepalive and the responder.  An end still without
\* callbacks runs them when it gets them.
CloseWith(p, last, why) ==
  /\ conn' = [conn EXCEPT ![p] = "closed"]
  /\ reason' = [reason EXCEPT ![p] = why]
  /\ pipe' = [Sent(p, last \o <<Fin>>) EXCEPT ![p] = <<>>]
  /\ ends' = [ends EXCEPT ![p] =
       IF ~installed[p] THEN @
       ELSE LET end == IF config.resume THEN Paused(@) ELSE @
            IN IF resumes = 0 THEN Closed(end) ELSE end]
  /\ responderCloses' = [responderCloses EXCEPT ![p] =
       IF installed[p] /\ resumes = 0 THEN @ + 1 ELSE @]

-----------------------------------------------------------------------------
\* The server transport binds or does not; closed, it takes no more connections.
Bind ==
  /\ listener = "binding" /\ listener' \in {"listening", "failed"}
  /\ UNCHANGED <<config, conn, reason, accepting, installed, responderCloses, ends, pipe,
                 held, cut, stalled, requests, resumes>>

CloseListener ==
  /\ listener = "listening" /\ listener' = "closed" /\ conn[Client] = "none"
  /\ UNCHANGED <<config, conn, reason, accepting, installed, responderCloses, ends, pipe,
                 held, cut, stalled, requests, resumes>>

\* RSocketConnector.connect(): as soon as there is a connection its handlers
\* are installed, SETUP is sent and keepalive starts.
Connect ==
  /\ conn[Client] = "none" /\ listener = "listening"
  /\ conn' = [conn EXCEPT ![Client] = "open"]
  /\ installed' = [installed EXCEPT ![Client] = TRUE]
  /\ ends' = [ends EXCEPT ![Client] = Started(@, TRUE)]
  /\ pipe' = Sent(Client, <<Frame("SETUP")>>)
  /\ UNCHANGED <<config, listener, reason, accepting, responderCloses, held, cut, stalled,
                 requests, resumes>>

ConnectFails ==
  /\ conn[Client] = "none" /\ listener \in {"closed", "failed"}
  /\ conn' = [conn EXCEPT ![Client] = "failed"]
  /\ UNCHANGED <<config, listener, reason, accepting, installed, responderCloses, ends, pipe,
                 held, cut, stalled, requests, resumes>>

Request ==
  /\ conn[Client] = "open" /\ requests.sent < MaxRequests
  /\ requests' = [requests EXCEPT !.sent = @ + 1]
  /\ pipe' = Sent(Client, <<Frame("REQUEST")>>)
  /\ UNCHANGED <<config, listener, conn, reason, accepting, installed, responderCloses, ends,
                 held, cut, stalled, resumes>>

-----------------------------------------------------------------------------
\* Leases are for both or for none.
LeaseUnexpected == config.serverLease /\ ~config.clientLease
LeasesDiffer == config.clientLease # config.serverLease
ResumeUnsupported == config.resume /\ ~config.sessionStore

\* The first data of the server's connection: SETUP, and what came with it.
\* The factory of the multiplexer and the acceptor reject what they cannot do;
\* the acceptor of the application is then awaited, with the socket paused.
FirstData(n) ==
  /\ conn[Server] = "none" /\ n <= Len(pipe[Server])
  /\ \A i \in 1 .. n : pipe[Server][i].type # "FIN"
  /\ LET rest == SubSeq(pipe[Server], n + 1, Len(pipe[Server]))
         code == "REJECTED_SETUP"
     IN IF ResumeUnsupported \/ LeasesDiffer
        THEN /\ conn' = [conn EXCEPT ![Server] = "closed"]
             /\ reason' = [reason EXCEPT ![Server] = code]
             /\ pipe' = [Sent(Server, <<Frame(code), Fin>>) EXCEPT ![Server] = <<>>]
             /\ UNCHANGED <<accepting, held>>
        ELSE /\ conn' = [conn EXCEPT ![Server] = "open"]
             /\ pipe' = [pipe EXCEPT ![Server] = rest]
             /\ accepting' = "awaited"
             /\ held' = SubSeq(pipe[Server], 2, n)
             /\ UNCHANGED reason
  /\ UNCHANGED <<config, listener, installed, responderCloses, ends, cut, stalled, requests,
                 resumes>>

\* One answer for each keepalive frame that asks for one; and how many of some
\* frames are requests.
Asked(frames) == Cardinality({i \in DOMAIN frames : frames[i].type = "KEEPALIVE" /\ frames[i].respond})
Answers(frames) == [i \in 1 .. Asked(frames) |-> KeepAliveFrame(FALSE)]

RequestsIn(frames) == Total([i \in DOMAIN frames |-> IF frames[i].type = "REQUEST" THEN 1 ELSE 0])

\* The acceptor returns a responder.  onClose() calls back at once when the
\* connection has closed meanwhile, and what was closed does not start.  The
\* rest of the first chunk is handled now, and the socket goes on.
AcceptorReturns ==
  /\ accepting = "awaited" /\ accepting' = "done" /\ held' = <<>>
  /\ installed' = [installed EXCEPT ![Server] = TRUE]
  /\ LET end == IF conn[Server] = "closed" THEN Closed(ends[Server]) ELSE ends[Server]
     IN ends' = [ends EXCEPT ![Server] = Started(end, config.serverSideKeepAlive)]
  /\ responderCloses' = [responderCloses EXCEPT ![Server] =
                           IF conn[Server] = "closed" THEN @ + 1 ELSE @]
  /\ pipe' = IF conn[Server] = "closed" THEN pipe ELSE Sent(Server, Answers(held))
  /\ requests' = [requests EXCEPT !.dispatched = @ + RequestsIn(held)]
  /\ UNCHANGED <<config, listener, conn, reason, cut, stalled, resumes>>

\* It throws: the client is told and the connection closed, if it still is
\* open.  The rest of the first chunk finds no handlers.
AcceptorThrows ==
  /\ accepting = "awaited" /\ accepting' = "done" /\ held' = <<>>
  /\ IF conn[Server] = "closed" THEN UNCHANGED <<conn, reason, pipe, ends, responderCloses>>
     ELSE CloseWith(Server, <<Frame("REJECTED_SETUP")>>, "REJECTED_SETUP")
  /\ UNCHANGED <<config, listener, installed, cut, stalled, requests, resumes>>

-----------------------------------------------------------------------------
\* An end handles the oldest frame on its way.
Listens(p) == conn[p] = "open" /\ installed[p]

Handle(p) ==
  /\ Listens(p) /\ pipe[p] # <<>>
  /\ LET frame == Head(pipe[p])
         taken == [pipe EXCEPT ![p] = Tail(@)]
     IN CASE frame.type = "KEEPALIVE" ->
               /\ ends' = [ends EXCEPT ![p].handler = handle(@)]
               /\ pipe' = IF cut THEN taken
                          ELSE [taken EXCEPT ![Other(p)] = @ \o Answers(<<frame>>)]
               /\ UNCHANGED <<conn, reason, responderCloses, requests>>
          [] frame.type = "REQUEST" ->
               /\ requests' = [requests EXCEPT !.dispatched = @ + 1]
               /\ pipe' = taken
               /\ UNCHANGED <<conn, reason, responderCloses, ends>>
          [] frame.type = "FIN" -> CloseWith(p, <<>>, "peer") /\ UNCHANGED requests
          [] OTHER -> CloseWith(p, <<>>, frame.type) /\ UNCHANGED requests
  /\ UNCHANGED <<config, listener, accepting, installed, held, cut, stalled, resumes>>

\* The application closes an end, or its socket fails, with what is on its way
\* to it lost.  While the acceptor is awaited too.
Close(p, why) ==
  /\ conn[p] = "open"
  /\ CloseWith(p, <<>>, why)
  /\ UNCHANGED <<config, listener, accepting, installed, held, cut, stalled, requests, resumes>>

Cut ==
  /\ ~cut /\ cut' = TRUE /\ "open" \in {conn[p] : p \in Peers}
  /\ pipe' = [p \in Peers |-> <<>>]
  /\ UNCHANGED <<config, listener, conn, reason, accepting, installed, responderCloses, ends,
                 held, stalled, requests, resumes>>

\* The session is resumed over a second connection.  Its handlers are told to
\* start again.
Resume ==
  /\ config.resume /\ resumes < MaxResumes
  /\ \A p \in Peers : conn[p] = "closed" /\ installed[p] /\ reason[p] \in {"socket", "peer", "keepalive"}
  /\ resumes' = resumes + 1
  /\ conn' = [p \in Peers |-> "open"] /\ reason' = [p \in Peers |-> "none"]
  /\ ends' = [p \in Peers |-> Started(ends[p], p = Client \/ config.serverSideKeepAlive)]
  /\ pipe' = [p \in Peers |-> <<>>] /\ cut' = FALSE /\ stalled' = FALSE
  /\ UNCHANGED <<config, listener, accepting, installed, responderCloses, held, requests>>

-----------------------------------------------------------------------------
\* The interval of a sender has passed.
SendKeepAlive(p) ==
  /\ Due(ends[p].sender.timer)
  /\ ends' = [ends EXCEPT ![p].sender = nextInterval(@)]
  /\ pipe' = IF conn[p] = "open" THEN Sent(p, <<KeepAliveFrame(TRUE)>>) ELSE pipe
  /\ UNCHANGED <<config, listener, conn, reason, accepting, installed, responderCloses, held,
                 cut, stalled, requests, resumes>>

\* The timeout of a handler is looked at.
TimeoutCheck(p) ==
  /\ Due(ends[p].handler.timer)
  /\ IF TimedOut(ends[p].handler) THEN CloseWith(p, <<>>, "keepalive")
     ELSE /\ ends' = [ends EXCEPT ![p].handler = rearm(@)]
          /\ UNCHANGED <<conn, reason, pipe, responderCloses>>
  /\ UNCHANGED <<config, listener, accepting, installed, held, cut, stalled, requests, resumes>>

\* Time passes, unless a timer or a frame is as late as it may be.  Frames to a
\* server that awaits its acceptor wait as long as it does.
Late(p) == \E i \in DOMAIN pipe[p] : pipe[p][i].age >= Delay

Pass ==
  /\ \A p \in Peers : InTime(ends[p])
  /\ \A p \in Peers : Late(p) => p = Server /\ ~installed[p]
  /\ stalled' = (stalled \/ \E p \in Peers : Late(p) \/ held # <<>>)
  /\ ends' = [p \in Peers |-> Tick(ends[p])]
  /\ pipe' = [p \in Peers |-> [i \in DOMAIN pipe[p] |->
                [pipe[p][i] EXCEPT !.age = IF @ < Delay THEN @ + 1 ELSE @]]]
  /\ UNCHANGED <<config, listener, conn, reason, accepting, installed, responderCloses, held,
                 cut, requests, resumes>>

Next ==
  \/ Bind \/ CloseListener
  \/ Connect \/ ConnectFails \/ Request
  \/ \E n \in 1 .. MaxRequests + 1 : FirstData(n)
  \/ AcceptorReturns \/ AcceptorThrows
  \/ \E p \in Peers : \/ Handle(p)
                      \/ SendKeepAlive(p)
                      \/ TimeoutCheck(p)
                      \/ \E why \in {"application", "socket"} : Close(p, why)
  \/ Cut \/ Resume
  \/ Pass

Spec == Init /\ [][Next]_vars

\* The transport answers the connector, an event loop runs what is due and what
\* has arrived, the acceptor answers and time goes on.
FairSpec ==
  /\ Spec
  /\ WF_vars(Bind) /\ WF_vars(Connect \/ ConnectFails)
  /\ WF_vars(\E n \in 1 .. MaxRequests + 1 : FirstData(n))
  /\ WF_vars(AcceptorReturns \/ AcceptorThrows)
  /\ \A p \in Peers : WF_vars(Handle(p)) /\ WF_vars(SendKeepAlive(p)) /\ WF_vars(TimeoutCheck(p))
  /\ WF_vars(Pass)

-----------------------------------------------------------------------------
\* Both ends serve a connection only with the same idea of leases and of
\* resumption.  A client whose setup is rejected, by the server or by its
\* acceptor, is told so before the socket ends.  The requests a client makes
\* before it is accepted are handled when it is, whether they came with SETUP
\* or while the acceptor was awaited, and none before.
SetupAgreed ==
  /\ (\A p \in Peers : conn[p] = "open") =>
       config.clientLease = config.serverLease /\ (config.resume => config.sessionStore)
  /\ reason[Server] = "REJECTED_SETUP" => reason[Client] # "peer"
  /\ requests.dispatched > 0 => installed[Server]
  /\ conn[Client] = "open" /\ conn[Server] # "closed" /\ resumes = 0 /\ ~cut =>
       requests.sent = requests.dispatched + RequestsIn(pipe[Server]) + RequestsIn(held)

\* Whenever it closes, before, while or after the acceptor is awaited, a
\* connection leaves no timer behind that would go on forever; and the
\* responder of an end that got its handlers is closed once, with the first
\* connection of the session.
CloseIsComplete ==
  \A p \in Peers :
    /\ conn[p] # "open" => Unarmed(ends[p])
    /\ responderCloses[p] = IF installed[p] /\ (conn[p] = "closed" \/ resumes > 0) THEN 1 ELSE 0

\* Keepalive closes a connection only for a reason: as long as the link works
\* and the acceptor does not keep frames waiting, no end gives the other up.
\* And it does close it: the first connection of a session is watched from the
\* moment it has its handlers, and no end waits longer than Lifetime, a check
\* that was put off and the lateness of timers.
KeepAliveSound ==
  \A p \in Peers :
    /\ reason[p] = "keepalive" => cut \/ stalled
    /\ conn[p] = "open" /\ installed[p] /\ resumes = 0 => ends[p].handler.state = "Running"
    /\ ends[p].handler.idle <= LongestIdle

\* A client that has connected is served or closed in the end, and once the
\* link is cut both ends of the first connection of a session close.
EventuallySettled ==
  /\ conn[Client] = "open" ~> installed[Server] \/ conn[Client] # "open"
  /\ \A p \in Peers : cut /\ conn[p] = "open" /\ resumes = 0 ~> conn[p] = "closed"

\* What a test of KeepAliveHandler says of every connection: it is closed when
\* no keepalive frames come any more.  The connection a session was resumed over
\* is not: nothing watches it.
DeadLinkCloses == \A p \in Peers : cut /\ conn[p] = "open" ~> conn[p] # "open"
=============================================================================
