----------------------------- MODULE RequestFnF -----------------------------
(***************************************************************************)
(* One REQUEST_FNF: RequestFnFRequesterStream at the requester and         *)
(* RequestFnfResponderStream at the responder.  The requester's stream     *)
(* never enters a registry; the responder's does only while the request    *)
(* arrives in fragments.                                                   *)
(***************************************************************************)
EXTENDS StreamPair

Init == InitWith({0})

IsNew == stream[Requester].phase = "new" /\ ~stream[Requester].done

\* The request is complete when it is sent.
HandleReady ==
  /\ IsNew
  /\ connected[Requester]
  /\ stream' = [stream EXCEPT ![Requester].phase = "ready", ![Requester].done = TRUE]
  /\ \E fragmented \in Fragmented : Send(Requester, Request(0, fragmented))
  /\ Signal(<<"complete">>)
  /\ UNCHANGED <<registered, connected, publisher>>

HandleReject ==
  /\ IsNew
  /\ Finish(Requester)
  /\ Signal(<<"error">>)
  /\ UNCHANGED <<registered, connected, pipe, publisher>>

\* There is nothing to cancel once the request is sent.
Cancel ==
  /\ IsNew
  /\ Finish(Requester)
  /\ subscriber' = [subscriber EXCEPT !.cancelled = TRUE]
  /\ UNCHANGED <<registered, connected, pipe, publisher>>

CloseRequester ==
  /\ connected[Requester]
  /\ Hangup(Requester)
  /\ UNCHANGED <<stream, registered, subscriber, publisher>>

HandleRequest ==
  /\ Received(Responder, "REQUEST")
  /\ ~Head(pipe[Responder]).follows
  /\ CallHandler(0)
  /\ UNCHANGED <<registered, connected, subscriber>>

HandleFirstFragment ==
  /\ Received(Responder, "REQUEST")
  /\ Head(pipe[Responder]).follows
  /\ Connect(Responder)
  /\ stream' = [stream EXCEPT ![Responder].phase = "assembling", ![Responder].hasFragments = TRUE]
  /\ Reply(Responder, <<>>)
  /\ UNCHANGED <<connected, subscriber, publisher>>

\* Mutant: the stream is left in the registry.
HandleLastFragmentStays ==
  /\ Routed(Responder, "PAYLOAD")
  /\ stream[Responder].phase = "assembling"
  /\ Disconnect(Responder, FALSE)
  /\ CallHandler(0)
  /\ UNCHANGED <<connected, subscriber>>

HandleLastFragment ==
  /\ Routed(Responder, "PAYLOAD")
  /\ stream[Responder].phase = "assembling"
  /\ Disconnect(Responder, TRUE)
  /\ CallHandler(0)
  /\ UNCHANGED <<connected, subscriber>>

\* A responder that has no handler for requests to forget says nothing.
IgnoreRequest ==
  /\ Received(Responder, "REQUEST")
  /\ stream' = [stream EXCEPT ![Responder].phase = "rejected"]
  /\ Reply(Responder, <<>>)
  /\ UNCHANGED <<registered, connected, subscriber, publisher>>

\* The handler returns, or throws, which is ignored.
HandlerEnds(phase) ==
  /\ stream[Responder].phase = "handler"
  /\ stream' = [stream EXCEPT ![Responder].phase = phase]
  /\ UNCHANGED <<registered, connected, pipe, subscriber, publisher>>

\* Only a stream whose request is still in fragments is there to be closed.
CloseResponder ==
  /\ connected[Responder]
  /\ stream[Responder].phase # "handler"
  /\ Hangup(Responder)
  /\ IF registered[Responder]
     THEN Finish(Responder) /\ CancelPublisher(stream[Responder].phase = "ready")
     ELSE UNCHANGED <<stream, publisher>>
  /\ UNCHANGED <<registered, subscriber>>

-----------------------------------------------------------------------------
Subscriber == HandleReady \/ HandleReject \/ Cancel

Receive(p) ==
  \/ DropFrame(p)
  \/ p = Responder /\ (HandleRequest \/ HandleFirstFragment \/ HandleLastFragment \/ IgnoreRequest)

Handler == \E phase \in {"ready", "failed"} : HandlerEnds(phase)

Next ==
  \/ Subscriber
  \/ \E p \in Peers : Receive(p)
  \/ Handler
  \/ CloseRequester
  \/ CloseResponder

\* What the event loop of an end runs without its application.
EventLoop(p) ==
  \/ Receive(p)
  \/ p = Requester /\ ~connected[Responder] /\ CloseRequester
  \/ p = Responder /\ ~connected[Requester] /\ CloseResponder
  \/ p = Responder /\ Handler
=============================================================================
