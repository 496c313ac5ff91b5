--------------------------- MODULE RequestStream ---------------------------
(***************************************************************************)
(* One REQUEST_STREAM: RequestStreamRequesterStream at the requester and   *)
(* RequestStreamResponderStream at the responder.                          *)
(***************************************************************************)
EXTENDS StreamPair

Init == InitWith(1 .. MaxDemand)

-----------------------------------------------------------------------------
(* The requester before it has a stream id: it waits for a lease. *)

IsNew == stream[Requester].phase = "new" /\ ~stream[Requester].done

HandleReady ==
  /\ IsNew
  /\ connected[Requester]
  /\ ~stream[Requester].hasExtension
  /\ stream' = [stream EXCEPT ![Requester].phase = "ready"]
  /\ Connect(Requester)
  /\ \E fragmented \in Fragmented :
       Send(Requester, Request(stream[Requester].initialRequestN, fragmented))
  /\ UNCHANGED <<connected, subscriber, publisher>>

\* An extension waits with the request.  No codec serializes it: send throws
\* after the request is out, up to the connection, which closes.
HandleReadyExtension ==
  /\ IsNew
  /\ connected[Requester]
  /\ stream[Requester].hasExtension
  /\ stream' = [stream EXCEPT ![Requester] = [Finished(@) EXCEPT !.phase = "ready"]]
  /\ Connect(Requester)
  /\ connected' = [connected EXCEPT ![Requester] = FALSE]
  /\ \E fragmented \in Fragmented :
       Send(Requester, Request(stream[Requester].initialRequestN, fragmented))
  /\ Signal(<<"error">>)
  /\ UNCHANGED publisher

OnExtensionUnready ==
  /\ IsNew
  /\ ~stream[Requester].hasExtension
  /\ stream' = [stream EXCEPT ![Requester].hasExtension = TRUE]
  /\ UNCHANGED <<registered, connected, pipe, subscriber, publisher>>

HandleReject ==
  /\ IsNew
  /\ Finish(Requester)
  /\ Signal(<<"error">>)
  /\ UNCHANGED <<registered, connected, pipe, publisher>>

\* Mutant: demand is only sent, and nothing can be sent yet.
RequestUnreadyIgnored(n) ==
  /\ IsNew
  /\ stream' = stream
  /\ subscriber' = [subscriber EXCEPT !.demand = @ + n]
  /\ UNCHANGED <<registered, connected, pipe, publisher>>

RequestUnready(n) ==
  /\ IsNew
  /\ stream' = [stream EXCEPT ![Requester].initialRequestN = @ + n]
  /\ subscriber' = [subscriber EXCEPT !.demand = @ + n]
  /\ UNCHANGED <<registered, connected, pipe, publisher>>

CancelUnready ==
  /\ IsNew
  /\ Finish(Requester)
  /\ subscriber' = [subscriber EXCEPT !.cancelled = TRUE]
  /\ UNCHANGED <<registered, connected, pipe, publisher>>

-----------------------------------------------------------------------------
(* The requester after it. *)

IsActive == stream[Requester].phase = "ready" /\ ~stream[Requester].done

\* Mutant: sends the demand added before this call.
RequestMoreStale(n) ==
  /\ IsActive
  /\ subscriber' = [subscriber EXCEPT !.demand = @ + n]
  /\ Send(Requester, <<RequestNFrame(subscriber.demand - stream[Requester].initialRequestN)>>)
  /\ UNCHANGED <<stream, registered, connected, publisher>>

RequestMore(n) ==
  /\ IsActive
  /\ subscriber' = [subscriber EXCEPT !.demand = @ + n]
  /\ Send(Requester, <<RequestNFrame(n)>>)
  /\ UNCHANGED <<stream, registered, connected, publisher>>

\* Mutant: the responder is not told.
CancelQuietly ==
  /\ IsActive
  /\ Finish(Requester)
  /\ subscriber' = [subscriber EXCEPT !.cancelled = TRUE]
  /\ Send(Requester, <<>>)
  /\ Disconnect(Requester, TRUE)
  /\ UNCHANGED <<connected, publisher>>

Cancel ==
  /\ IsActive
  /\ Finish(Requester)
  /\ subscriber' = [subscriber EXCEPT !.cancelled = TRUE]
  /\ Send(Requester, <<CancelFrame>>)
  /\ Disconnect(Requester, TRUE)
  /\ UNCHANGED <<connected, publisher>>

HandleFragment ==
  /\ Routed(Requester, "PAYLOAD")
  /\ Head(pipe[Requester]).follows
  /\ stream' = [stream EXCEPT ![Requester].hasFragments = TRUE]
  /\ Reply(Requester, <<>>)
  /\ UNCHANGED <<registered, connected, subscriber, publisher>>

\* Mutant: COMPLETE is looked at before NEXT.
HandlePayloadSkipsLast ==
  LET frame == Head(pipe[Requester]) IN
  /\ Routed(Requester, "PAYLOAD")
  /\ ~frame.follows
  /\ stream' = [stream EXCEPT ![Requester].done = @ \/ frame.complete,
                              ![Requester].hasFragments = @ /\ ~frame.next]
  /\ Disconnect(Requester, frame.complete)
  /\ Signal(IF frame.complete THEN <<"complete">> ELSE <<"next">>)
  /\ Reply(Requester, <<>>)
  /\ UNCHANGED <<connected, publisher>>

\* The last or only frame of a payload, or a bare COMPLETE: onNext(payload,
\* true) is the last item and the completion in one.
HandlePayload ==
  LET frame == Head(pipe[Requester]) IN
  /\ Routed(Requester, "PAYLOAD")
  /\ ~frame.follows
  /\ stream' = [stream EXCEPT ![Requester].done = @ \/ frame.complete,
                              ![Requester].hasFragments = @ /\ ~frame.next]
  /\ Disconnect(Requester, frame.complete)
  /\ Signal((IF frame.next THEN <<"next">> ELSE <<>>)
            \o (IF frame.complete THEN <<"complete">> ELSE <<>>))
  /\ Reply(Requester, <<>>)
  /\ UNCHANGED <<connected, publisher>>

HandleError ==
  /\ Routed(Requester, "ERROR")
  /\ Finish(Requester)
  /\ Disconnect(Requester, TRUE)
  /\ Signal(<<"error">>)
  /\ Reply(Requester, <<>>)
  /\ UNCHANGED <<connected, publisher>>

CloseRequester ==
  /\ connected[Requester]
  /\ Hangup(Requester)
  /\ IF registered[Requester] THEN Finish(Requester) /\ Signal(<<"error">>)
     ELSE UNCHANGED <<stream, subscriber>>
  /\ UNCHANGED <<registered, publisher>>

-----------------------------------------------------------------------------
(* The responder. *)

HandleRequest ==
  LET frame == Head(pipe[Responder]) IN
  /\ Received(Responder, "REQUEST")
  /\ ~frame.follows
  /\ Connect(Responder)
  /\ CallHandler(frame.requestN)
  /\ UNCHANGED <<connected, subscriber>>

HandleFirstFragment ==
  LET frame == Head(pipe[Responder]) IN
  /\ Received(Responder, "REQUEST")
  /\ frame.follows
  /\ Connect(Responder)
  /\ stream' = [stream EXCEPT ![Responder].phase = "assembling", ![Responder].hasFragments = TRUE,
                              ![Responder].initialRequestN = frame.requestN]
  /\ Reply(Responder, <<>>)
  /\ UNCHANGED <<connected, subscriber, publisher>>

HandleLastFragment ==
  /\ Routed(Responder, "PAYLOAD")
  /\ stream[Responder].phase = "assembling"
  /\ CallHandler(stream[Responder].initialRequestN)
  /\ UNCHANGED <<registered, connected, subscriber>>

\* The responder has no handler for streams.
RejectRequest ==
  /\ Received(Responder, "REQUEST")
  /\ stream' = [stream EXCEPT ![Responder].phase = "rejected"]
  /\ Reply(Responder, <<ErrorFrame>>)
  /\ UNCHANGED <<registered, connected, subscriber, publisher>>

HandlerReturns ==
  /\ stream[Responder].phase = "handler"
  /\ stream' = [stream EXCEPT ![Responder].phase = "ready"]
  /\ UNCHANGED <<registered, connected, pipe, subscriber, publisher>>

\* A handler that throws fails its stream, unless it had ended it.
HandlerThrows ==
  /\ stream[Responder].phase = "handler"
  /\ stream' = [stream EXCEPT ![Responder].phase = "failed", ![Responder].done = TRUE]
  /\ Disconnect(Responder, ~stream[Responder].done)
  /\ Send(Responder, IF stream[Responder].done THEN <<>> ELSE <<ErrorFrame>>)
  /\ UNCHANGED <<connected, subscriber, publisher>>

\* While there is no receiver, or in the middle of a payload, this frame would
\* fail the stream: see NoUnexpectedFrame.
HandleRequestN ==
  /\ Routed(Responder, "REQUEST_N")
  /\ stream[Responder].phase = "ready"
  /\ ~stream[Responder].hasFragments
  /\ publisher' = [publisher EXCEPT !.credit = @ + Head(pipe[Responder]).requestN]
  /\ Reply(Responder, <<>>)
  /\ UNCHANGED <<stream, registered, connected, subscriber>>

HandleCancel ==
  /\ Routed(Responder, "CANCEL")
  /\ Finish(Responder)
  /\ CancelPublisher(stream[Responder].phase = "ready")
  /\ Disconnect(Responder, TRUE)
  /\ Reply(Responder, <<>>)
  /\ UNCHANGED <<connected, subscriber>>

\* close() does not set done: what the publisher emits later finds a closed
\* connection.
CloseResponder ==
  /\ connected[Responder]
  /\ stream[Responder].phase # "handler"
  /\ Hangup(Responder)
  /\ stream' = [stream EXCEPT ![Responder].hasFragments = @ /\ ~registered[Responder]]
  /\ CancelPublisher(registered[Responder] /\ stream[Responder].phase = "ready")
  /\ UNCHANGED <<registered, subscriber>>

-----------------------------------------------------------------------------
(* The publisher. *)

CanEmit == stream[Responder].phase \in {"handler", "ready"} /\ ~stream[Responder].done

\* A publisher sends no more items than it was asked for.
OnNext(isCompletion, fragmented) ==
  /\ CanEmit
  /\ publisher.published < publisher.credit
  /\ publisher' = [publisher EXCEPT !.published = @ + 1, !.ended = isCompletion]
  /\ stream' = [stream EXCEPT ![Responder].done = isCompletion]
  /\ Send(Responder, Payload(isCompletion, fragmented))
  /\ Disconnect(Responder, isCompletion)
  /\ UNCHANGED <<connected, subscriber>>

\* Mutant: the stream stays in the registry.
OnCompleteStays ==
  /\ CanEmit
  /\ publisher' = [publisher EXCEPT !.ended = TRUE]
  /\ stream' = [stream EXCEPT ![Responder].done = TRUE]
  /\ Send(Responder, <<PayloadFrame(FALSE, TRUE, FALSE)>>)
  /\ UNCHANGED <<registered, connected, subscriber>>

OnComplete ==
  /\ CanEmit
  /\ publisher' = [publisher EXCEPT !.ended = TRUE]
  /\ stream' = [stream EXCEPT ![Responder].done = TRUE]
  /\ Send(Responder, <<PayloadFrame(FALSE, TRUE, FALSE)>>)
  /\ Disconnect(Responder, TRUE)
  /\ UNCHANGED <<connected, subscriber>>

OnError ==
  /\ CanEmit
  /\ publisher' = [publisher EXCEPT !.ended = TRUE]
  /\ stream' = [stream EXCEPT ![Responder].done = TRUE]
  /\ Send(Responder, <<ErrorFrame>>)
  /\ Disconnect(Responder, TRUE)
  /\ UNCHANGED <<connected, subscriber>>

-----------------------------------------------------------------------------
Subscriber ==
  \/ HandleReady
  \/ HandleReadyExtension
  \/ OnExtensionUnready
  \/ HandleReject
  \/ \E n \in 1 .. MaxDemand - subscriber.demand : RequestUnready(n) \/ RequestMore(n)
  \/ CancelUnready
  \/ Cancel

Publisher ==
  \/ \E isCompletion \in BOOLEAN, fragmented \in Fragmented : OnNext(isCompletion, fragmented)
  \/ OnComplete
  \/ OnError

Receive(p) ==
  \/ DropFrame(p)
  \/ p = Requester /\ (HandleFragment \/ HandlePayload \/ HandleError)
  \/ p = Responder /\ (HandleRequest \/ HandleFirstFragment \/ HandleLastFragment
                       \/ RejectRequest \/ HandleRequestN \/ HandleCancel)

Handler == HandlerReturns \/ HandlerThrows

Next ==
  \/ Subscriber
  \/ Publisher
  \/ \E p \in Peers : Receive(p)
  \/ Handler
  \/ CloseRequester
  \/ CloseResponder

\* What the event loop of an end runs without its application.
EventLoop(p) ==
  \/ Receive(p)
  \/ p = Requester /\ ~connected[Responder] /\ CloseRequester
  \/ p = Responder /\ ~connected[Requester] /\ CloseResponder
  \/ p = Responder /\ Handler
=============================================================================
