-------------------------- MODULE RequestResponse --------------------------
(***************************************************************************)
(* One REQUEST_RESPONSE: RequestResponseRequesterStream at the requester   *)
(* and RequestResponseResponderStream at the responder.  There is no       *)
(* demand: the publisher answers with one item, with none, or fails.       *)
(***************************************************************************)
EXTENDS StreamPair

Init == InitWith({0})

-----------------------------------------------------------------------------
(* The requester. *)

IsNew == stream[Requester].phase = "new" /\ ~stream[Requester].done

HandleReady ==
  /\ IsNew
  /\ connected[Requester]
  /\ ~stream[Requester].hasExtension
  /\ stream' = [stream EXCEPT ![Requester].phase = "ready"]
  /\ Connect(Requester)
  /\ \E fragmented \in Fragmented : Send(Requester, Request(0, fragmented))
  /\ UNCHANGED <<connected, subscriber, publisher>>

\* As for a stream, the extension throws and the connection closes.
HandleReadyExtension ==
  /\ IsNew
  /\ connected[Requester]
  /\ stream[Requester].hasExtension
  /\ stream' = [stream EXCEPT ![Requester] = [Finished(@) EXCEPT !.phase = "ready"]]
  /\ Connect(Requester)
  /\ connected' = [connected EXCEPT ![Requester] = FALSE]
  /\ \E fragmented \in Fragmented : Send(Requester, Request(0, fragmented))
  /\ Signal(<<"error">>)
  /\ UNCHANGED publisher

OnExtensionUnready ==
  /\ IsNew
  /\ ~stream[Requester].hasExtension
  /\ stream' = [stream EXCEPT ![Requester].hasExtension = TRUE]
  /\ UNCHANGED <<registered, connected, pipe, subscriber, publisher>>

HandleReject ==
  /\ IsNew
  /\ Finish(Requester)
  /\ Signal(<<"error">>)
  /\ UNCHANGED <<registered, connected, pipe, publisher>>

\* Before there is a stream id the request is taken from the lease queue, after
\* it the responder is told.
Cancel ==
  /\ ~stream[Requester].done
  /\ Finish(Requester)
  /\ subscriber' = [subscriber EXCEPT !.cancelled = TRUE]
  /\ Send(Requester, IF IsNew THEN <<>> ELSE <<CancelFrame>>)
  /\ Disconnect(Requester, TRUE)
  /\ UNCHANGED <<connected, publisher>>

HandleFragment ==
  /\ Routed(Requester, "PAYLOAD")
  /\ Head(pipe[Requester]).follows
  /\ stream' = [stream EXCEPT ![Requester].hasFragments = TRUE]
  /\ Reply(Requester, <<>>)
  /\ UNCHANGED <<registered, connected, subscriber, publisher>>

\* Every whole payload ends the stream, whether or not it carries COMPLETE.
HandlePayload ==
  LET frame == Head(pipe[Requester]) IN
  /\ Routed(Requester, "PAYLOAD")
  /\ ~frame.follows
  /\ stream' = [stream EXCEPT ![Requester].done = TRUE, ![Requester].hasFragments = @ /\ ~frame.next]
  /\ Disconnect(Requester, TRUE)
  /\ Signal(IF frame.next THEN <<"next", "complete">> ELSE <<"complete">>)
  /\ Reply(Requester, <<>>)
  /\ UNCHANGED <<connected, publisher>>

HandleError ==
  /\ Routed(Requester, "ERROR")
  /\ Finish(Requester)
  /\ Disconnect(Requester, TRUE)
  /\ Signal(<<"error">>)
  /\ Reply(Requester, <<>>)
  /\ UNCHANGED <<connected, publisher>>

CloseRequester ==
  /\ connected[Requester]
  /\ Hangup(Requester)
  /\ IF registered[Requester] THEN Finish(Requester) /\ Signal(<<"error">>)
     ELSE UNCHANGED <<stream, subscriber>>
  /\ UNCHANGED <<registered, publisher>>

-----------------------------------------------------------------------------
(* The responder. *)

HandleRequest ==
  /\ Received(Responder, "REQUEST")
  /\ ~Head(pipe[Responder]).follows
  /\ Connect(Responder)
  /\ CallHandler(1)
  /\ UNCHANGED <<connected, subscriber>>

HandleFirstFragment ==
  /\ Received(Responder, "REQUEST")
  /\ Head(pipe[Responder]).follows
  /\ Connect(Responder)
  /\ stream' = [stream EXCEPT ![Responder].phase = "assembling", ![Responder].hasFragments = TRUE]
  /\ Reply(Responder, <<>>)
  /\ UNCHANGED <<connected, subscriber, publisher>>

HandleLastFragment ==
  /\ Routed(Responder, "PAYLOAD")
  /\ stream[Responder].phase = "assembling"
  /\ CallHandler(1)
  /\ UNCHANGED <<registered, connected, subscriber>>

\* The responder has no handler for requests.
RejectRequest ==
  /\ Received(Responder, "REQUEST")
  /\ stream' = [stream EXCEPT ![Responder].phase = "rejected"]
  /\ Reply(Responder, <<ErrorFrame>>)
  /\ UNCHANGED <<registered, connected, subscriber, publisher>>

HandlerReturns ==
  /\ stream[Responder].phase = "handler"
  /\ stream' = [stream EXCEPT ![Responder].phase = "ready"]
  /\ UNCHANGED <<registered, connected, pipe, subscriber, publisher>>

HandlerThrows ==
  /\ stream[Responder].phase = "handler"
  /\ stream' = [stream EXCEPT ![Responder].phase = "failed", ![Responder].done = TRUE]
  /\ Disconnect(Responder, ~stream[Responder].done)
  /\ Send(Responder, IF stream[Responder].done THEN <<>> ELSE <<ErrorFrame>>)
  /\ UNCHANGED <<connected, subscriber, publisher>>

HandleCancel ==
  /\ Routed(Responder, "CANCEL")
  /\ Finish(Responder)
  /\ CancelPublisher(stream[Responder].phase = "ready")
  /\ Disconnect(Responder, TRUE)
  /\ Reply(Responder, <<>>)
  /\ UNCHANGED <<connected, subscriber>>

\* close() does not set done.
CloseResponder ==
  /\ connected[Responder]
  /\ stream[Responder].phase # "handler"
  /\ Hangup(Responder)
  /\ stream' = [stream EXCEPT ![Responder].hasFragments = @ /\ ~registered[Responder]]
  /\ CancelPublisher(registered[Responder] /\ stream[Responder].phase = "ready")
  /\ UNCHANGED <<registered, subscriber>>

-----------------------------------------------------------------------------
(* The publisher. *)

CanEmit == stream[Responder].phase \in {"handler", "ready"} /\ ~stream[Responder].done

\* Whatever isCompletion says, the item completes the stream.
OnNext(fragmented) ==
  /\ CanEmit
  /\ publisher' = [publisher EXCEPT !.published = @ + 1, !.ended = TRUE]
  /\ stream' = [stream EXCEPT ![Responder].done = TRUE]
  /\ Send(Responder, Payload(TRUE, fragmented))
  /\ Disconnect(Responder, TRUE)
  /\ UNCHANGED <<connected, subscriber>>

OnComplete ==
  /\ CanEmit
  /\ publisher' = [publisher EXCEPT !.ended = TRUE]
  /\ stream' = [stream EXCEPT ![Responder].done = TRUE]
  /\ Send(Responder, <<PayloadFrame(FALSE, TRUE, FALSE)>>)
  /\ Disconnect(Responder, TRUE)
  /\ UNCHANGED <<connected, subscriber>>

OnError ==
  /\ CanEmit
  /\ publisher' = [publisher EXCEPT !.ended = TRUE]
  /\ stream' = [stream EXCEPT ![Responder].done = TRUE]
  /\ Send(Responder, <<ErrorFrame>>)
  /\ Disconnect(Responder, TRUE)
  /\ UNCHANGED <<connected, subscriber>>

-----------------------------------------------------------------------------
Subscriber == HandleReady \/ HandleReadyExtension \/ OnExtensionUnready \/ HandleReject \/ Cancel

Publisher == (\E fragmented \in Fragmented : OnNext(fragmented)) \/ OnComplete \/ OnError

Receive(p) ==
  \/ DropFrame(p)
  \/ p = Requester /\ (HandleFragment \/ HandlePayload \/ HandleError)
  \/ p = Responder /\ (HandleRequest \/ HandleFirstFragment \/ HandleLastFragment
                       \/ RejectRequest \/ HandleCancel)

Handler == HandlerReturns \/ HandlerThrows

Next ==
  \/ Subscriber
  \/ Publisher
  \/ \E p \in Peers : Receive(p)
  \/ Handler
  \/ CloseRequester
  \/ CloseResponder

\* What the event loop of an end runs without its application.
EventLoop(p) ==
  \/ Receive(p)
  \/ p = Requester /\ ~connected[Responder] /\ CloseRequester
  \/ p = Responder /\ ~connected[Requester] /\ CloseResponder
  \/ p = Responder /\ Handler
=============================================================================
