--------------------------- MODULE RequestChannel ---------------------------
(***************************************************************************)
(* One REQUEST_CHANNEL stream: RequestChannelRequesterStream and           *)
(* RequestChannelResponderStream, the applications that use them, and the  *)
(* frames on their way between the two.                                    *)
(*                                                                         *)
(* Each peer has a publisher, whose items leave in PAYLOAD frames, and a   *)
(* subscriber, which is given the items of the other peer; both are        *)
(* reached through the "receiver" of its stream.  Every callback of the    *)
(* receiver is the last thing the library does, or is made when both       *)
(* directions are done and further calls do nothing, so what an            *)
(* application calls inside a callback is an action of its own here.  The  *)
(* exception is the handler of the responder, which may use the stream     *)
(* before the receiver is known: that is the phase "handler".              *)
(***************************************************************************)
EXTENDS Naturals, Sequences, Sums

CONSTANTS
  MaxDemand,        \* bound: MaxDemand[p] items are asked for by p's subscriber in all
  Fragmented        \* whether payloads may be too big for one frame

Requester == "requester"
Responder == "responder"
Peers == {Requester, Responder}
Other(p) == IF p = Requester THEN Responder ELSE Requester

ASSUME ChannelAssumption ==
  /\ MaxDemand \in [Peers -> Nat]
  /\ MaxDemand[Requester] > 0
  /\ Fragmented \subseteq BOOLEAN

VARIABLES
  phase,            \* how far p's stream is, see TypeOK
  registered,       \* p's multiplexer has the stream in its registry
  inboundDone, outboundDone, hasFragments,
  initialRequestN,  \* of the request to send, or of the request being reassembled
  isComplete,       \* the requester's publisher ended with the request
  assembled,        \* the request reached the responder in fragments
  deferredError,    \* defferedError of the responder is set
  connected,        \* p's end of the connection is open
  pipe,             \* frames on their way to p
  signals,          \* history: what p's subscriber was given
  demand,           \* history: items p's subscriber asked for
  cancelled,        \* history: p's subscriber cancelled
  credit,           \* history: items p's publisher was asked for
  published,        \* history: items p's publisher sent
  ended,            \* history: p's publisher completed or failed
  cancels           \* history: how often p's publisher was cancelled

phaseVars == <<phase, assembled, deferredError>>
doneVars == <<registered, inboundDone, outboundDone>>
requestVars == <<initialRequestN, isComplete>>
subscriberVars == <<signals, demand, cancelled>>
publisherVars == <<credit, published, ended, cancels>>
vars == <<phaseVars, doneVars, requestVars, hasFragments, connected, pipe,
          subscriberVars, publisherVars>>

RequestFrame(n, complete, follows) ==
  [type |-> "REQUEST_CHANNEL", requestN |-> n, complete |-> complete, follows |-> follows]
PayloadFrame(next, complete, follows) ==
  [type |-> "PAYLOAD", next |-> next, complete |-> complete, follows |-> follows]
RequestNFrame(n) == [type |-> "REQUEST_N", requestN |-> n]
CancelFrame == [type |-> "CANCEL"]
ErrorFrame == [type |-> "ERROR"]

\* The frames of a payload: fragments follow one another, and only the last
\* carries COMPLETE.
Payload(complete, fragmented) ==
  IF fragmented
  THEN <<PayloadFrame(TRUE, FALSE, TRUE), PayloadFrame(TRUE, complete, FALSE)>>
  ELSE <<PayloadFrame(TRUE, complete, FALSE)>>

\* Mutant: the first fragment carries no demand.
RequestFramesNoDemand(n, complete, fragmented) ==
  IF fragmented
  THEN <<RequestFrame(0, FALSE, TRUE), PayloadFrame(TRUE, complete, FALSE)>>
  ELSE <<RequestFrame(n, complete, FALSE)>>

RequestFrames(n, complete, fragmented) ==
  IF fragmented
  THEN <<RequestFrame(n, FALSE, TRUE), PayloadFrame(TRUE, complete, FALSE)>>
  ELSE <<RequestFrame(n, complete, FALSE)>>

Frames ==
       [type : {"REQUEST_CHANNEL"}, requestN : Nat \ {0}, complete : BOOLEAN, follows : BOOLEAN]
  \cup [type : {"PAYLOAD"}, next : BOOLEAN, complete : BOOLEAN, follows : BOOLEAN]
  \cup [type : {"REQUEST_N"}, requestN : Nat \ {0}]
  \cup [type : {"CANCEL", "ERROR"}]

TypeOK ==
  /\ phase[Requester] \in {"new", "ready", "rejected"}
  /\ phase[Responder] \in {"none", "assembling", "handler", "ready", "failed", "rejected"}
  /\ {inboundDone, outboundDone, registered, hasFragments, connected, cancelled, ended}
       \subseteq [Peers -> BOOLEAN]
  /\ initialRequestN \in [Peers -> Nat]
  /\ isComplete \in [Peers -> BOOLEAN]
  /\ {assembled, deferredError} \subseteq BOOLEAN
  /\ pipe \in [Peers -> Seq(Frames)]
  /\ signals \in [Peers -> Seq({"next", "complete", "error"})]
  /\ demand \in [Peers -> Nat]
  /\ credit \in [Peers -> Nat]
  /\ published \in [Peers -> Nat]
  /\ cancels \in [Peers -> Nat]

Init ==
  /\ phase = [p \in Peers |-> IF p = Requester THEN "new" ELSE "none"]
  /\ registered = [p \in Peers |-> FALSE]
  /\ inboundDone = [p \in Peers |-> FALSE]
  /\ outboundDone = [p \in Peers |-> FALSE]
  /\ hasFragments = [p \in Peers |-> FALSE]
  /\ initialRequestN \in {[p \in Peers |-> IF p = Requester THEN n ELSE 0] : n \in 1 .. MaxDemand[Requester]}
  /\ isComplete \in {[p \in Peers |-> p = Requester /\ complete] : complete \in BOOLEAN}
  /\ assembled = FALSE
  /\ deferredError = FALSE
  /\ connected = [p \in Peers |-> TRUE]
  /\ pipe = [p \in Peers |-> <<>>]
  /\ signals = [p \in Peers |-> <<>>]
  /\ demand = initialRequestN
  /\ cancelled = [p \in Peers |-> FALSE]
  /\ credit = [p \in Peers |-> 0]
  /\ published = [p \in Peers |-> 0]
  /\ ended = isComplete
  /\ cancels = [p \in Peers |-> 0]

-----------------------------------------------------------------------------
\* p takes the next frame (if "takes") and sends frames, which are lost when
\* an end of the connection is closed.
Transfer(p, takes, frames) ==
  pipe' = [pipe EXCEPT ![p] = IF takes THEN Tail(@) ELSE @,
                       ![Other(p)] = IF connected[p] /\ connected[Other(p)] THEN @ \o frames ELSE @]

Send(p, frames) == Transfer(p, FALSE, frames)
Reply(p, frames) == Transfer(p, TRUE, frames)

Set(f, p) == [f EXCEPT ![p] = TRUE]
Signal(p, s) == signals' = [signals EXCEPT ![p] = @ \o s]
Disconnect(p, condition) == registered' = [registered EXCEPT ![p] = @ /\ ~condition]

\* The application of p holds the stream: the requester from the start, the
\* responder while its handler runs and after it.
HasStream(p) == phase[p] \in {"handler", "ready"}

\* p's stream knows its receiver.
HasReceiver(p) == phase[p] = "ready"

\* Both directions end, and the receiver is told of each that was open.
EndBoth(p) ==
  /\ inboundDone' = Set(inboundDone, p)
  /\ outboundDone' = Set(outboundDone, p)
  /\ hasFragments' = [hasFragments EXCEPT ![p] = FALSE]
  /\ cancels' = [cancels EXCEPT ![p] = IF HasReceiver(p) /\ ~outboundDone[p] THEN @ + 1 ELSE @]
  /\ Signal(p, IF HasReceiver(p) /\ ~inboundDone[p] THEN <<"error">> ELSE <<>>)

-----------------------------------------------------------------------------
(* The requester before it has a stream id: it may wait for a lease. *)

HandleReady ==
  /\ phase[Requester] = "new"
  /\ connected[Requester]
  /\ ~outboundDone[Requester]
  /\ phase' = [phase EXCEPT ![Requester] = "ready"]
  /\ registered' = Set(registered, Requester)
  /\ outboundDone' = [outboundDone EXCEPT ![Requester] = isComplete[Requester]]
  /\ \E fragmented \in Fragmented :
       Send(Requester, RequestFrames(initialRequestN[Requester], isComplete[Requester], fragmented))
  /\ UNCHANGED <<assembled, deferredError, inboundDone, requestVars, hasFragments, connected>>
  /\ UNCHANGED <<subscriberVars, publisherVars>>

HandleReject ==
  /\ phase[Requester] = "new"
  /\ ~inboundDone[Requester]
  /\ phase' = [phase EXCEPT ![Requester] = "rejected"]
  /\ inboundDone' = Set(inboundDone, Requester)
  /\ outboundDone' = Set(outboundDone, Requester)
  /\ Signal(Requester, <<"error">>)
  /\ UNCHANGED <<assembled, deferredError, registered, requestVars, hasFragments, connected, pipe>>
  /\ UNCHANGED <<demand, cancelled, publisherVars>>

\* Mutant: demand is only sent, and nothing can be sent yet.
RequestUnreadyIgnored(n) ==
  /\ phase[Requester] = "new"
  /\ ~inboundDone[Requester]
  /\ initialRequestN' = initialRequestN
  /\ demand' = [demand EXCEPT ![Requester] = @ + n]
  /\ UNCHANGED <<phaseVars, doneVars, isComplete, hasFragments, connected, pipe>>
  /\ UNCHANGED <<signals, cancelled, publisherVars>>

RequestUnready(n) ==
  /\ phase[Requester] = "new"
  /\ ~inboundDone[Requester]
  /\ initialRequestN' = [initialRequestN EXCEPT ![Requester] = @ + n]
  /\ demand' = [demand EXCEPT ![Requester] = @ + n]
  /\ UNCHANGED <<phaseVars, doneVars, isComplete, hasFragments, connected, pipe>>
  /\ UNCHANGED <<signals, cancelled, publisherVars>>

OnCompleteUnready ==
  /\ phase[Requester] = "new"
  /\ ~isComplete[Requester]
  /\ ~outboundDone[Requester]
  /\ isComplete' = Set(isComplete, Requester)
  /\ ended' = Set(ended, Requester)
  /\ UNCHANGED <<phaseVars, doneVars, initialRequestN, hasFragments, connected, pipe>>
  /\ UNCHANGED <<subscriberVars, credit, published, cancels>>

\* onError marks both directions done and then throws, for it has no stream to
\* send on: nobody is told, and handleReady will do nothing.
OnErrorUnready ==
  /\ phase[Requester] = "new"
  /\ ~isComplete[Requester]
  /\ ~outboundDone[Requester]
  /\ inboundDone' = Set(inboundDone, Requester)
  /\ outboundDone' = Set(outboundDone, Requester)
  /\ ended' = Set(ended, Requester)
  /\ UNCHANGED <<phaseVars, registered, requestVars, hasFragments, connected, pipe>>
  /\ UNCHANGED <<subscriberVars, credit, published, cancels>>

CancelUnready ==
  /\ phase[Requester] = "new"
  /\ ~inboundDone[Requester]
  /\ inboundDone' = Set(inboundDone, Requester)
  /\ outboundDone' = Set(outboundDone, Requester)
  /\ cancelled' = Set(cancelled, Requester)
  /\ cancels' = [cancels EXCEPT ![Requester] = @ + 1]
  /\ UNCHANGED <<phaseVars, registered, requestVars, hasFragments, connected, pipe>>
  /\ UNCHANGED <<signals, demand, credit, published, ended>>

Unready ==
  \/ HandleReady
  \/ HandleReject
  \/ \E n \in 1 .. MaxDemand[Requester] - demand[Requester] : RequestUnready(n)
  \/ OnCompleteUnready
  \/ OnErrorUnready
  \/ CancelUnready

-----------------------------------------------------------------------------
(* What the application of p calls. *)

RequestMore(p, n) ==
  /\ HasStream(p)
  /\ ~inboundDone[p]
  /\ demand' = [demand EXCEPT ![p] = @ + n]
  /\ Send(p, <<RequestNFrame(n)>>)
  /\ UNCHANGED <<phaseVars, doneVars, requestVars, hasFragments, connected>>
  /\ UNCHANGED <<signals, cancelled, publisherVars>>

\* A publisher sends no more items than it was asked for.
OnNext(p, complete, fragmented) ==
  /\ HasStream(p)
  /\ ~outboundDone[p]
  /\ published[p] < credit[p]
  /\ published' = [published EXCEPT ![p] = @ + 1]
  /\ outboundDone' = [outboundDone EXCEPT ![p] = complete]
  /\ ended' = [ended EXCEPT ![p] = complete]
  /\ Disconnect(p, complete /\ inboundDone[p])
  /\ Send(p, Payload(complete, fragmented))
  /\ UNCHANGED <<phaseVars, inboundDone, requestVars, hasFragments, connected>>
  /\ UNCHANGED <<subscriberVars, credit, cancels>>

\* Mutant: the stream stays in the registry.
OnCompleteStays(p) ==
  /\ HasStream(p)
  /\ ~outboundDone[p]
  /\ outboundDone' = Set(outboundDone, p)
  /\ ended' = Set(ended, p)
  /\ Disconnect(p, FALSE)
  /\ Send(p, <<PayloadFrame(FALSE, TRUE, FALSE)>>)
  /\ UNCHANGED <<phaseVars, inboundDone, requestVars, hasFragments, connected>>
  /\ UNCHANGED <<subscriberVars, credit, published, cancels>>

OnComplete(p) ==
  /\ HasStream(p)
  /\ ~outboundDone[p]
  /\ outboundDone' = Set(outboundDone, p)
  /\ ended' = Set(ended, p)
  /\ Disconnect(p, inboundDone[p])
  /\ Send(p, <<PayloadFrame(FALSE, TRUE, FALSE)>>)
  /\ UNCHANGED <<phaseVars, inboundDone, requestVars, hasFragments, connected>>
  /\ UNCHANGED <<subscriberVars, credit, published, cancels>>

\* onError ends the inbound direction too; a responder that has no receiver
\* yet keeps the error for it.
OnError(p) ==
  /\ HasStream(p)
  /\ ~outboundDone[p]
  /\ inboundDone' = Set(inboundDone, p)
  /\ outboundDone' = Set(outboundDone, p)
  /\ ended' = Set(ended, p)
  /\ Disconnect(p, TRUE)
  /\ Send(p, <<ErrorFrame>>)
  /\ Signal(p, IF HasReceiver(p) /\ ~inboundDone[p] THEN <<"error">> ELSE <<>>)
  /\ deferredError' = (deferredError \/ (~HasReceiver(p) /\ ~inboundDone[p]))
  /\ UNCHANGED <<phase, assembled, requestVars, hasFragments, connected>>
  /\ UNCHANGED <<demand, cancelled, credit, published, cancels>>

\* Mutant: nothing is sent when the inbound direction is done.
CancelRequesterQuietly ==
  /\ phase[Requester] = "ready"
  /\ ~(inboundDone[Requester] /\ outboundDone[Requester])
  /\ inboundDone' = Set(inboundDone, Requester)
  /\ outboundDone' = Set(outboundDone, Requester)
  /\ cancelled' = Set(cancelled, Requester)
  /\ cancels' = [cancels EXCEPT ![Requester] = IF outboundDone[Requester] THEN @ ELSE @ + 1]
  /\ Send(Requester, IF inboundDone[Requester] THEN <<>> ELSE <<CancelFrame>>)
  /\ Disconnect(Requester, TRUE)
  /\ hasFragments' = [hasFragments EXCEPT ![Requester] = FALSE]
  /\ UNCHANGED <<phaseVars, requestVars, connected>>
  /\ UNCHANGED <<signals, demand, credit, published, ended>>

\* A requester cancels both directions, with ERROR if the inbound one is done.
CancelRequester ==
  /\ phase[Requester] = "ready"
  /\ ~(inboundDone[Requester] /\ outboundDone[Requester])
  /\ inboundDone' = Set(inboundDone, Requester)
  /\ outboundDone' = Set(outboundDone, Requester)
  /\ cancelled' = Set(cancelled, Requester)
  /\ cancels' = [cancels EXCEPT ![Requester] = IF outboundDone[Requester] THEN @ ELSE @ + 1]
  /\ Send(Requester, IF inboundDone[Requester] THEN <<ErrorFrame>> ELSE <<CancelFrame>>)
  /\ Disconnect(Requester, TRUE)
  /\ hasFragments' = [hasFragments EXCEPT ![Requester] = FALSE]
  /\ UNCHANGED <<phaseVars, requestVars, connected>>
  /\ UNCHANGED <<signals, demand, credit, published, ended>>

\* A responder cancels the inbound direction.
CancelResponder ==
  /\ HasStream(Responder)
  /\ ~inboundDone[Responder]
  /\ inboundDone' = Set(inboundDone, Responder)
  /\ cancelled' = Set(cancelled, Responder)
  /\ Send(Responder, <<CancelFrame>>)
  /\ Disconnect(Responder, outboundDone[Responder])
  /\ UNCHANGED <<phaseVars, outboundDone, requestVars, hasFragments, connected>>
  /\ UNCHANGED <<signals, demand, publisherVars>>

Application(p) ==
  \/ \E n \in 1 .. MaxDemand[p] - demand[p] : RequestMore(p, n)
  \/ \E complete \in BOOLEAN, fragmented \in Fragmented : OnNext(p, complete, fragmented)
  \/ OnComplete(p)
  \/ OnError(p)

-----------------------------------------------------------------------------
(* Frames. *)

\* p's multiplexer has frame for this stream; it handles none while the
\* handler of the responder runs.
Received(p, type) ==
  /\ pipe[p] # <<>>
  /\ Head(pipe[p]).type = type
  /\ phase[p] # "handler"

Routed(p, type) == Received(p, type) /\ registered[p]

\* A frame for a stream that is not in the registry.
DropFrame(p) ==
  /\ pipe[p] # <<>>
  /\ Head(pipe[p]).type # "REQUEST_CHANNEL"
  /\ phase[p] # "handler"
  /\ ~registered[p]
  /\ Reply(p, <<>>)
  /\ UNCHANGED <<phaseVars, doneVars, requestVars, hasFragments, connected>>
  /\ UNCHANGED <<subscriberVars, publisherVars>>

HandleFragment(p) ==
  /\ Routed(p, "PAYLOAD")
  /\ Head(pipe[p]).follows
  /\ hasFragments' = Set(hasFragments, p)
  /\ Reply(p, <<>>)
  /\ UNCHANGED <<phaseVars, doneVars, requestVars, connected, subscriberVars, publisherVars>>

\* Mutant: COMPLETE is handled before NEXT.
HandlePayloadSkipsLast(p) ==
  LET frame == Head(pipe[p]) IN
  /\ Routed(p, "PAYLOAD")
  /\ HasReceiver(p)
  /\ ~frame.follows
  /\ inboundDone' = [inboundDone EXCEPT ![p] = @ \/ frame.complete]
  /\ Disconnect(p, frame.complete /\ outboundDone[p])
  /\ hasFragments' = [hasFragments EXCEPT ![p] = @ /\ ~frame.next]
  /\ Signal(p, (IF frame.next /\ ~frame.complete THEN <<"next">> ELSE <<>>)
               \o (IF frame.complete THEN <<"complete">> ELSE <<>>))
  /\ Reply(p, <<>>)
  /\ UNCHANGED <<phaseVars, outboundDone, requestVars, connected>>
  /\ UNCHANGED <<demand, cancelled, publisherVars>>

\* The last or only frame of a payload, or a bare COMPLETE; the subscriber
\* gets it even if it has cancelled.
HandlePayload(p) ==
  LET frame == Head(pipe[p]) IN
  /\ Routed(p, "PAYLOAD")
  /\ HasReceiver(p)
  /\ ~frame.follows
  /\ inboundDone' = [inboundDone EXCEPT ![p] = @ \/ frame.complete]
  /\ Disconnect(p, frame.complete /\ outboundDone[p])
  /\ hasFragments' = [hasFragments EXCEPT ![p] = @ /\ ~frame.next]
  /\ Signal(p, (IF frame.next THEN <<"next">> ELSE <<>>)
               \o (IF frame.complete THEN <<"complete">> ELSE <<>>))
  /\ Reply(p, <<>>)
  /\ UNCHANGED <<phaseVars, outboundDone, requestVars, connected>>
  /\ UNCHANGED <<demand, cancelled, publisherVars>>

\* A requester whose publisher is done ignores it; a responder passes it on.
HandleRequestN(p) ==
  /\ Routed(p, "REQUEST_N")
  /\ \/ p = Requester /\ outboundDone[p]
     \/ HasReceiver(p) /\ ~hasFragments[p]
  /\ credit' = [credit EXCEPT ![p] =
                  IF p = Requester /\ outboundDone[p] THEN @ ELSE @ + Head(pipe[p]).requestN]
  /\ Reply(p, <<>>)
  /\ UNCHANGED <<phaseVars, doneVars, requestVars, hasFragments, connected>>
  /\ UNCHANGED <<subscriberVars, published, ended, cancels>>

HandleCancel ==
  /\ Routed(Requester, "CANCEL")
  /\ outboundDone' = Set(outboundDone, Requester)
  /\ Disconnect(Requester, ~outboundDone[Requester] /\ inboundDone[Requester])
  /\ cancels' = [cancels EXCEPT ![Requester] = IF outboundDone[Requester] THEN @ ELSE @ + 1]
  /\ Reply(Requester, <<>>)
  /\ UNCHANGED <<phaseVars, inboundDone, requestVars, hasFragments, connected>>
  /\ UNCHANGED <<subscriberVars, credit, published, ended>>

\* The requester's subscriber is given the error whether or not it is done.
HandleError ==
  /\ Routed(Requester, "ERROR")
  /\ inboundDone' = Set(inboundDone, Requester)
  /\ outboundDone' = Set(outboundDone, Requester)
  /\ Disconnect(Requester, TRUE)
  /\ hasFragments' = [hasFragments EXCEPT ![Requester] = FALSE]
  /\ cancels' = [cancels EXCEPT ![Requester] = IF outboundDone[Requester] THEN @ ELSE @ + 1]
  /\ Signal(Requester, <<"error">>)
  /\ Reply(Requester, <<>>)
  /\ UNCHANGED <<phaseVars, requestVars, connected>>
  /\ UNCHANGED <<demand, cancelled, credit, published, ended>>

\* CANCEL of a requester ends both directions of the responder, as ERROR does.
HandleEnd ==
  /\ Routed(Responder, "CANCEL") \/ Routed(Responder, "ERROR")
  /\ EndBoth(Responder)
  /\ Disconnect(Responder, TRUE)
  /\ Reply(Responder, <<>>)
  /\ UNCHANGED <<phaseVars, requestVars, connected>>
  /\ UNCHANGED <<demand, cancelled, credit, published, ended>>

-----------------------------------------------------------------------------
(* The request at the responder. *)

\* The handler is called with the payload, the initial demand and completion.
CallHandler(n, complete) ==
  /\ phase' = [phase EXCEPT ![Responder] = "handler"]
  /\ inboundDone' = [inboundDone EXCEPT ![Responder] = complete]
  /\ credit' = [credit EXCEPT ![Responder] = n]
  /\ Signal(Responder, IF complete THEN <<"complete">> ELSE <<>>)
  /\ Reply(Responder, <<>>)

HandleRequest ==
  LET frame == Head(pipe[Responder]) IN
  /\ Received(Responder, "REQUEST_CHANNEL")
  /\ ~frame.follows
  /\ registered' = Set(registered, Responder)
  /\ CallHandler(frame.requestN, frame.complete)
  /\ UNCHANGED <<assembled, deferredError, outboundDone, requestVars, hasFragments, connected>>
  /\ UNCHANGED <<demand, cancelled, published, ended, cancels>>

HandleFirstFragment ==
  LET frame == Head(pipe[Responder]) IN
  /\ Received(Responder, "REQUEST_CHANNEL")
  /\ frame.follows
  /\ phase' = [phase EXCEPT ![Responder] = "assembling"]
  /\ assembled' = TRUE
  /\ registered' = Set(registered, Responder)
  /\ hasFragments' = Set(hasFragments, Responder)
  /\ initialRequestN' = [initialRequestN EXCEPT ![Responder] = frame.requestN]
  /\ isComplete' = [isComplete EXCEPT ![Responder] = frame.complete]
  /\ Reply(Responder, <<>>)
  /\ UNCHANGED <<deferredError, inboundDone, outboundDone, connected>>
  /\ UNCHANGED <<subscriberVars, publisherVars>>

HandleLastFragment ==
  LET frame == Head(pipe[Responder]) IN
  /\ Routed(Responder, "PAYLOAD")
  /\ phase[Responder] = "assembling"
  /\ ~frame.follows
  /\ hasFragments' = [hasFragments EXCEPT ![Responder] = FALSE]
  /\ CallHandler(initialRequestN[Responder], isComplete[Responder] \/ frame.complete)
  /\ UNCHANGED <<assembled, deferredError, registered, outboundDone, requestVars, connected>>
  /\ UNCHANGED <<demand, cancelled, published, ended, cancels>>

\* The responder has no handler for channels.
RejectRequest ==
  /\ Received(Responder, "REQUEST_CHANNEL")
  /\ phase' = [phase EXCEPT ![Responder] = "rejected"]
  /\ Reply(Responder, <<ErrorFrame>>)
  /\ UNCHANGED <<assembled, deferredError, doneVars, requestVars, hasFragments, connected>>
  /\ UNCHANGED <<subscriberVars, publisherVars>>

\* The handler returns the receiver, which is given a deferred error, unless
\* the request came in fragments: then the error is dropped.
HandlerReturns ==
  /\ phase[Responder] = "handler"
  /\ phase' = [phase EXCEPT ![Responder] = "ready"]
  /\ Signal(Responder, IF outboundDone[Responder] /\ deferredError /\ ~assembled
                       THEN <<"error">> ELSE <<>>)
  /\ UNCHANGED <<assembled, deferredError, doneVars, requestVars, hasFragments, connected, pipe>>
  /\ UNCHANGED <<demand, cancelled, publisherVars>>

\* The handler throws: an open outbound direction ends with ERROR, an inbound
\* one left open by a finished outbound one with CANCEL.
HandlerThrows ==
  /\ phase[Responder] = "handler"
  /\ phase' = [phase EXCEPT ![Responder] = "failed"]
  /\ inboundDone' = Set(inboundDone, Responder)
  /\ outboundDone' = Set(outboundDone, Responder)
  /\ Disconnect(Responder, ~outboundDone[Responder] \/ ~inboundDone[Responder])
  /\ Send(Responder, IF ~outboundDone[Responder] THEN <<ErrorFrame>>
                     ELSE IF ~inboundDone[Responder] THEN <<CancelFrame>> ELSE <<>>)
  /\ UNCHANGED <<assembled, deferredError, requestVars, hasFragments, connected>>
  /\ UNCHANGED <<subscriberVars, publisherVars>>

-----------------------------------------------------------------------------
(* The connection. *)

\* multiplexer.close closes every registered stream.
Close(p) ==
  /\ connected[p]
  /\ phase[p] # "handler"
  /\ connected' = [connected EXCEPT ![p] = FALSE]
  /\ pipe' = [pipe EXCEPT ![p] = <<>>]
  /\ IF registered[p] THEN EndBoth(p)
     ELSE UNCHANGED <<inboundDone, outboundDone, hasFragments, cancels, signals>>
  /\ UNCHANGED <<phaseVars, registered, requestVars>>
  /\ UNCHANGED <<demand, cancelled, credit, published, ended>>

PeerClosed(p) == ~connected[Other(p)] /\ Close(p)

Receive(p) ==
  \/ DropFrame(p)
  \/ HandleFragment(p)
  \/ HandlePayload(p)
  \/ HandleRequestN(p)

ReceiveRequester == HandleCancel \/ HandleError

ReceiveResponder ==
  \/ HandleEnd
  \/ HandleRequest
  \/ HandleFirstFragment
  \/ HandleLastFragment
  \/ RejectRequest

Handler == HandlerReturns \/ HandlerThrows

Next ==
  \/ Unready
  \/ \E p \in Peers : Application(p)
  \/ CancelRequester
  \/ CancelResponder
  \/ \E p \in Peers : Receive(p)
  \/ ReceiveRequester
  \/ ReceiveResponder
  \/ Handler
  \/ \E p \in Peers : Close(p)

Spec == Init /\ [][Next]_vars

\* What the event loop of an end runs without its application.
EventLoop(p) ==
  \/ Receive(p)
  \/ PeerClosed(p)
  \/ p = Requester /\ ReceiveRequester
  \/ p = Responder /\ (ReceiveResponder \/ Handler)

\* An event loop does not stop while it has something to run: frames that arrived,
\* a handler that returns or throws, a socket whose other end is closed.
\* Applications owe nothing.
Fairness == \A p \in Peers : WF_vars(EventLoop(p))

FairSpec == Spec /\ Fairness

-----------------------------------------------------------------------------
(* What a channel owes its applications and its multiplexers. *)

Count(p, signal) == Occurrences(signals[p], signal)

Terminated(p) == Count(p, "complete") + Count(p, "error") > 0

BothDone(p) == inboundDone[p] /\ outboundDone[p]

\* A subscriber is given items and then at most one terminal signal, whatever
\* frames and calls crossed.
NothingAfterTerminal ==
  \A p \in Peers : \A i \in 1 .. Len(signals[p]) - 1 : signals[p][i] = "next"

\* A subscriber that is told of completion has been given every item the
\* other publisher sent.
CompleteMeansAll ==
  \A p \in Peers : Count(p, "complete") > 0 => Count(p, "next") = published[Other(p)]

\* A stream whose inbound direction is done told its subscriber, unless the
\* subscriber had cancelled or the error it raised itself was the deferred one
\* of a request that came in fragments.
DoneIsSignalled ==
  \A p \in Peers :
    inboundDone[p] /\ HasReceiver(p) /\ ~cancelled[p] /\ ~(p = Responder /\ assembled /\ deferredError)
    => Terminated(p)

\* The publisher of a stream is cancelled at most once, and never after it
\* ended by itself (before the stream has an id it may be: cancel() does not
\* look at isComplete).
CancelledOnce ==
  \A p \in Peers : phase[p] # "new" => cancels[p] <= 1 /\ (cancels[p] = 1 => ~ended[p])

\* What subscribers and publishers on both ends are told, and how often.
ApplicationContract == NothingAfterTerminal /\ CompleteMeansAll /\ DoneIsSignalled /\ CancelledOnce

\* A stream is in the registry exactly while a direction of it is open: it is
\* neither leaked there nor deaf to frames it still needs.
RegisteredWhileOpen ==
  \A p \in Peers : connected[p] =>
    (registered[p] <=> phase[p] \in {"ready", "assembling", "handler", "failed"} /\ ~BothDone(p))

\* The units of demand in frames on their way to p.
Demand(frame) ==
  IF frame.type \in {"REQUEST_CHANNEL", "REQUEST_N"} THEN frame.requestN ELSE 0
InFlight(p) == Total([i \in DOMAIN pipe[p] |-> Demand(pipe[p][i])])

\* The demand of p's subscriber that is in no frame and that no publisher has
\* been told of: the request waits to be sent, or to be reassembled.
Held(p) ==
  IF phase[p] = "new" THEN initialRequestN[p]
  ELSE IF phase[Other(p)] = "assembling" THEN initialRequestN[Other(p)] ELSE 0

\* Demand is neither lost nor invented: what a subscriber asked for is what
\* the publisher of the other peer was asked for, and what is on its way
\* while both still have the direction open.
DemandInFlightConserved ==
  \A p \in Peers :
    LET asked == credit[Other(p)] + InFlight(Other(p)) + Held(p)
    IN /\ asked <= demand[p]
       /\ connected[p] /\ connected[Other(p)] /\ ~inboundDone[p] /\ ~outboundDone[Other(p)]
            /\ phase[Other(p)] # "rejected" => asked = demand[p]

\* REQUEST_N never comes before the request or in the middle of a payload, so
\* neither stream ever fails with "Unexpected frame type".
NoUnexpectedFrame ==
  \A p \in Peers :
    Routed(p, "REQUEST_N") /\ ~(p = Requester /\ outboundDone[p]) => HasReceiver(p) /\ ~hasFragments[p]

\* Demand arrives, whole and in its place.
DemandConserved == DemandInFlightConserved /\ NoUnexpectedFrame

\* When nothing is on its way the two peers agree on which directions are open.
EndsAgree ==
  (\A p \in Peers : HasReceiver(p) /\ connected[p] /\ pipe[p] = <<>>)
  => \A p \in Peers : inboundDone[p] = outboundDone[Other(p)]

\* The registry of each end agrees with its stream, and the ends with each other.
RegistryAgrees == RegisteredWhileOpen /\ EndsAgree

\* When one peer is done with the stream the other is eventually, too.
EventuallyBothDone ==
  \A p \in Peers :
    BothDone(p) /\ phase[p] # "new" ~> BothDone(Other(p)) \/ phase[Other(p)] \in {"none", "rejected"}
==============================================================================
