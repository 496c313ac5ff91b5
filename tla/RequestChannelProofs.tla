------------------------ MODULE RequestChannelProofs ------------------------
(***************************************************************************)
(* What one channel owes its applications and the two registries, proved   *)
(* for every MaxDemand and for payloads of one frame and of two.           *)
(*                                                                         *)
(* The two directions share one inductive invariant, IInv.  A step of      *)
(* either end has one of nineteen effects, which say of the step what the  *)
(* invariant needs, end by end; the first part shows that, the second that *)
(* each effect preserves each part of the invariant.                       *)
(***************************************************************************)
EXTENDS RequestChannel, SumsProofs

\* A frame sent now is not lost.
IsOpen == connected[Requester] /\ connected[Responder]
After(frames, sent) == IF IsOpen THEN frames \o sent ELSE frames

-----------------------------------------------------------------------------
(* The invariant. *)

\* A frame that is the first of two, and the second of them.
Follows(f) == f.type \in {"REQUEST_CHANNEL", "PAYLOAD"} /\ f.follows
Finishes(f) == f.type = "PAYLOAD" /\ f.next /\ ~f.follows

\* Frames that end a direction: the one they are sent in, at their receiver p,
\* the other one or both; and frames p's subscriber is told of even if its
\* direction is done.
EndsInbound(f) == (f.type \in {"REQUEST_CHANNEL", "PAYLOAD"} /\ f.complete) \/ f.type = "ERROR"
Stops(p, f) == EndsInbound(f) \/ (p = Responder /\ f.type = "CANCEL")
Abandons(f) == f.type \in {"CANCEL", "ERROR"}
Speaks(p, f) == f.type = "PAYLOAD" \/ (p = Requester /\ f.type = "ERROR")

\* Nothing is on its way before the request is, and nothing comes back before
\* it arrived; an end that is closed is done.
PhaseInv ==
  /\ phase[Requester] # "ready" => phase[Responder] = "none" /\ pipe[Responder] = <<>>
  /\ phase[Requester] = "new" =>
       (inboundDone[Requester] <=> outboundDone[Requester]) /\ signals[Requester] = <<>>
  /\ phase[Requester] = "rejected" => BothDone(Requester)
  /\ phase[Responder] = "none" => pipe[Requester] = <<>>
  /\ phase[Responder] \in {"none", "rejected"} =>
       ~inboundDone[Responder] /\ ~outboundDone[Responder] /\ ~hasFragments[Responder]
  /\ phase[Responder] = "assembling" /\ connected[Responder] =>
       ~inboundDone[Responder] /\ ~outboundDone[Responder]
  /\ phase[Responder] = "failed" => BothDone(Responder)
  /\ phase[Responder] = "handler" => connected[Responder] /\ ~hasFragments[Responder]
  /\ \A p \in Peers : ~connected[p] => pipe[p] = <<>> /\ (phase[p] \in {"ready", "assembling"} => BothDone(p))
  /\ initialRequestN[Requester] > 0
  /\ ~isComplete[Responder]

\* The first of two frames does not complete and is followed by the second.
Paired(s) == \A i \in 1 .. Len(s) : Follows(s[i]) => ~s[i].complete /\ i < Len(s) /\ Finishes(s[i + 1])

FragmentsInv(p) ==
  /\ Paired(pipe[p])
  /\ connected[p] /\ hasFragments[p] /\ ~BothDone(p) => pipe[p] # <<>> /\ Finishes(Head(pipe[p]))
  /\ phase[p] = "assembling" /\ connected[p] => hasFragments[p]

\* The request comes first and once.
RequestInv ==
  /\ \A f \in Range(pipe[Requester]) : f.type # "REQUEST_CHANNEL"
  /\ phase[Responder] # "none" => \A f \in Range(pipe[Responder]) : f.type # "REQUEST_CHANNEL"
  /\ pipe[Responder] # <<>> => \A f \in Range(Tail(pipe[Responder])) : f.type # "REQUEST_CHANNEL"
  /\ phase[Responder] = "none" /\ pipe[Responder] # <<>> => Head(pipe[Responder]).type = "REQUEST_CHANNEL"
  /\ phase[Responder] = "none" /\ phase[Requester] = "ready" /\ IsOpen => pipe[Responder] # <<>>

\* When one end of a direction is done and the other is not, what will end it
\* is on its way.
EndsInv(p) ==
  /\ \A f \in Range(pipe[p]) :
       /\ EndsInbound(f) => outboundDone[Other(p)] \/ (phase[Other(p)] = "rejected" /\ f.type = "ERROR")
       /\ f.type = "ERROR" \/ (f.type = "CANCEL" /\ p = Responder) =>
            BothDone(Other(p)) \/ phase[Other(p)] = "rejected"
       /\ f.type = "CANCEL" => inboundDone[Other(p)]
  /\ IsOpen /\ phase[Requester] = "ready" /\ phase[Responder] # "rejected" =>
       /\ outboundDone[Other(p)] /\ ~inboundDone[p] => \E f \in Range(pipe[p]) : Stops(p, f)
       /\ inboundDone[Other(p)] /\ ~outboundDone[p] => \E f \in Range(pipe[p]) : Abandons(f)

\* A subscriber that was told s was told that there are no more items.
Told(s) == s # <<>> /\ s[Len(s)] # "next"

\* Nothing that p's subscriber would be told of comes after what ends it.
Ordered(p, s) == \A i, j \in 1 .. Len(s) : i < j /\ Stops(p, s[i]) => ~Speaks(p, s[j])

SignalsInv(p) ==
  /\ \A i \in 1 .. Len(signals[p]) - 1 : signals[p][i] = "next"
  /\ Ordered(p, pipe[p])
  /\ Told(signals[p]) => inboundDone[p]
  /\ Told(signals[p]) /\ connected[p] /\ ~BothDone(p) =>
       outboundDone[Other(p)] /\ \A f \in Range(pipe[p]) : ~Speaks(p, f)
  /\ inboundDone[p] /\ phase[p] \in {"handler", "ready"} /\ ~cancelled[p] =>
       Told(signals[p]) \/ (p = Responder /\ deferredError /\ (phase[p] = "handler" \/ assembled))

DeferredInv ==
  /\ deferredError => BothDone(Responder)
  /\ deferredError /\ phase[Responder] = "handler" => ~Told(signals[Responder])
  /\ phase[Responder] \in {"none", "assembling", "rejected"} => signals[Responder] = <<>> /\ ~deferredError

PublisherInv(p) ==
  /\ phase[p] # "new" =>
       /\ cancels[p] <= 1 /\ (cancels[p] = 1 => outboundDone[p] /\ ~ended[p])
       /\ ended[p] => outboundDone[p]
  /\ phase[p] = "new" /\ ~outboundDone[p] => cancels[p] = 0 /\ (ended[p] <=> isComplete[p])

\* The items in frames on their way, a fragmented one in its last frame; the
\* last frame of the request itself is taken for one.
Item(f) == IF Finishes(f) THEN 1 ELSE 0
ItemWeight == [f \in Frames |-> Item(f)]
DemandWeight == [f \in Frames |-> Demand(f)]

Extra(p) ==
  IF p = Responder /\ (\/ phase[p] = "assembling"
                       \/ phase[p] = "none" /\ pipe[p] # <<>> /\ Follows(Head(pipe[p])))
  THEN 1 ELSE 0

\* Items are neither lost nor made up while p's end is open, and a completion
\* comes after all of them.
ItemsInv(p) ==
  /\ connected[p] /\ ~BothDone(p) /\ phase[p] # "rejected" =>
       Count(p, "next") + Weigh(ItemWeight, pipe[p]) = published[Other(p)] + Extra(p)
  /\ Count(p, "complete") > 0 => Count(p, "next") = published[Other(p)] /\ outboundDone[Other(p)]

Asked(p) == credit[Other(p)] + Weigh(DemandWeight, pipe[Other(p)]) + Held(p)

DemandInv(p) ==
  /\ Asked(p) <= demand[p]
  /\ IsOpen /\ ~inboundDone[p] /\ ~outboundDone[Other(p)] /\ phase[Other(p)] # "rejected" => Asked(p) = demand[p]
  /\ phase[p] \in {"none", "assembling"} => credit[p] = 0

Phases == {"new", "ready", "rejected", "none", "assembling", "handler", "failed"}
Typed == TypeOK /\ phase \in [Peers -> Phases]

IInv ==
  /\ Typed /\ PhaseInv /\ RegisteredWhileOpen /\ RequestInv /\ DeferredInv
  /\ \A p \in Peers :
       FragmentsInv(p) /\ EndsInv(p) /\ SignalsInv(p) /\ PublisherInv(p) /\ ItemsInv(p) /\ DemandInv(p)

-----------------------------------------------------------------------------
(* The effects of the steps, end by end. *)

SameState(p) ==
  /\ phase'[p] = phase[p] /\ registered'[p] = registered[p] /\ hasFragments'[p] = hasFragments[p]
  /\ inboundDone'[p] = inboundDone[p] /\ outboundDone'[p] = outboundDone[p]
SameRequest(p) == initialRequestN'[p] = initialRequestN[p] /\ isComplete'[p] = isComplete[p]
SameSubscriber(p) == signals'[p] = signals[p] /\ demand'[p] = demand[p] /\ cancelled'[p] = cancelled[p]
SamePublisher(p) ==
  credit'[p] = credit[p] /\ published'[p] = published[p] /\ ended'[p] = ended[p] /\ cancels'[p] = cancels[p]
SameDeferred == assembled' = assembled /\ deferredError' = deferredError

\* Only p's end and the pipes may change.
Only(p) ==
  /\ SameState(Other(p)) /\ SameRequest(Other(p)) /\ SameSubscriber(Other(p)) /\ SamePublisher(Other(p))
  /\ connected'[Other(p)] = connected[Other(p)]

Sends(p, frames) == pipe'[p] = pipe[p] /\ pipe'[Other(p)] = After(pipe[Other(p)], frames)
Takes(p, frames) ==
  /\ pipe[p] # <<>> /\ phase[p] # "handler"
  /\ pipe'[p] = Tail(pipe[p]) /\ pipe'[Other(p)] = After(pipe[Other(p)], frames)

Signalled(p, s) == signals'[p] = signals[p] \o s

\* The requester before it has a stream id: more demand, a publisher that ends,
\* a stream that is over before it began.
Waits ==
  /\ Only(Requester) /\ pipe' = pipe /\ connected' = connected /\ SameDeferred
  /\ phase[Requester] = "new" /\ registered'[Requester] = registered[Requester]
  /\ hasFragments'[Requester] = hasFragments[Requester]
  /\ credit'[Requester] = credit[Requester] /\ published'[Requester] = published[Requester]

WaitsForMore(n) ==
  /\ Waits /\ n \in Nat /\ ~inboundDone[Requester] /\ SameState(Requester)
  /\ initialRequestN'[Requester] = initialRequestN[Requester] + n /\ demand'[Requester] = demand[Requester] + n
  /\ isComplete'[Requester] = isComplete[Requester]
  /\ signals'[Requester] = signals[Requester] /\ cancelled'[Requester] = cancelled[Requester]
  /\ SamePublisher(Requester)

CompletesEarly ==
  /\ Waits /\ ~outboundDone[Requester] /\ SameState(Requester) /\ SameSubscriber(Requester)
  /\ initialRequestN'[Requester] = initialRequestN[Requester] /\ isComplete'[Requester]
  /\ ended'[Requester] /\ cancels'[Requester] = cancels[Requester]

GivesUp ==
  /\ Waits /\ SameRequest(Requester)
  /\ inboundDone'[Requester] /\ outboundDone'[Requester]
  /\ demand'[Requester] = demand[Requester]
  /\ \/ /\ phase'[Requester] = "rejected" /\ ~inboundDone[Requester]
        /\ Signalled(Requester, <<"error">>) /\ SamePublisher(Requester)
     \/ phase'[Requester] = "new" /\ signals'[Requester] = signals[Requester]

Asks(fragmented) ==
  /\ Only(Requester) /\ connected' = connected /\ SameDeferred
  /\ phase[Requester] = "new" /\ connected[Requester] /\ ~outboundDone[Requester]
  /\ fragmented \in BOOLEAN
  /\ phase'[Requester] = "ready" /\ registered'[Requester]
  /\ outboundDone'[Requester] = isComplete[Requester] /\ inboundDone'[Requester] = inboundDone[Requester]
  /\ hasFragments'[Requester] = hasFragments[Requester]
  /\ SameRequest(Requester) /\ SameSubscriber(Requester) /\ SamePublisher(Requester)
  /\ Sends(Requester, RequestFrames(initialRequestN[Requester], isComplete[Requester], fragmented))

AsksMore(p, n) ==
  /\ Only(p) /\ connected' = connected /\ SameDeferred
  /\ HasStream(p) /\ ~inboundDone[p] /\ n \in Nat \ {0}
  /\ SameState(p) /\ SameRequest(p) /\ SamePublisher(p)
  /\ demand'[p] = demand[p] + n /\ signals'[p] = signals[p] /\ cancelled'[p] = cancelled[p]
  /\ Sends(p, <<RequestNFrame(n)>>)

\* An item, the completion or both.
Publishes(p, items, complete, frames) ==
  /\ Only(p) /\ connected' = connected /\ SameDeferred
  /\ HasStream(p) /\ ~outboundDone[p] /\ complete \in BOOLEAN
  /\ phase'[p] = phase[p] /\ inboundDone'[p] = inboundDone[p] /\ hasFragments'[p] = hasFragments[p]
  /\ outboundDone'[p] = complete /\ registered'[p] = (registered[p] /\ ~(complete /\ inboundDone[p]))
  /\ SameRequest(p) /\ SameSubscriber(p)
  /\ published'[p] = published[p] + items /\ ended'[p] = complete
  /\ credit'[p] = credit[p] /\ cancels'[p] = cancels[p]
  /\ Sends(p, frames)
  /\ \/ items = 1 /\ \E fragmented \in BOOLEAN : frames = Payload(complete, fragmented)
     \/ items = 0 /\ complete /\ frames = <<PayloadFrame(FALSE, TRUE, FALSE)>>

\* p ends both directions by itself: its publisher fails, the requester cancels
\* or the handler throws.
Leaves(p, frames) ==
  /\ Only(p) /\ connected' = connected /\ HasStream(p) /\ assembled' = assembled
  /\ inboundDone'[p] /\ outboundDone'[p] /\ registered'[p] = (registered[p] /\ BothDone(p))
  /\ hasFragments'[p] => hasFragments[p]
  /\ SameRequest(p) /\ demand'[p] = demand[p] /\ credit'[p] = credit[p] /\ published'[p] = published[p]
  /\ Sends(p, frames)
  /\ frames \in {<<>>, <<CancelFrame>>, <<ErrorFrame>>}
  /\ ~inboundDone[p] => frames # <<>>
  /\ ~outboundDone[p] => frames = <<ErrorFrame>> \/ (p = Requester /\ frames = <<CancelFrame>>)
  /\ p = Responder /\ frames = <<ErrorFrame>> => ~outboundDone[p]
  /\ \/ /\ phase'[p] = phase[p] /\ ~outboundDone[p] /\ ended'[p]
        /\ cancels'[p] = cancels[p] /\ cancelled'[p] = cancelled[p]
        /\ Signalled(p, IF HasReceiver(p) /\ ~inboundDone[p] THEN <<"error">> ELSE <<>>)
        /\ deferredError' = (deferredError \/ (~HasReceiver(p) /\ ~inboundDone[p]))
     \/ /\ p = Requester /\ phase'[p] = phase[p] /\ cancelled'[p] /\ SameDeferred
        /\ cancels'[p] = (IF outboundDone[p] THEN cancels[p] ELSE cancels[p] + 1)
        /\ ended'[p] = ended[p] /\ signals'[p] = signals[p]
     \/ /\ p = Responder /\ phase[p] = "handler" /\ phase'[p] = "failed" /\ SameDeferred
        /\ SameSubscriber(p) /\ SamePublisher(p)

CancelsInbound ==
  /\ Only(Responder) /\ connected' = connected /\ SameDeferred
  /\ HasStream(Responder) /\ ~inboundDone[Responder]
  /\ phase'[Responder] = phase[Responder] /\ hasFragments'[Responder] = hasFragments[Responder]
  /\ inboundDone'[Responder] /\ outboundDone'[Responder] = outboundDone[Responder]
  /\ registered'[Responder] = (registered[Responder] /\ ~outboundDone[Responder])
  /\ SameRequest(Responder) /\ SamePublisher(Responder)
  /\ signals'[Responder] = signals[Responder] /\ demand'[Responder] = demand[Responder] /\ cancelled'[Responder]
  /\ Sends(Responder, <<CancelFrame>>)

\* p takes a frame and sends none.
TakesFrame(p) == Only(p) /\ connected' = connected /\ Takes(p, <<>>)

Drops(p) ==
  /\ TakesFrame(p) /\ SameDeferred /\ Head(pipe[p]).type # "REQUEST_CHANNEL" /\ ~registered[p]
  /\ SameState(p) /\ SameRequest(p) /\ SameSubscriber(p) /\ SamePublisher(p)

TakesFragment(p) ==
  /\ TakesFrame(p) /\ SameDeferred /\ registered[p]
  /\ Head(pipe[p]).type = "PAYLOAD" /\ Head(pipe[p]).follows
  /\ phase'[p] = phase[p] /\ registered'[p] = registered[p] /\ hasFragments'[p]
  /\ inboundDone'[p] = inboundDone[p] /\ outboundDone'[p] = outboundDone[p]
  /\ SameRequest(p) /\ SameSubscriber(p) /\ SamePublisher(p)

SignalsOf(frame) ==
  (IF frame.next THEN <<"next">> ELSE <<>>) \o (IF frame.complete THEN <<"complete">> ELSE <<>>)

TakesPayload(p) ==
  LET frame == Head(pipe[p]) IN
  /\ TakesFrame(p) /\ SameDeferred /\ registered[p] /\ HasReceiver(p)
  /\ frame.type = "PAYLOAD" /\ ~frame.follows
  /\ phase'[p] = phase[p] /\ outboundDone'[p] = outboundDone[p]
  /\ inboundDone'[p] = (inboundDone[p] \/ frame.complete)
  /\ registered'[p] = (registered[p] /\ ~(frame.complete /\ outboundDone[p]))
  /\ hasFragments'[p] = (hasFragments[p] /\ ~frame.next)
  /\ Signalled(p, SignalsOf(frame)) /\ demand'[p] = demand[p] /\ cancelled'[p] = cancelled[p]
  /\ SameRequest(p) /\ SamePublisher(p)

TakesDemand(p) ==
  /\ TakesFrame(p) /\ SameDeferred /\ registered[p] /\ Head(pipe[p]).type = "REQUEST_N"
  /\ (p = Requester /\ outboundDone[p]) \/ HasReceiver(p)
  /\ SameState(p) /\ SameRequest(p) /\ SameSubscriber(p)
  /\ published'[p] = published[p] /\ ended'[p] = ended[p] /\ cancels'[p] = cancels[p]
  /\ credit'[p] = IF p = Requester /\ outboundDone[p] THEN credit[p] ELSE credit[p] + Head(pipe[p]).requestN

TakesCancel ==
  /\ TakesFrame(Requester) /\ SameDeferred /\ registered[Requester] /\ Head(pipe[Requester]).type = "CANCEL"
  /\ phase'[Requester] = phase[Requester] /\ hasFragments'[Requester] = hasFragments[Requester]
  /\ inboundDone'[Requester] = inboundDone[Requester] /\ outboundDone'[Requester]
  /\ registered'[Requester] = (registered[Requester] /\ ~(~outboundDone[Requester] /\ inboundDone[Requester]))
  /\ SameRequest(Requester) /\ SameSubscriber(Requester)
  /\ credit'[Requester] = credit[Requester] /\ published'[Requester] = published[Requester]
  /\ ended'[Requester] = ended[Requester]
  /\ cancels'[Requester] = (IF outboundDone[Requester] THEN cancels[Requester] ELSE cancels[Requester] + 1)

\* Both directions of p end because of what comes from the other end.
IsEnded(p) ==
  /\ phase'[p] = phase[p] /\ SameRequest(p) /\ SameDeferred
  /\ inboundDone'[p] /\ outboundDone'[p] /\ ~hasFragments'[p]
  /\ demand'[p] = demand[p] /\ cancelled'[p] = cancelled[p]
  /\ credit'[p] = credit[p] /\ published'[p] = published[p] /\ ended'[p] = ended[p]
  /\ cancels'[p] = cancels[p] \/ (~outboundDone[p] /\ cancels'[p] = cancels[p] + 1)

TakesEnd(p) ==
  /\ TakesFrame(p) /\ registered[p] /\ IsEnded(p) /\ ~registered'[p]
  /\ Head(pipe[p]).type = "ERROR" \/ (p = Responder /\ Head(pipe[p]).type = "CANCEL")
  /\ Signalled(p, IF p = Requester \/ (HasReceiver(p) /\ ~inboundDone[p]) THEN <<"error">> ELSE <<>>)

Closes(p) ==
  /\ Only(p) /\ connected[p] /\ ~connected'[p] /\ phase[p] # "handler"
  /\ pipe'[p] = <<>> /\ pipe'[Other(p)] = pipe[Other(p)]
  /\ \/ /\ registered[p] /\ IsEnded(p)
        /\ Signalled(p, IF HasReceiver(p) /\ ~inboundDone[p] THEN <<"error">> ELSE <<>>)
     \/ /\ ~registered[p] /\ SameState(p) /\ SameRequest(p) /\ SameSubscriber(p) /\ SamePublisher(p)
        /\ SameDeferred

\* A whole request, or the last fragment of it.
CallsHandler(n, complete) ==
  LET frame == Head(pipe[Responder]) IN
  /\ TakesFrame(Responder) /\ SameDeferred /\ complete \in BOOLEAN
  /\ \/ /\ frame.type = "REQUEST_CHANNEL" /\ ~frame.follows /\ registered'[Responder]
        /\ n = frame.requestN /\ complete = frame.complete
        /\ hasFragments'[Responder] = hasFragments[Responder]
     \/ /\ frame.type = "PAYLOAD" /\ ~frame.follows /\ phase[Responder] = "assembling" /\ registered[Responder]
        /\ registered'[Responder] /\ ~hasFragments'[Responder]
        /\ n = initialRequestN[Responder] /\ complete = (isComplete[Responder] \/ frame.complete)
  /\ phase'[Responder] = "handler"
  /\ inboundDone'[Responder] = complete /\ outboundDone'[Responder] = outboundDone[Responder]
  /\ SameRequest(Responder)
  /\ Signalled(Responder, IF complete THEN <<"complete">> ELSE <<>>)
  /\ demand'[Responder] = demand[Responder] /\ cancelled'[Responder] = cancelled[Responder]
  /\ credit'[Responder] = n /\ published'[Responder] = published[Responder]
  /\ ended'[Responder] = ended[Responder] /\ cancels'[Responder] = cancels[Responder]

TakesFirstFragment ==
  LET frame == Head(pipe[Responder]) IN
  /\ TakesFrame(Responder) /\ frame.type = "REQUEST_CHANNEL" /\ frame.follows
  /\ phase'[Responder] = "assembling" /\ registered'[Responder] /\ hasFragments'[Responder]
  /\ inboundDone'[Responder] = inboundDone[Responder] /\ outboundDone'[Responder] = outboundDone[Responder]
  /\ initialRequestN'[Responder] = frame.requestN /\ isComplete'[Responder] = frame.complete
  /\ deferredError' = deferredError /\ SameSubscriber(Responder) /\ SamePublisher(Responder)

Rejects ==
  /\ Only(Responder) /\ connected' = connected /\ SameDeferred /\ Takes(Responder, <<ErrorFrame>>)
  /\ Head(pipe[Responder]).type = "REQUEST_CHANNEL"
  /\ phase'[Responder] = "rejected" /\ registered'[Responder] = registered[Responder]
  /\ hasFragments'[Responder] = hasFragments[Responder]
  /\ inboundDone'[Responder] = inboundDone[Responder] /\ outboundDone'[Responder] = outboundDone[Responder]
  /\ SameRequest(Responder) /\ SameSubscriber(Responder) /\ SamePublisher(Responder)

Returns ==
  /\ Only(Responder) /\ pipe' = pipe /\ connected' = connected /\ SameDeferred
  /\ phase[Responder] = "handler" /\ phase'[Responder] = "ready"
  /\ registered'[Responder] = registered[Responder] /\ hasFragments'[Responder] = hasFragments[Responder]
  /\ inboundDone'[Responder] = inboundDone[Responder] /\ outboundDone'[Responder] = outboundDone[Responder]
  /\ SameRequest(Responder) /\ SamePublisher(Responder)
  /\ demand'[Responder] = demand[Responder] /\ cancelled'[Responder] = cancelled[Responder]
  /\ Signalled(Responder, IF outboundDone[Responder] /\ deferredError /\ ~assembled THEN <<"error">> ELSE <<>>)

Effect ==
  \/ \E n \in Nat : WaitsForMore(n)
  \/ CompletesEarly \/ GivesUp
  \/ \E fragmented \in BOOLEAN : Asks(fragmented)
  \/ \E n \in Nat \ {0}, p \in Peers : AsksMore(p, n)
  \/ \E p \in Peers, items \in {0, 1}, complete \in BOOLEAN, frames \in Seq(Frames) :
       Publishes(p, items, complete, frames)
  \/ \E p \in Peers, frames \in Seq(Frames) : Leaves(p, frames)
  \/ CancelsInbound
  \/ \E p \in Peers : Drops(p) \/ TakesFragment(p) \/ TakesPayload(p) \/ TakesDemand(p) \/ TakesEnd(p) \/ Closes(p)
  \/ TakesCancel
  \/ \E n \in Nat, complete \in BOOLEAN : CallsHandler(n, complete)
  \/ TakesFirstFragment \/ Rejects \/ Returns

-----------------------------------------------------------------------------
(* Every step has one of the effects. *)

Signals == {"next", "complete", "error"}

\* The two ends.
LEMMA Ends ==
  ASSUME NEW p \in Peers
  PROVE  /\ Other(p) \in Peers /\ Other(p) # p /\ Other(Other(p)) = p /\ Peers = {p, Other(p)}
         /\ Requester \in Peers /\ Responder \in Peers /\ Requester # Responder
         /\ Other(Requester) = Responder /\ Other(Responder) = Requester
         /\ (p = Requester \/ p = Responder) /\ Peers = {Requester, Responder}
BY DEF Peers, Other, Requester, Responder

\* TypeOK, one variable at a time.
LEMMA Types ==
  Typed <=>
    /\ phase \in [Peers -> Phases]
    /\ phase[Requester] \in {"new", "ready", "rejected"}
    /\ phase[Responder] \in {"none", "assembling", "handler", "ready", "failed", "rejected"}
    /\ inboundDone \in [Peers -> BOOLEAN] /\ outboundDone \in [Peers -> BOOLEAN]
    /\ registered \in [Peers -> BOOLEAN] /\ hasFragments \in [Peers -> BOOLEAN]
    /\ connected \in [Peers -> BOOLEAN] /\ cancelled \in [Peers -> BOOLEAN] /\ ended \in [Peers -> BOOLEAN]
    /\ initialRequestN \in [Peers -> Nat] /\ isComplete \in [Peers -> BOOLEAN]
    /\ assembled \in BOOLEAN /\ deferredError \in BOOLEAN
    /\ pipe \in [Peers -> Seq(Frames)] /\ signals \in [Peers -> Seq(Signals)]
    /\ demand \in [Peers -> Nat] /\ credit \in [Peers -> Nat] /\ published \in [Peers -> Nat]
    /\ cancels \in [Peers -> Nat]
BY DEF Typed, TypeOK, Signals

\* A function with the value of one end replaced.
LEMMA Replaced ==
  ASSUME NEW S, NEW f \in [Peers -> S], NEW p \in Peers, NEW v \in S
  PROVE  /\ [f EXCEPT ![p] = v] \in [Peers -> S]
         /\ [f EXCEPT ![p] = v][p] = v /\ [f EXCEPT ![p] = v][Other(p)] = f[Other(p)]
BY Ends

\* What the two ends send are sequences of frames.
LEMMA FramesType ==
  /\ \A n \in Nat \ {0}, complete, fragmented \in BOOLEAN : RequestFrames(n, complete, fragmented) \in Seq(Frames)
  /\ \A complete, fragmented \in BOOLEAN : Payload(complete, fragmented) \in Seq(Frames)
  /\ <<PayloadFrame(FALSE, TRUE, FALSE)>> \in Seq(Frames)
  /\ <<CancelFrame>> \in Seq(Frames)
  /\ <<ErrorFrame>> \in Seq(Frames)
  /\ <<>> \in Seq(Frames)
  /\ \A n \in Nat \ {0} : <<RequestNFrame(n)>> \in Seq(Frames)
<1>1. /\ \A n \in Nat \ {0}, complete, follows \in BOOLEAN : RequestFrame(n, complete, follows) \in Frames
      /\ \A next, complete, follows \in BOOLEAN : PayloadFrame(next, complete, follows) \in Frames
      /\ \A n \in Nat \ {0} : RequestNFrame(n) \in Frames
      /\ CancelFrame \in Frames /\ ErrorFrame \in Frames
  BY DEF RequestFrame, PayloadFrame, CancelFrame, ErrorFrame, RequestNFrame, Frames
<1>2. ASSUME NEW f \in Frames, NEW g \in Frames
      PROVE  <<f>> \in Seq(Frames) /\ <<f, g>> \in Seq(Frames)
  OBVIOUS
<1>3. ASSUME NEW n \in Nat \ {0}, NEW complete \in BOOLEAN, NEW fragmented \in BOOLEAN
      PROVE  RequestFrames(n, complete, fragmented) \in Seq(Frames)
  BY <1>1, <1>2, Zenon DEF RequestFrames
<1>4. ASSUME NEW complete \in BOOLEAN, NEW fragmented \in BOOLEAN
      PROVE  Payload(complete, fragmented) \in Seq(Frames)
  BY <1>1, <1>2, Zenon DEF Payload
<1>5. PayloadFrame(FALSE, TRUE, FALSE) \in Frames
  BY <1>1
<1>6. <<>> \in Seq(Frames)
  OBVIOUS
<1>. QED
  BY <1>1, <1>2, <1>3, <1>4, <1>5, <1>6, Zenon

\* What Transfer does to the two pipes.
LEMMA TransferEffect ==
  ASSUME Typed, NEW p \in Peers, NEW takes \in BOOLEAN, NEW frames \in Seq(Frames),
         Transfer(p, takes, frames), takes => pipe[p] # <<>>
  PROVE  /\ pipe' \in [Peers -> Seq(Frames)]
         /\ pipe'[p] = IF takes THEN Tail(pipe[p]) ELSE pipe[p]
         /\ pipe'[Other(p)] = After(pipe[Other(p)], frames)
<1>1. PICK q \in Peers : q = Other(p) /\ p # q
  BY Ends
<1>0. pipe \in [Peers -> Seq(Frames)] /\ (connected[p] /\ connected[q] <=> IsOpen)
  BY <1>1, Ends, Types DEF IsOpen
<1>2. PICK s \in Seq(Frames), t \in Seq(Frames) : s = pipe[p] /\ t = pipe[q]
  BY <1>0
<1>3. PICK v \in Seq(Frames) : v = IF takes THEN Tail(s) ELSE s
  BY <1>2, TailFacts
<1>4. PICK w \in Seq(Frames) : w = After(t, frames)
  <2>1. t \o frames \in Seq(Frames)
    BY ConcatProperties, Zenon
  <2>. QED
    BY ONLY <2>1, t \in Seq(Frames), Zenon DEF After
<1>5. pipe' = [pipe EXCEPT ![p] = v, ![q] = w]
  <2>1. pipe' = [pipe EXCEPT ![p] = IF takes THEN Tail(pipe[p]) ELSE pipe[p],
                             ![q] = IF connected[p] /\ connected[q] THEN pipe[q] \o frames ELSE pipe[q]]
    BY <1>0, <1>1 DEF Transfer
  <2>. QED
    BY ONLY <2>1, <1>0, <1>2, <1>3, <1>4, Zenon DEF After
<1>. QED
  BY ONLY <1>0, <1>1, <1>2, <1>3, <1>4, <1>5

\* What is sent with nothing leaves the pipe as it is.
LEMMA AfterNothing ==
  ASSUME Typed, NEW p \in Peers
  PROVE  After(pipe[p], <<>>) = pipe[p]
<1>1. pipe[p] \in Seq(Frames)
  BY Types
<1>. QED
  BY <1>1 DEF After

\* A signal is appended, and nothing else.
LEMMA SignalEffect ==
  ASSUME Typed, NEW p \in Peers, NEW s \in Seq(Signals), Signal(p, s)
  PROVE  /\ Signalled(p, s) /\ signals'[Other(p)] = signals[Other(p)]
         /\ signals' \in [Peers -> Seq(Signals)]
<1>1. signals \in [Peers -> Seq(Signals)] /\ signals[p] \in Seq(Signals)
  BY Types
<1>2. PICK v \in Seq(Signals) : v = signals[p] \o s
  BY <1>1, ConcatProperties, Zenon
<1>3. signals' = [signals EXCEPT ![p] = v]
  BY <1>2, Zenon DEF Signal
<1>4. /\ signals' \in [Peers -> Seq(Signals)]
      /\ signals'[p] = v /\ signals'[Other(p)] = signals[Other(p)]
  BY ONLY <1>1, <1>3, p \in Peers, v \in Seq(Signals), Ends
<1>. QED
  BY <1>2, <1>4, Zenon DEF Signalled

\* The sequences of signals that a step adds.
LEMMA SignalsType ==
  /\ <<"next">> \in Seq(Signals) /\ <<"complete">> \in Seq(Signals)
  /\ <<"error">> \in Seq(Signals) /\ <<>> \in Seq(Signals)
  /\ \A frame : SignalsOf(frame) \in Seq(Signals)
<1>1. /\ <<"next">> \in Seq(Signals) /\ <<"complete">> \in Seq(Signals)
      /\ <<"error">> \in Seq(Signals) /\ <<>> \in Seq(Signals)
  BY DEF Signals
<1>2. ASSUME NEW frame
      PROVE  SignalsOf(frame) \in Seq(Signals)
  <2>1. (IF frame.next THEN <<"next">> ELSE <<>>) \in Seq(Signals)
    BY <1>1, Zenon
  <2>2. (IF frame.complete THEN <<"complete">> ELSE <<>>) \in Seq(Signals)
    BY <1>1, Zenon
  <2>. QED
    BY ONLY <2>1, <2>2, ConcatProperties DEF SignalsOf
<1>. QED
  BY <1>1, <1>2, Zenon

\* The types of the variables after a step, gathered.
LEMMA TypesAfter ==
  ASSUME phase' \in [Peers -> Phases],
         phase'[Requester] \in {"new", "ready", "rejected"},
         phase'[Responder] \in {"none", "assembling", "handler", "ready", "failed", "rejected"},
         inboundDone' \in [Peers -> BOOLEAN], outboundDone' \in [Peers -> BOOLEAN],
         registered' \in [Peers -> BOOLEAN], hasFragments' \in [Peers -> BOOLEAN],
         connected' \in [Peers -> BOOLEAN], cancelled' \in [Peers -> BOOLEAN], ended' \in [Peers -> BOOLEAN],
         initialRequestN' \in [Peers -> Nat], isComplete' \in [Peers -> BOOLEAN],
         assembled' \in BOOLEAN, deferredError' \in BOOLEAN,
         pipe' \in [Peers -> Seq(Frames)], signals' \in [Peers -> Seq(Signals)],
         demand' \in [Peers -> Nat], credit' \in [Peers -> Nat], published' \in [Peers -> Nat],
         cancels' \in [Peers -> Nat]
  PROVE  Typed'
BY DEF Typed, TypeOK, Signals

\* The two ends again, for a step of one of them.
LEMMA BothEnds ==
  /\ Requester \in Peers /\ Responder \in Peers /\ Requester # Responder /\ Peers = {Requester, Responder}
  /\ Other(Requester) = Responder /\ Other(Responder) = Requester
BY DEF Peers, Requester, Responder, Other

\* Counting for one end.
LEMMA Counted ==
  ASSUME NEW f \in [Peers -> Nat], NEW p \in Peers, NEW n \in Nat
  PROVE  [f EXCEPT ![p] = @ + n] \in [Peers -> Nat]
<1>1. f[p] + n \in Nat
  OBVIOUS
<1>. QED
  BY ONLY <1>1, f \in [Peers -> Nat]

\* The requester before it has a stream id.
LEMMA UnreadySteps ==
  ASSUME Typed, initialRequestN[Requester] > 0, Unready
  PROVE  Typed' /\ Effect
<1>. USE Types, BothEnds DEF phaseVars, doneVars, requestVars, subscriberVars, publisherVars, Set
<1>1. ASSUME HandleReady
      PROVE  Typed' /\ Effect
  <2>1. PICK fragmented \in BOOLEAN :
           Transfer(Requester, FALSE, RequestFrames(initialRequestN[Requester], isComplete[Requester], fragmented))
    BY <1>1, ChannelAssumption DEF HandleReady, Send
  <2>2. RequestFrames(initialRequestN[Requester], isComplete[Requester], fragmented) \in Seq(Frames)
    <3>1. initialRequestN[Requester] \in Nat \ {0} /\ isComplete[Requester] \in BOOLEAN
      OBVIOUS
    <3>. QED
      BY ONLY <3>1, FramesType, fragmented \in BOOLEAN, Zenon
  <2>3. /\ pipe' \in [Peers -> Seq(Frames)]
        /\ Sends(Requester, RequestFrames(initialRequestN[Requester], isComplete[Requester], fragmented))
    BY <2>1, <2>2, TransferEffect DEF Sends
  <2>4. Typed'
    BY <1>1, <2>3, TypesAfter DEF HandleReady, Phases, Signals
  <2>5. Asks(fragmented)
    BY <1>1, <2>3 DEF HandleReady, Asks, Only, SameState, SameRequest, SameSubscriber, SamePublisher, SameDeferred
  <2>. QED
    BY ONLY <2>4, <2>5, fragmented \in BOOLEAN, Zenon DEF Effect
<1>2. ASSUME HandleReject
      PROVE  Typed' /\ Effect
  <2>1. Signal(Requester, <<"error">>) /\ <<"error">> \in Seq(Signals)
    BY <1>2, SignalsType DEF HandleReject
  <2>2. /\ signals' \in [Peers -> Seq(Signals)]
        /\ Signalled(Requester, <<"error">>) /\ signals'[Responder] = signals[Responder]
    BY <2>1, SignalEffect
  <2>3. Typed'
    BY <1>2, <2>2, TypesAfter DEF HandleReject, Phases
  <2>4. GivesUp
    BY <1>2, <2>2 DEF HandleReject, GivesUp, Waits, Only, SameState, SameRequest, SameSubscriber, SamePublisher, SameDeferred
  <2>. QED
    BY ONLY <2>3, <2>4, Zenon DEF Effect
<1>3. ASSUME NEW n \in 1 .. MaxDemand[Requester] - demand[Requester], RequestUnready(n)
      PROVE  Typed' /\ Effect
  <2>1. n \in Nat
    BY ONLY n \in 1 .. MaxDemand[Requester] - demand[Requester]
  <2>2. Typed'
    <3>1. demand' \in [Peers -> Nat] /\ initialRequestN' \in [Peers -> Nat]
      BY <1>3, <2>1, Counted DEF RequestUnready
    <3>. QED
      BY <1>3, <3>1, TypesAfter DEF RequestUnready
  <2>3. WaitsForMore(n)
    BY <1>3, <2>1 DEF RequestUnready, WaitsForMore, Waits, Only, SameState, SameRequest, SameSubscriber, SamePublisher, SameDeferred
  <2>. QED
    BY ONLY <2>1, <2>2, <2>3, Zenon DEF Effect
<1>4. ASSUME OnCompleteUnready
      PROVE  Typed' /\ Effect
  <2>1. Typed'
    BY <1>4, TypesAfter DEF OnCompleteUnready
  <2>2. CompletesEarly
    BY <1>4 DEF OnCompleteUnready, CompletesEarly, Waits, Only, SameState, SameRequest, SameSubscriber, SamePublisher, SameDeferred
  <2>. QED
    BY ONLY <2>1, <2>2, Zenon DEF Effect
<1>5. ASSUME OnErrorUnready
      PROVE  Typed' /\ Effect
  <2>1. Typed'
    BY <1>5, TypesAfter DEF OnErrorUnready
  <2>2. GivesUp
    BY <1>5 DEF OnErrorUnready, GivesUp, Waits, Only, SameState, SameRequest, SameSubscriber, SamePublisher, SameDeferred
  <2>. QED
    BY ONLY <2>1, <2>2, Zenon DEF Effect
<1>6. ASSUME CancelUnready
      PROVE  Typed' /\ Effect
  <2>1. Typed'
    BY SMTT(40), <1>6, TypesAfter DEF CancelUnready
  <2>2. GivesUp
    BY <1>6 DEF CancelUnready, GivesUp, Waits, Only, SameState, SameRequest, SameSubscriber, SamePublisher, SameDeferred
  <2>. QED
    BY ONLY <2>1, <2>2, Zenon DEF Effect
<1>. QED
  BY ONLY Unready, <1>1, <1>2, <1>3, <1>4, <1>5, <1>6, Zenon DEF Unready

\* What the application of an end calls.
LEMMA ApplicationSteps ==
  ASSUME Typed, NEW p \in Peers, Application(p)
  PROVE  Typed' /\ Effect
<1>. USE Types DEF phaseVars, doneVars, requestVars, subscriberVars, publisherVars, Set
<1>0. PICK q \in Peers : q = Other(p) /\ p # q /\ Peers = {p, q} /\ Other(q) = p
  BY Ends
<1>1. ASSUME NEW n \in 1 .. MaxDemand[p] - demand[p], RequestMore(p, n)
      PROVE  Typed' /\ Effect
  <2>1. n \in Nat \ {0}
    BY ONLY n \in 1 .. MaxDemand[p] - demand[p]
  <2>2. <<RequestNFrame(n)>> \in Seq(Frames) /\ Transfer(p, FALSE, <<RequestNFrame(n)>>)
    BY <1>1, <2>1, FramesType DEF RequestMore, Send
  <2>3. pipe' \in [Peers -> Seq(Frames)] /\ Sends(p, <<RequestNFrame(n)>>)
    BY <2>2, TransferEffect DEF Sends
  <2>4. Typed'
    <3>1. demand' \in [Peers -> Nat]
      BY <1>1, <2>1, Counted DEF RequestMore
    <3>. QED
      BY <1>1, <2>3, <3>1, TypesAfter DEF RequestMore
  <2>5. AsksMore(p, n)
    BY <1>0, <1>1, <2>1, <2>3 DEF RequestMore, AsksMore, Only, SameState, SameRequest, SameSubscriber, SamePublisher, SameDeferred
  <2>. QED
    BY ONLY <2>1, <2>4, <2>5, p \in Peers, Zenon DEF Effect
<1>2. ASSUME NEW complete \in BOOLEAN, NEW fragmented \in Fragmented, OnNext(p, complete, fragmented)
      PROVE  Typed' /\ Effect
  <2>1. fragmented \in BOOLEAN
    BY ONLY ChannelAssumption, fragmented \in Fragmented
  <2>2. PICK frames \in Seq(Frames) : frames = Payload(complete, fragmented)
    BY <2>1, FramesType, Zenon
  <2>3. Transfer(p, FALSE, frames)
    BY <1>2, <2>2 DEF OnNext, Send
  <2>4. pipe' \in [Peers -> Seq(Frames)] /\ Sends(p, frames)
    BY <2>3, TransferEffect DEF Sends
  <2>5. Typed'
    <3>1. published' \in [Peers -> Nat]
      BY <1>2, Counted DEF OnNext
    <3>. QED
      BY <1>2, <2>4, <3>1, TypesAfter DEF OnNext, Disconnect
  <2>6. Publishes(p, 1, complete, frames)
    BY <1>0, <1>2, <2>1, <2>2, <2>4 DEF OnNext, Disconnect, Publishes, Only, SameState, SameRequest, SameSubscriber, SamePublisher, SameDeferred
  <2>. QED
    BY ONLY <2>5, <2>6, p \in Peers, frames \in Seq(Frames), complete \in BOOLEAN, Zenon DEF Effect
<1>3. ASSUME OnComplete(p)
      PROVE  Typed' /\ Effect
  <2>1. PICK frames \in Seq(Frames) : frames = <<PayloadFrame(FALSE, TRUE, FALSE)>>
    BY FramesType, Zenon
  <2>2. Transfer(p, FALSE, frames)
    BY <1>3, <2>1 DEF OnComplete, Send
  <2>3. pipe' \in [Peers -> Seq(Frames)] /\ Sends(p, frames)
    BY <2>2, TransferEffect DEF Sends
  <2>4. Typed'
    BY <1>3, <2>3, TypesAfter DEF OnComplete, Disconnect
  <2>5. Publishes(p, 0, TRUE, frames)
    <3>1. published[p] + 0 = published[p]
      OBVIOUS
    <3>. QED
    BY <1>0, <1>3, <2>1, <2>3, <3>1 DEF OnComplete, Disconnect, Publishes, Only, SameState, SameRequest, SameSubscriber, SamePublisher, SameDeferred
  <2>. QED
    BY ONLY <2>4, <2>5, p \in Peers, frames \in Seq(Frames), Zenon DEF Effect
<1>4. ASSUME OnError(p)
      PROVE  Typed' /\ Effect
  <2>1. PICK frames \in Seq(Frames) : frames = <<ErrorFrame>>
    BY FramesType, Zenon
  <2>2. Transfer(p, FALSE, frames)
    BY <1>4, <2>1 DEF OnError, Send
  <2>3. pipe' \in [Peers -> Seq(Frames)] /\ Sends(p, frames)
    BY <2>2, TransferEffect DEF Sends
  <2>4. PICK s \in Seq(Signals) : s = IF HasReceiver(p) /\ ~inboundDone[p] THEN <<"error">> ELSE <<>>
    BY SignalsType, Zenon
  <2>5. Signal(p, s)
    BY <1>4, <2>4 DEF OnError
  <2>6. /\ signals' \in [Peers -> Seq(Signals)]
        /\ Signalled(p, s) /\ signals'[q] = signals[q]
    BY <1>0, <2>5, SignalEffect
  <2>7. Typed'
    BY <1>4, <2>3, <2>6, TypesAfter DEF OnError, Disconnect
  <2>8. Leaves(p, frames)
    BY <1>0, <1>4, <2>1, <2>3, <2>4, <2>6 DEF OnError, Disconnect, Leaves, Only, SameState, SameRequest, SameSubscriber, SamePublisher, SameDeferred, BothDone
  <2>. QED
    BY ONLY <2>7, <2>8, p \in Peers, frames \in Seq(Frames), Zenon DEF Effect
<1>. QED
  BY ONLY Application(p), <1>1, <1>2, <1>3, <1>4, Zenon DEF Application

\* The two ways to cancel.
LEMMA CancelSteps ==
  ASSUME Typed, CancelRequester \/ CancelResponder
  PROVE  Typed' /\ Effect
<1>. USE Types, BothEnds DEF phaseVars, doneVars, requestVars, subscriberVars, publisherVars, Set
<1>1. ASSUME CancelRequester
      PROVE  Typed' /\ Effect
  <2>1. PICK frames \in Seq(Frames) : frames = IF inboundDone[Requester] THEN <<ErrorFrame>> ELSE <<CancelFrame>>
    BY FramesType, Zenon
  <2>2. Transfer(Requester, FALSE, frames)
    BY <1>1, <2>1 DEF CancelRequester, Send
  <2>3. pipe' \in [Peers -> Seq(Frames)] /\ Sends(Requester, frames)
    BY <2>2, TransferEffect DEF Sends
  <2>4. Typed'
    <3>1. cancels[Requester] \in Nat /\ cancels[Requester] + 1 \in Nat
      BY SMTT(40)
    <3>2. cancels' \in [Peers -> Nat]
      BY <1>1, <3>1 DEF CancelRequester
    <3>. QED
      BY <1>1, <2>3, <3>2, TypesAfter DEF CancelRequester, Disconnect
  <2>5. Leaves(Requester, frames)
    BY <1>1, <2>1, <2>3 DEF CancelRequester, Disconnect, Leaves, HasStream, Only, SameState, SameRequest, SameSubscriber, SamePublisher, SameDeferred, BothDone
  <2>. QED
    BY ONLY <2>4, <2>5, BothEnds, frames \in Seq(Frames), Zenon DEF Effect
<1>2. ASSUME CancelResponder
      PROVE  Typed' /\ Effect
  <2>1. Transfer(Responder, FALSE, <<CancelFrame>>) /\ <<CancelFrame>> \in Seq(Frames)
    BY <1>2, FramesType DEF CancelResponder, Send
  <2>2. pipe' \in [Peers -> Seq(Frames)] /\ Sends(Responder, <<CancelFrame>>)
    BY <2>1, TransferEffect DEF Sends
  <2>3. Typed'
    BY <1>2, <2>2, TypesAfter DEF CancelResponder, Disconnect
  <2>4. CancelsInbound
    BY <1>2, <2>2 DEF CancelResponder, Disconnect, CancelsInbound, Only, SameState, SameRequest, SameSubscriber, SamePublisher, SameDeferred
  <2>. QED
    BY ONLY <2>3, <2>4, Zenon DEF Effect
<1>. QED
  BY <1>1, <1>2

\* What is at the head of a pipe is a frame, with the fields of its type.
LEMMA HeadFields ==
  ASSUME Typed, NEW p \in Peers, pipe[p] # <<>>
  PROVE  /\ Head(pipe[p]) \in Frames
         /\ Head(pipe[p]).type \in {"REQUEST_CHANNEL", "REQUEST_N"} => Head(pipe[p]).requestN \in Nat \ {0}
         /\ Head(pipe[p]).type \in {"REQUEST_CHANNEL", "PAYLOAD"} =>
              Head(pipe[p]).complete \in BOOLEAN /\ Head(pipe[p]).follows \in BOOLEAN
         /\ Head(pipe[p]).type = "PAYLOAD" => Head(pipe[p]).next \in BOOLEAN
<1>1. PICK s \in Seq(Frames) : s = pipe[p]
  BY Types
<1>2. PICK f \in Frames : f = Head(s)
  BY <1>1
<1>3. /\ f.type \in {"REQUEST_CHANNEL", "REQUEST_N"} => f.requestN \in Nat \ {0}
      /\ f.type \in {"REQUEST_CHANNEL", "PAYLOAD"} => f.complete \in BOOLEAN /\ f.follows \in BOOLEAN
      /\ f.type = "PAYLOAD" => f.next \in BOOLEAN
  BY ONLY f \in Frames DEF Frames
<1>. QED
  BY ONLY <1>1, <1>2, <1>3

\* A frame is taken and none is sent.
LEMMA ReplyEffect ==
  ASSUME Typed, NEW p \in Peers, pipe[p] # <<>>, phase[p] # "handler", Reply(p, <<>>)
  PROVE  pipe' \in [Peers -> Seq(Frames)] /\ Takes(p, <<>>)
<1>1. <<>> \in Seq(Frames) /\ Transfer(p, TRUE, <<>>)
  BY FramesType DEF Reply
<1>. QED
  BY <1>1, TransferEffect DEF Takes

\* The frames that either end handles.
LEMMA ReceiveSteps ==
  ASSUME Typed, NEW p \in Peers, Receive(p)
  PROVE  Typed' /\ Effect
<1>. USE Types DEF phaseVars, doneVars, requestVars, subscriberVars, publisherVars, Set
<1>0. PICK q \in Peers : q = Other(p) /\ p # q /\ Peers = {p, q} /\ Other(q) = p
  BY Ends
<1>a. /\ pipe[p] # <<>> /\ phase[p] # "handler" /\ Reply(p, <<>>)
  BY Zenon DEF Receive, DropFrame, HandleFragment, HandlePayload, HandleRequestN, Routed, Received
<1>b. pipe' \in [Peers -> Seq(Frames)] /\ Takes(p, <<>>)
  BY <1>a, ReplyEffect
<1>c. /\ Head(pipe[p]).type = "REQUEST_N" => Head(pipe[p]).requestN \in Nat
      /\ Head(pipe[p]).type = "PAYLOAD" => Head(pipe[p]).complete \in BOOLEAN /\ Head(pipe[p]).next \in BOOLEAN
  BY <1>a, HeadFields
<1>1. ASSUME DropFrame(p)
      PROVE  Typed' /\ Effect
  <2>1. Typed'
    BY <1>1, <1>b, TypesAfter DEF DropFrame
  <2>2. Drops(p)
    BY <1>0, <1>1, <1>b DEF DropFrame, Drops, TakesFrame, Only, SameState, SameRequest, SameSubscriber, SamePublisher, SameDeferred
  <2>. QED
    BY ONLY <2>1, <2>2, p \in Peers, Zenon DEF Effect
<1>2. ASSUME HandleFragment(p)
      PROVE  Typed' /\ Effect
  <2>1. Typed'
    BY <1>2, <1>b, TypesAfter DEF HandleFragment
  <2>2. TakesFragment(p)
    BY <1>0, <1>2, <1>b DEF HandleFragment, Routed, Received, TakesFragment, TakesFrame, Only, SameState, SameRequest, SameSubscriber, SamePublisher, SameDeferred
  <2>. QED
    BY ONLY <2>1, <2>2, p \in Peers, Zenon DEF Effect
<1>3. ASSUME HandlePayload(p)
      PROVE  Typed' /\ Effect
  <2>1. Head(pipe[p]).type = "PAYLOAD" /\ Signal(p, SignalsOf(Head(pipe[p])))
    BY <1>3 DEF HandlePayload, Routed, Received, SignalsOf
  <2>2. PICK s \in Seq(Signals) : s = SignalsOf(Head(pipe[p]))
    BY SignalsType, Zenon
  <2>3. /\ signals' \in [Peers -> Seq(Signals)]
        /\ Signalled(p, s) /\ signals'[q] = signals[q]
    BY <1>0, <2>1, <2>2, SignalEffect
  <2>4. Typed'
    BY <1>3, <1>b, <1>c, <2>1, <2>3, TypesAfter DEF HandlePayload, Disconnect
  <2>5. TakesPayload(p)
    BY <1>0, <1>3, <1>b, <1>c, <2>1, <2>2, <2>3 DEF HandlePayload, Disconnect, Routed, Received, TakesPayload, TakesFrame, Only, SameState, SameRequest, SameSubscriber, SamePublisher, SameDeferred
  <2>. QED
    BY ONLY <2>4, <2>5, p \in Peers, Zenon DEF Effect
<1>4. ASSUME HandleRequestN(p)
      PROVE  Typed' /\ Effect
  <2>1. PICK n \in Nat : n = Head(pipe[p]).requestN
    BY <1>4, <1>c DEF HandleRequestN, Routed, Received
  <2>2. PICK m \in Nat : m = IF p = Requester /\ outboundDone[p] THEN credit[p] ELSE credit[p] + n
    <3>1. credit[p] \in Nat
      OBVIOUS
    <3>. QED
      BY ONLY <3>1, n \in Nat
  <2>3. credit' = [credit EXCEPT ![p] = m]
    BY <1>4, <2>1, <2>2 DEF HandleRequestN
  <2>4. Typed'
    <3>1. credit' \in [Peers -> Nat]
      BY <2>3
    <3>. QED
      BY ONLY Typed, <1>4, <1>b, <3>1, Types, TypesAfter, p \in Peers DEF HandleRequestN
  <2>5. TakesDemand(p)
    BY <1>0, <1>4, <1>b, <2>1, <2>2, <2>3 DEF HandleRequestN, Routed, Received, TakesDemand, TakesFrame, Only, SameState, SameRequest, SameSubscriber, SamePublisher, SameDeferred
  <2>. QED
    BY ONLY <2>4, <2>5, p \in Peers, Zenon DEF Effect
<1>. QED
  BY ONLY Receive(p), <1>1, <1>2, <1>3, <1>4, Zenon DEF Receive

\* The frames that one end handles, but for the request.
LEMMA EndSteps ==
  ASSUME Typed, ReceiveRequester \/ HandleEnd
  PROVE  Typed' /\ Effect
<1>. USE Types, BothEnds DEF phaseVars, doneVars, requestVars, subscriberVars, publisherVars, Set
<1>1. ASSUME HandleCancel
      PROVE  Typed' /\ Effect
  <2>1. pipe[Requester] # <<>> /\ phase[Requester] # "handler" /\ Reply(Requester, <<>>)
    BY <1>1 DEF HandleCancel, Routed, Received
  <2>2. pipe' \in [Peers -> Seq(Frames)] /\ Takes(Requester, <<>>)
    BY <2>1, ReplyEffect
  <2>3. cancels[Requester] \in Nat /\ cancels[Requester] + 1 \in Nat
    <3>1. cancels[Requester] \in Nat
      OBVIOUS
    <3>. QED
      BY ONLY <3>1
  <2>4. cancels' \in [Peers -> Nat]
    BY <1>1, <2>3 DEF HandleCancel
  <2>5. Typed'
    BY <1>1, <2>2, <2>4, TypesAfter DEF HandleCancel, Disconnect
  <2>6. TakesCancel
    BY <1>1, <2>2 DEF HandleCancel, Disconnect, Routed, Received, TakesCancel, TakesFrame, Only, SameState, SameRequest, SameSubscriber, SamePublisher, SameDeferred
  <2>. QED
    BY ONLY <2>5, <2>6, Zenon DEF Effect
<1>2. ASSUME HandleError
      PROVE  Typed' /\ Effect
  <2>1. pipe[Requester] # <<>> /\ phase[Requester] # "handler" /\ Reply(Requester, <<>>)
    BY <1>2 DEF HandleError, Routed, Received
  <2>2. pipe' \in [Peers -> Seq(Frames)] /\ Takes(Requester, <<>>)
    BY <2>1, ReplyEffect
  <2>3. cancels[Requester] \in Nat /\ cancels[Requester] + 1 \in Nat
    <3>1. cancels[Requester] \in Nat
      OBVIOUS
    <3>. QED
      BY ONLY <3>1
  <2>4. cancels' \in [Peers -> Nat]
    BY <1>2, <2>3 DEF HandleError
  <2>5. Signal(Requester, <<"error">>) /\ <<"error">> \in Seq(Signals)
    BY <1>2, SignalsType DEF HandleError
  <2>6. /\ signals' \in [Peers -> Seq(Signals)]
        /\ Signalled(Requester, <<"error">>) /\ signals'[Responder] = signals[Responder]
    BY <2>5, SignalEffect
  <2>7. Typed'
    BY <1>2, <2>2, <2>4, <2>6, TypesAfter DEF HandleError, Disconnect
  <2>8. TakesEnd(Requester)
    BY <1>2, <2>2, <2>6 DEF HandleError, Disconnect, Routed, Received, TakesEnd, IsEnded, TakesFrame, Only, SameState, SameRequest, SameSubscriber, SamePublisher, SameDeferred
  <2>. QED
    BY ONLY <2>7, <2>8, BothEnds, Zenon DEF Effect
<1>3. ASSUME HandleEnd
      PROVE  Typed' /\ Effect
  <2>1. pipe[Responder] # <<>> /\ phase[Responder] # "handler" /\ Reply(Responder, <<>>)
    BY <1>3 DEF HandleEnd, Routed, Received
  <2>2. pipe' \in [Peers -> Seq(Frames)] /\ Takes(Responder, <<>>)
    BY <2>1, ReplyEffect
  <2>3. cancels[Responder] \in Nat /\ cancels[Responder] + 1 \in Nat
    <3>1. cancels[Responder] \in Nat
      OBVIOUS
    <3>. QED
      BY ONLY <3>1
  <2>4. cancels' \in [Peers -> Nat]
    BY <1>3, <2>3 DEF HandleEnd, EndBoth
  <2>5. PICK s \in Seq(Signals) : s = IF HasReceiver(Responder) /\ ~inboundDone[Responder] THEN <<"error">> ELSE <<>>
    BY SignalsType, Zenon
  <2>6. Signal(Responder, s)
    BY <1>3, <2>5 DEF HandleEnd, EndBoth
  <2>7. /\ signals' \in [Peers -> Seq(Signals)]
        /\ Signalled(Responder, s) /\ signals'[Requester] = signals[Requester]
    BY <2>6, SignalEffect
  <2>8. Typed'
    BY <1>3, <2>2, <2>4, <2>7, TypesAfter DEF HandleEnd, EndBoth, Disconnect
  <2>9. TakesEnd(Responder)
    BY <1>3, <2>2, <2>5, <2>7 DEF HandleEnd, EndBoth, Disconnect, Routed, Received, TakesEnd, IsEnded, TakesFrame, Only, SameState, SameRequest, SameSubscriber, SamePublisher, SameDeferred
  <2>. QED
    BY ONLY <2>8, <2>9, BothEnds, Zenon DEF Effect
<1>. QED
  BY <1>1, <1>2, <1>3 DEF ReceiveRequester

\* The request at the responder.
LEMMA RequestSteps ==
  ASSUME Typed, ReceiveResponder, ~HandleEnd
  PROVE  Typed' /\ Effect
<1>. USE Types, BothEnds DEF phaseVars, doneVars, requestVars, subscriberVars, publisherVars, Set
<1>a. pipe[Responder] # <<>> /\ phase[Responder] # "handler"
  BY DEF ReceiveResponder, HandleRequest, HandleFirstFragment, HandleLastFragment, RejectRequest, Routed, Received
<1>c. /\ Head(pipe[Responder]).type = "REQUEST_CHANNEL" => Head(pipe[Responder]).requestN \in Nat
      /\ Head(pipe[Responder]).type \in {"REQUEST_CHANNEL", "PAYLOAD"} => Head(pipe[Responder]).complete \in BOOLEAN
  BY <1>a, HeadFields
<1>0. ASSUME NEW n \in Nat, NEW complete \in BOOLEAN, CallHandler(n, complete)
      PROVE  /\ pipe' \in [Peers -> Seq(Frames)] /\ Takes(Responder, <<>>)
             /\ signals' \in [Peers -> Seq(Signals)] /\ signals'[Requester] = signals[Requester]
             /\ Signalled(Responder, IF complete THEN <<"complete">> ELSE <<>>)
             /\ phase' = [phase EXCEPT ![Responder] = "handler"]
             /\ inboundDone' = [inboundDone EXCEPT ![Responder] = complete]
             /\ credit' = [credit EXCEPT ![Responder] = n] /\ credit' \in [Peers -> Nat]
  <2>1. PICK s \in Seq(Signals) : s = IF complete THEN <<"complete">> ELSE <<>>
    BY SignalsType, Zenon
  <2>2. Reply(Responder, <<>>) /\ Signal(Responder, s)
    BY <1>0, <2>1 DEF CallHandler
  <2>3. pipe' \in [Peers -> Seq(Frames)] /\ Takes(Responder, <<>>)
    BY <1>a, <2>2, ReplyEffect
  <2>4. /\ signals' \in [Peers -> Seq(Signals)]
        /\ Signalled(Responder, s) /\ signals'[Requester] = signals[Requester]
    BY <2>2, SignalEffect
  <2>. QED
    BY <1>0, <2>1, <2>3, <2>4 DEF CallHandler
<1>1. ASSUME HandleRequest
      PROVE  Typed' /\ Effect
  <2>1. PICK n \in Nat, complete \in BOOLEAN :
          n = Head(pipe[Responder]).requestN /\ complete = Head(pipe[Responder]).complete
    BY <1>1, <1>c DEF HandleRequest, Received
  <2>2. CallHandler(n, complete)
    BY <1>1, <2>1 DEF HandleRequest
  <2>3. /\ pipe' \in [Peers -> Seq(Frames)] /\ Takes(Responder, <<>>)
        /\ signals' \in [Peers -> Seq(Signals)] /\ signals'[Requester] = signals[Requester]
        /\ Signalled(Responder, IF complete THEN <<"complete">> ELSE <<>>)
        /\ phase' = [phase EXCEPT ![Responder] = "handler"]
        /\ inboundDone' = [inboundDone EXCEPT ![Responder] = complete]
        /\ credit' = [credit EXCEPT ![Responder] = n] /\ credit' \in [Peers -> Nat]
    BY <1>0, <2>2, Zenon
  <2>4. Typed'
    BY <1>1, <2>3, TypesAfter DEF HandleRequest, Phases
  <2>5. CallsHandler(n, complete)
    BY <1>1, <2>1, <2>3 DEF HandleRequest, Received, CallsHandler, TakesFrame, Only, SameState, SameRequest, SameSubscriber, SamePublisher, SameDeferred
  <2>. QED
    BY ONLY <2>4, <2>5, n \in Nat, complete \in BOOLEAN, Zenon DEF Effect
<1>2. ASSUME HandleFirstFragment
      PROVE  Typed' /\ Effect
  <2>1. Reply(Responder, <<>>) /\ Head(pipe[Responder]).type = "REQUEST_CHANNEL"
    BY <1>2 DEF HandleFirstFragment, Received
  <2>2. pipe' \in [Peers -> Seq(Frames)] /\ Takes(Responder, <<>>)
    BY <1>a, <2>1, ReplyEffect
  <2>3. Typed'
    BY <1>2, <1>c, <2>1, <2>2, TypesAfter DEF HandleFirstFragment, Phases
  <2>4. TakesFirstFragment
    BY <1>2, <2>2 DEF HandleFirstFragment, Received, TakesFirstFragment, TakesFrame, Only, SameState, SameRequest, SameSubscriber, SamePublisher, SameDeferred
  <2>. QED
    BY ONLY <2>3, <2>4, Zenon DEF Effect
<1>3. ASSUME HandleLastFragment
      PROVE  Typed' /\ Effect
  <2>1. PICK n \in Nat, complete \in BOOLEAN :
          n = initialRequestN[Responder] /\ complete = (isComplete[Responder] \/ Head(pipe[Responder]).complete)
    BY <1>3, <1>c DEF HandleLastFragment, Routed, Received
  <2>2. CallHandler(n, complete)
    BY <1>3, <2>1 DEF HandleLastFragment
  <2>3. /\ pipe' \in [Peers -> Seq(Frames)] /\ Takes(Responder, <<>>)
        /\ signals' \in [Peers -> Seq(Signals)] /\ signals'[Requester] = signals[Requester]
        /\ Signalled(Responder, IF complete THEN <<"complete">> ELSE <<>>)
        /\ phase' = [phase EXCEPT ![Responder] = "handler"]
        /\ inboundDone' = [inboundDone EXCEPT ![Responder] = complete]
        /\ credit' = [credit EXCEPT ![Responder] = n] /\ credit' \in [Peers -> Nat]
    BY <1>0, <2>2, Zenon
  <2>4. Typed'
    BY <1>3, <2>3, TypesAfter DEF HandleLastFragment, Phases
  <2>5. CallsHandler(n, complete)
    BY <1>3, <2>1, <2>3 DEF HandleLastFragment, Routed, Received, CallsHandler, TakesFrame, Only, SameState, SameRequest, SameSubscriber, SamePublisher, SameDeferred
  <2>. QED
    BY ONLY <2>4, <2>5, n \in Nat, complete \in BOOLEAN, Zenon DEF Effect
<1>4. ASSUME RejectRequest
      PROVE  Typed' /\ Effect
  <2>1. Transfer(Responder, TRUE, <<ErrorFrame>>) /\ <<ErrorFrame>> \in Seq(Frames)
    BY <1>4, FramesType DEF RejectRequest, Reply
  <2>2. pipe' \in [Peers -> Seq(Frames)] /\ Takes(Responder, <<ErrorFrame>>)
    BY <1>a, <2>1, TransferEffect DEF Takes
  <2>3. Typed'
    BY <1>4, <2>2, TypesAfter DEF RejectRequest, Phases
  <2>4. Rejects
    BY <1>4, <2>2 DEF RejectRequest, Received, Rejects, TakesFrame, Only, SameState, SameRequest, SameSubscriber, SamePublisher, SameDeferred
  <2>. QED
    BY ONLY <2>3, <2>4, Zenon DEF Effect
<1>. QED
  BY ONLY ReceiveResponder, ~HandleEnd, <1>1, <1>2, <1>3, <1>4, Zenon DEF ReceiveResponder

\* The handler of the responder returns or throws.
LEMMA HandlerSteps ==
  ASSUME Typed, Handler
  PROVE  Typed' /\ Effect
<1>. USE Types, BothEnds DEF phaseVars, doneVars, requestVars, subscriberVars, publisherVars, Set
<1>1. ASSUME HandlerReturns
      PROVE  Typed' /\ Effect
  <2>1. PICK s \in Seq(Signals) :
          s = IF outboundDone[Responder] /\ deferredError /\ ~assembled THEN <<"error">> ELSE <<>>
    BY SignalsType, Zenon
  <2>2. Signal(Responder, s)
    BY <1>1, <2>1 DEF HandlerReturns
  <2>3. /\ signals' \in [Peers -> Seq(Signals)]
        /\ Signalled(Responder, s) /\ signals'[Requester] = signals[Requester]
    BY <2>2, SignalEffect
  <2>4. Typed'
    BY <1>1, <2>3, TypesAfter DEF HandlerReturns, Phases
  <2>5. Returns
    BY <1>1, <2>1, <2>3 DEF HandlerReturns, Returns, Only, SameState, SameRequest, SameSubscriber, SamePublisher, SameDeferred
  <2>. QED
    BY ONLY <2>4, <2>5, Zenon DEF Effect
<1>2. ASSUME HandlerThrows
      PROVE  Typed' /\ Effect
  <2>1. PICK frames \in Seq(Frames) :
          frames = IF ~outboundDone[Responder] THEN <<ErrorFrame>>
                   ELSE IF ~inboundDone[Responder] THEN <<CancelFrame>> ELSE <<>>
    BY FramesType, Zenon
  <2>2. Transfer(Responder, FALSE, frames)
    BY <1>2, <2>1 DEF HandlerThrows, Send
  <2>3. pipe' \in [Peers -> Seq(Frames)] /\ Sends(Responder, frames)
    BY <2>2, TransferEffect DEF Sends
  <2>4. Typed'
    BY <1>2, <2>3, TypesAfter DEF HandlerThrows, Disconnect, Phases
  <2>5. frames = <<ErrorFrame>> => ~outboundDone[Responder]
    BY <2>1 DEF ErrorFrame, CancelFrame
  <2>6. Leaves(Responder, frames)
    BY <1>2, <2>1, <2>3, <2>5 DEF HandlerThrows, Disconnect, Leaves, HasStream, Only, SameState, SameRequest, SameSubscriber, SamePublisher, SameDeferred, BothDone
  <2>. QED
    BY ONLY <2>4, <2>6, BothEnds, frames \in Seq(Frames), Zenon DEF Effect
<1>. QED
  BY <1>1, <1>2 DEF Handler

\* An end of the connection closes.
LEMMA CloseSteps ==
  ASSUME Typed, NEW p \in Peers, Close(p)
  PROVE  Typed' /\ Effect
<1>. USE Types DEF phaseVars, doneVars, requestVars, subscriberVars, publisherVars, Set
<1>0. PICK q \in Peers : q = Other(p) /\ p # q /\ Peers = {p, q} /\ Other(q) = p
  BY Ends
<1>1. pipe' \in [Peers -> Seq(Frames)] /\ pipe'[p] = <<>> /\ pipe'[q] = pipe[q]
  BY <1>0, FramesType DEF Close
<1>2. CASE ~registered[p]
  <2>1. Typed'
    BY <1>1, <1>2, TypesAfter DEF Close
  <2>2. Closes(p)
    BY <1>0, <1>1, <1>2 DEF Close, Closes, Only, SameState, SameRequest, SameSubscriber, SamePublisher, SameDeferred
  <2>. QED
    BY ONLY <2>1, <2>2, p \in Peers, Zenon DEF Effect
<1>3. CASE registered[p]
  <2>0. /\ EndBoth(p) /\ connected[p] /\ phase[p] # "handler" /\ connected' = [connected EXCEPT ![p] = FALSE]
        /\ UNCHANGED <<phaseVars, registered, requestVars, demand, cancelled, credit, published, ended>>
    BY <1>3, Zenon DEF Close
  <2>1. cancels[p] \in Nat /\ cancels[p] + 1 \in Nat
    <3>1. cancels[p] \in Nat
      OBVIOUS
    <3>. QED
      BY ONLY <3>1
  <2>2. cancels' \in [Peers -> Nat]
    BY ONLY <2>0, <2>1, Typed, Types DEF EndBoth
  <2>3. PICK s \in Seq(Signals) : s = IF HasReceiver(p) /\ ~inboundDone[p] THEN <<"error">> ELSE <<>>
    BY SignalsType, Zenon
  <2>4. Signal(p, s)
    BY <2>0, <2>3 DEF EndBoth
  <2>5. /\ signals' \in [Peers -> Seq(Signals)]
        /\ Signalled(p, s) /\ signals'[q] = signals[q]
    BY <1>0, <2>4, SignalEffect
  <2>6. Typed'
    BY <1>1, <2>0, <2>2, <2>5, TypesAfter DEF EndBoth
  <2>7. Closes(p)
    BY <1>0, <1>1, <1>3, <2>0, <2>3, <2>5 DEF EndBoth, Closes, IsEnded, Only, SameState, SameRequest, SameSubscriber, SamePublisher, SameDeferred
  <2>. QED
    BY ONLY <2>6, <2>7, p \in Peers, Zenon DEF Effect
<1>. QED
  BY <1>2, <1>3

\* Every step has one of the effects.
LEMMA StepEffect ==
  ASSUME Typed, initialRequestN[Requester] > 0, Next
  PROVE  Typed' /\ Effect
<1>1. CASE Unready
  BY <1>1, UnreadySteps
<1>2. ASSUME NEW p \in Peers, Application(p) \/ Receive(p) \/ Close(p)
      PROVE  Typed' /\ Effect
  BY <1>2, ApplicationSteps, ReceiveSteps, CloseSteps
<1>3. CASE CancelRequester \/ CancelResponder
  BY <1>3, CancelSteps
<1>4. CASE ReceiveRequester \/ ReceiveResponder
  BY <1>4, EndSteps, RequestSteps
<1>5. CASE Handler
  BY <1>5, HandlerSteps
<1>. QED
  BY ONLY Next, <1>1, <1>2, <1>3, <1>4, <1>5, Zenon DEF Next

-----------------------------------------------------------------------------
(* What the effects have in common. *)

\* What p's stream knows changes in one direction only, and it leaves the
\* registry when its second direction is done.
Progresses(p) ==
  /\ inboundDone[p] => inboundDone'[p]
  /\ outboundDone[p] => outboundDone'[p]
  /\ registered'[p] = (registered[p] /\ (BothDone(p) \/ ~(inboundDone'[p] /\ outboundDone'[p])))

\* An application uses p's stream.
Uses(p) ==
  /\ Only(p) /\ SameRequest(p) /\ connected' = connected /\ HasStream(p)
  /\ pipe'[p] = pipe[p] /\ (~IsOpen => pipe'[Other(p)] = pipe[Other(p)])
  /\ \/ phase'[p] = phase[p]
     \/ p = Responder /\ phase'[p] = "failed" /\ inboundDone'[p] /\ outboundDone'[p]
  /\ hasFragments'[p] => hasFragments[p]
  /\ Progresses(p)

\* p's stream, or its multiplexer alone, takes a frame that is no request.
Receives(p) ==
  /\ Only(p) /\ SameRequest(p) /\ connected' = connected /\ pipe[p] # <<>> /\ phase[p] # "handler"
  /\ pipe'[p] = Tail(pipe[p]) /\ pipe'[Other(p)] = pipe[Other(p)]
  /\ phase'[p] = phase[p] /\ (~registered[p] => SameState(p))
  /\ phase[p] = "assembling" => inboundDone'[p] = inboundDone[p] /\ outboundDone'[p] = outboundDone[p]
  /\ Progresses(p)

\* The effects of what applications call.
LEMMA CallsUse ==
  ASSUME Typed, NEW p \in Peers
  PROVE  /\ \A n \in Nat : AsksMore(p, n) => Uses(p)
         /\ \A items, complete, frames : Publishes(p, items, complete, frames) => Uses(p)
         /\ \A frames : Leaves(p, frames) => Uses(p)
         /\ CancelsInbound => Uses(Responder)
<1>0. registered[p] \in BOOLEAN /\ registered[Responder] \in BOOLEAN
  BY Types, BothEnds
<1>1. ASSUME NEW n \in Nat, AsksMore(p, n)
      PROVE  Uses(p)
  BY <1>0, <1>1 DEF AsksMore, Uses, Progresses, BothDone, Sends, After, SameState
<1>2. ASSUME NEW items, NEW complete, NEW frames, Publishes(p, items, complete, frames)
      PROVE  Uses(p)
  BY <1>0, <1>2 DEF Publishes, Uses, Progresses, BothDone, Sends, After
<1>3. ASSUME NEW frames, Leaves(p, frames)
      PROVE  Uses(p)
  BY <1>0, <1>3 DEF Leaves, Uses, Progresses, BothDone, Sends, After
<1>4. ASSUME CancelsInbound
      PROVE  Uses(Responder)
  BY <1>0, <1>4 DEF CancelsInbound, Uses, Progresses, BothDone, Sends, After
<1>. QED
  BY <1>1, <1>2, <1>3, <1>4

\* A stream that waits for the rest of a payload takes nothing else, one that
\* is done is not in the registry, and frames arrive at open ends only.
LEMMA Arriving ==
  ASSUME IInv, NEW p \in Peers, pipe[p] # <<>>
  PROVE  /\ connected[p]
         /\ phase[p] = "assembling" => Finishes(Head(pipe[p]))
         /\ hasFragments[p] /\ ~BothDone(p) => Finishes(Head(pipe[p]))
         /\ registered[p] => ~BothDone(p) /\ phase[p] \in {"ready", "assembling", "handler", "failed"}
         /\ ~registered[p] => BothDone(p) \/ phase[p] \in {"new", "none", "rejected"}
<1>1. connected[p]
  BY DEF IInv, PhaseInv
<1>2. phase[p] \in Phases
  BY Types DEF IInv
<1>. QED
  BY <1>1, <1>2, BothEnds DEF IInv, FragmentsInv, RegisteredWhileOpen, PhaseInv, BothDone, Phases

\* The effects of frames that are no request.
LEMMA FramesReceived ==
  ASSUME IInv, Typed', NEW p \in Peers, Drops(p) \/ TakesFragment(p) \/ TakesPayload(p) \/ TakesDemand(p)
                                  \/ TakesEnd(p) \/ (p = Requester /\ TakesCancel)
  PROVE  Receives(p)
<1>a. registered' \in [Peers -> BOOLEAN]
  BY DEF Typed, TypeOK
<1>0. /\ Typed /\ Takes(p, <<>>) /\ Other(p) \in Peers
      /\ registered[p] \in BOOLEAN /\ registered'[p] \in BOOLEAN
  BY <1>a, Types, Ends DEF IInv, Drops, TakesFragment, TakesPayload, TakesDemand, TakesEnd, TakesCancel, TakesFrame
<1>1. pipe[p] # <<>> /\ phase[p] # "handler" /\ pipe'[p] = Tail(pipe[p]) /\ pipe'[Other(p)] = pipe[Other(p)]
  BY <1>0, AfterNothing DEF Takes
<1>2. /\ connected[p]
      /\ phase[p] = "assembling" => Finishes(Head(pipe[p]))
      /\ registered[p] => ~BothDone(p)
  BY <1>1, Arriving
<1>3. CASE Drops(p)
  BY <1>0, <1>1, <1>3 DEF Drops, TakesFrame, Receives, Progresses, BothDone, SameState
<1>4. CASE TakesFragment(p)
  BY <1>0, <1>1, <1>2, <1>4 DEF TakesFragment, TakesFrame, Receives, Progresses, BothDone
<1>5. CASE TakesPayload(p)
  BY <1>0, <1>1, <1>2, <1>5 DEF TakesPayload, TakesFrame, Receives, Progresses, BothDone, HasReceiver
<1>6. CASE TakesDemand(p)
  BY <1>0, <1>1, <1>2, <1>6 DEF TakesDemand, TakesFrame, Receives, Progresses, BothDone, SameState
<1>7. CASE TakesEnd(p)
  BY <1>0, <1>1, <1>2, <1>7 DEF TakesEnd, IsEnded, TakesFrame, Receives, Progresses, BothDone, Finishes
<1>8. CASE p = Requester /\ TakesCancel
  BY <1>0, <1>1, <1>2, <1>8 DEF TakesCancel, TakesFrame, Receives, Progresses, BothDone, Finishes
<1>. QED
  BY <1>3, <1>4, <1>5, <1>6, <1>7, <1>8

-----------------------------------------------------------------------------
(* Each effect preserves each part of the invariant. *)

\* The registries, when a stream is used or takes a frame.
LEMMA ProgressRegistry ==
  ASSUME IInv, NEW p \in Peers, Uses(p) \/ Receives(p)
  PROVE  RegisteredWhileOpen'
<1>. DEFINE Open(ph, in, out) == ph \in {"ready", "assembling", "handler", "failed"} /\ ~(in /\ out)
<1>0. PICK q \in Peers : q = Other(p) /\ p # q /\ Peers = {p, q} /\ Other(q) = p
  BY Ends
<1>1. \A r \in Peers : connected[r] => (registered[r] <=> Open(phase[r], inboundDone[r], outboundDone[r]))
  BY DEF IInv, RegisteredWhileOpen, BothDone
<1>2. /\ connected' = connected /\ phase'[q] = phase[q] /\ registered'[q] = registered[q]
      /\ inboundDone'[q] = inboundDone[q] /\ outboundDone'[q] = outboundDone[q]
      /\ registered[p] \in BOOLEAN /\ Progresses(p) /\ phase[p] \in Phases
  BY <1>0, Types DEF IInv, Uses, Receives, Only, SameState
<1>3. \/ phase'[p] = phase[p]
      \/ phase[p] \in {"handler", "ready"} /\ phase'[p] = "failed" /\ inboundDone'[p] /\ outboundDone'[p]
  BY DEF Uses, Receives, HasStream
<1>4. connected'[p] => (registered'[p] <=> Open(phase'[p], inboundDone'[p], outboundDone'[p]))
  BY <1>1, <1>2, <1>3 DEF Progresses, BothDone
<1>5. connected'[q] => (registered'[q] <=> Open(phase'[q], inboundDone'[q], outboundDone'[q]))
  BY <1>1, <1>2
<1>. QED
  BY ONLY <1>0, <1>4, <1>5 DEF RegisteredWhileOpen, BothDone

\* The phases of the ends, when a stream is used.
LEMMA UsesPhase ==
  ASSUME IInv, NEW p \in Peers, Uses(p)
  PROVE  PhaseInv'
<1>. USE BothEnds DEF BothDone, HasStream, Uses, Progresses, Only, SameState, SameRequest, IsOpen
<1>0. PhaseInv /\ phase[Requester] \in {"new", "ready", "rejected"}
  BY Types DEF IInv
<1>1. CASE p = Requester
  BY <1>0, <1>1 DEF PhaseInv
<1>2. CASE p = Responder
  BY <1>0, <1>2 DEF PhaseInv
<1>. QED
  BY <1>1, <1>2, Ends

\* The phases of the ends, when a stream takes a frame.
LEMMA ReceivesPhase ==
  ASSUME IInv, NEW p \in Peers, Receives(p), hasFragments'[p] => hasFragments[p] \/ registered[p]
  PROVE  PhaseInv'
<1>. USE BothEnds DEF BothDone, Receives, Progresses, Only, SameState, SameRequest
<1>0. PhaseInv
  BY DEF IInv
<1>a. /\ connected[p]
      /\ registered[p] => ~BothDone(p) /\ phase[p] \in {"ready", "assembling", "handler", "failed"}
      /\ ~registered[p] => BothDone(p) \/ phase[p] \in {"new", "none", "rejected"}
  BY Arriving
<1>1. CASE p = Requester
  BY <1>0, <1>a, <1>1 DEF PhaseInv
<1>2. CASE p = Responder
  BY <1>0, <1>a, <1>2 DEF PhaseInv
<1>. QED
  BY <1>1, <1>2, Ends

\* A request finds a stream that does not exist yet, and the rest of one a
\* stream that nothing has happened to.
LEMMA RequestArrives ==
  ASSUME IInv, pipe[Responder] # <<>>, Head(pipe[Responder]).type = "REQUEST_CHANNEL" \/ phase[Responder] = "assembling"
  PROVE  /\ phase[Requester] = "ready" /\ connected[Responder]
         /\ ~inboundDone[Responder] /\ ~outboundDone[Responder]
         /\ Head(pipe[Responder]).type = "REQUEST_CHANNEL" => phase[Responder] = "none" /\ ~hasFragments[Responder]
<1>1. PICK s \in Seq(Frames) : s = pipe[Responder] /\ s # <<>>
  BY Types, BothEnds DEF IInv
<1>2. Head(s) \in Range(s)
  BY ONLY <1>1 DEF Range
<1>3. Head(pipe[Responder]).type = "REQUEST_CHANNEL" => phase[Responder] = "none"
  BY <1>1, <1>2 DEF IInv, RequestInv
<1>. QED
  BY <1>3, BothEnds DEF IInv, PhaseInv

\* The phases of the ends and their registries.
LEMMA PhaseStep ==
  ASSUME IInv, Typed', Effect
  PROVE  PhaseInv' /\ RegisteredWhileOpen'
<1>. DEFINE Kept == PhaseInv' /\ RegisteredWhileOpen'
            Open(ph, in, out) == ph \in {"ready", "assembling", "handler", "failed"} /\ ~(in /\ out)
<1>0. PhaseInv
  BY DEF IInv
<1>a. /\ phase[Requester] \in {"new", "ready", "rejected"} /\ initialRequestN[Requester] \in Nat
      /\ isComplete[Requester] \in BOOLEAN /\ registered[Requester] \in BOOLEAN /\ registered[Responder] \in BOOLEAN
  BY Types, BothEnds DEF IInv
<1>b. \A r \in Peers : connected[r] => (registered[r] <=> Open(phase[r], inboundDone[r], outboundDone[r]))
  BY DEF IInv, RegisteredWhileOpen, BothDone
<1>c. ASSUME \A r \in Peers : connected'[r] => (registered'[r] <=> Open(phase'[r], inboundDone'[r], outboundDone'[r]))
      PROVE  RegisteredWhileOpen'
  BY ONLY <1>c DEF RegisteredWhileOpen, BothDone
<1>d. ASSUME connected'[Requester] => (registered'[Requester] <=> Open(phase'[Requester], inboundDone'[Requester], outboundDone'[Requester])),
             SameState(Responder), connected'[Responder] = connected[Responder]
      PROVE  RegisteredWhileOpen'
  BY <1>b, <1>c, <1>d, BothEnds DEF SameState
<1>e. ASSUME connected'[Responder] => (registered'[Responder] <=> Open(phase'[Responder], inboundDone'[Responder], outboundDone'[Responder])),
             SameState(Requester), connected'[Requester] = connected[Requester]
      PROVE  RegisteredWhileOpen'
  BY <1>b, <1>c, <1>e, BothEnds DEF SameState
<1>1. ASSUME NEW n \in Nat, WaitsForMore(n)
      PROVE  Kept
  <2>1. PhaseInv'
    BY <1>0, <1>1, <1>a, BothEnds DEF PhaseInv, WaitsForMore, Waits, Only, SameState, SameRequest, BothDone
  <2>2. RegisteredWhileOpen'
    BY <1>1, <1>b, <1>d, BothEnds DEF WaitsForMore, Waits, Only, SameState
  <2>. QED
    BY <2>1, <2>2
<1>2. ASSUME CompletesEarly
      PROVE  Kept
  <2>1. PhaseInv'
    BY <1>0, <1>2, <1>a, BothEnds DEF PhaseInv, CompletesEarly, Waits, Only, SameState, SameRequest, SameSubscriber, BothDone
  <2>2. RegisteredWhileOpen'
    BY <1>2, <1>b, <1>d, BothEnds DEF CompletesEarly, Waits, Only, SameState
  <2>. QED
    BY <2>1, <2>2
<1>3. ASSUME GivesUp
      PROVE  Kept
  <2>1. PhaseInv'
    BY <1>0, <1>3, <1>a, BothEnds DEF PhaseInv, GivesUp, Waits, Only, SameState, SameRequest, BothDone
  <2>2. RegisteredWhileOpen'
    BY <1>3, <1>b, <1>d, BothEnds DEF GivesUp, Waits, Only, SameState
  <2>. QED
    BY <2>1, <2>2
<1>4. ASSUME NEW fragmented \in BOOLEAN, Asks(fragmented)
      PROVE  Kept
  <2>1. PhaseInv'
    BY <1>0, <1>4, <1>a, BothEnds DEF PhaseInv, Asks, Sends, After, IsOpen, Only, SameState, SameRequest, BothDone
  <2>2. RegisteredWhileOpen'
    BY <1>0, <1>4, <1>b, <1>d, BothEnds DEF PhaseInv, Asks, Only, SameState
  <2>. QED
    BY <2>1, <2>2
<1>5. ASSUME NEW p \in Peers, Uses(p)
      PROVE  Kept
  BY <1>5, UsesPhase, ProgressRegistry
<1>6. ASSUME NEW p \in Peers, Receives(p), hasFragments'[p] => hasFragments[p] \/ registered[p]
      PROVE  Kept
  BY <1>6, ReceivesPhase, ProgressRegistry
<1>7. ASSUME NEW p \in Peers, Closes(p)
      PROVE  Kept
  <2>1. connected[p] => (registered[p] <=> Open(phase[p], inboundDone[p], outboundDone[p]))
    BY <1>b
  <2>2. PhaseInv'
    <3>1. CASE p = Requester
      BY <1>0, <1>7, <1>a, <2>1, <3>1, BothEnds DEF PhaseInv, Closes, IsEnded, Only, SameState, SameRequest, SameSubscriber, BothDone
    <3>2. CASE p = Responder
      BY <1>0, <1>7, <1>a, <2>1, <3>2, BothEnds DEF PhaseInv, Closes, IsEnded, Only, SameState, SameRequest, SameSubscriber, BothDone
    <3>. QED
      BY <3>1, <3>2, Ends
  <2>3. RegisteredWhileOpen'
    BY <1>7, <1>b, <1>d, <1>e, Ends DEF Closes, Only, SameState
  <2>. QED
    BY <2>2, <2>3
<1>8. ASSUME NEW n \in Nat, NEW complete \in BOOLEAN, CallsHandler(n, complete)
      PROVE  Kept
  <2>1. /\ phase[Requester] = "ready" /\ connected[Responder] /\ pipe[Responder] # <<>>
        /\ ~inboundDone[Responder] /\ ~outboundDone[Responder]
        /\ Head(pipe[Responder]).type = "REQUEST_CHANNEL" => ~hasFragments[Responder]
    BY <1>8, RequestArrives DEF CallsHandler, TakesFrame, Takes
  <2>2. pipe'[Requester] = pipe[Requester] /\ pipe'[Responder] = Tail(pipe[Responder])
    BY <1>8, AfterNothing, BothEnds DEF IInv, CallsHandler, TakesFrame, Takes
  <2>3. PhaseInv'
    BY <1>0, <1>8, <1>a, <2>1, <2>2, BothEnds DEF PhaseInv, CallsHandler, TakesFrame, Only, SameState, SameRequest, BothDone
  <2>4. RegisteredWhileOpen'
    BY <1>8, <1>e, <2>1, BothEnds DEF CallsHandler, TakesFrame, Only
  <2>. QED
    BY <2>3, <2>4
<1>9. ASSUME TakesFirstFragment
      PROVE  Kept
  <2>1. /\ phase[Requester] = "ready" /\ connected[Responder] /\ pipe[Responder] # <<>>
        /\ ~inboundDone[Responder] /\ ~outboundDone[Responder]
    BY <1>9, RequestArrives DEF TakesFirstFragment, TakesFrame, Takes
  <2>2. pipe'[Requester] = pipe[Requester] /\ pipe'[Responder] = Tail(pipe[Responder])
    BY <1>9, AfterNothing, BothEnds DEF IInv, TakesFirstFragment, TakesFrame, Takes
  <2>3. ~Head(pipe[Responder]).complete
    <3>1. PICK s \in Seq(Frames) : s = pipe[Responder] /\ s # <<>>
      BY <2>1, Types, BothEnds DEF IInv
    <3>2. Paired(s)
      BY <3>1, BothEnds DEF IInv, FragmentsInv
    <3>3. s[1] = Head(s) /\ 1 \in 1 .. Len(s)
      BY <3>1
    <3>4. Follows(s[1])
      BY <1>9, <3>1, <3>3 DEF TakesFirstFragment, Follows
    <3>. QED
      BY <3>1, <3>2, <3>3, <3>4 DEF Paired
  <2>4. PhaseInv'
    BY <1>0, <1>9, <1>a, <2>1, <2>2, <2>3, BothEnds DEF PhaseInv, TakesFirstFragment, TakesFrame, Only, SameState, SameRequest, BothDone
  <2>5. RegisteredWhileOpen'
    BY <1>9, <1>e, <2>1, BothEnds DEF TakesFirstFragment, TakesFrame, Only
  <2>. QED
    BY <2>4, <2>5
<1>10. ASSUME Rejects
      PROVE  Kept
  <2>1. /\ phase[Requester] = "ready" /\ connected[Responder] /\ pipe[Responder] # <<>> /\ phase[Responder] = "none"
        /\ ~inboundDone[Responder] /\ ~outboundDone[Responder]
    BY <1>10, RequestArrives DEF Rejects, Takes
  <2>2. pipe'[Responder] = Tail(pipe[Responder]) /\ (~IsOpen => pipe'[Requester] = pipe[Requester])
    BY <1>10, BothEnds DEF Rejects, Takes, After
  <2>3. PhaseInv'
    BY <1>0, <1>10, <1>a, <2>1, <2>2, BothEnds DEF PhaseInv, Rejects, IsOpen, Only, SameState, SameRequest, BothDone
  <2>4. RegisteredWhileOpen'
    BY <1>10, <1>b, <1>e, <2>1, BothEnds DEF Rejects, Only
  <2>. QED
    BY <2>3, <2>4
<1>11. ASSUME Returns
      PROVE  Kept
  <2>1. PhaseInv'
    BY <1>0, <1>11, <1>a, BothEnds DEF PhaseInv, Returns, Only, SameState, SameRequest, SameSubscriber, BothDone
  <2>2. RegisteredWhileOpen'
    BY <1>11, <1>b, <1>e, BothEnds DEF Returns, Only
  <2>. QED
    BY <2>1, <2>2
<1>12. ASSUME NEW p \in Peers, \/ \E n \in Nat : AsksMore(p, n)
                               \/ \E items, complete, frames : Publishes(p, items, complete, frames)
                               \/ \E frames : Leaves(p, frames)
                               \/ p = Responder /\ CancelsInbound
       PROVE  Kept
  <2>1. Uses(p)
    BY <1>12, CallsUse, Zenon DEF IInv
  <2>. QED
    BY <1>5, <2>1
<1>13. ASSUME NEW p \in Peers, Drops(p) \/ TakesFragment(p) \/ TakesPayload(p) \/ TakesDemand(p)
                                \/ TakesEnd(p) \/ (p = Requester /\ TakesCancel)
       PROVE  Kept
  <2>1. Receives(p)
    BY <1>13, FramesReceived, Zenon
  <2>2. hasFragments'[p] => hasFragments[p] \/ registered[p]
    BY <1>13 DEF Drops, TakesFragment, TakesPayload, TakesDemand, TakesEnd, TakesCancel, SameState
  <2>. QED
    BY <1>6, <2>1, <2>2
<1>. QED
  BY <1>1, <1>2, <1>3, <1>4, <1>7, <1>8, <1>9, <1>10, <1>11, <1>12, <1>13, BothEnds, Zenon DEF Effect

\* What either end sends once the request is sent, by itself.
Sendable(t) ==
  /\ t \in Seq(Frames) /\ Paired(t)
  /\ \A r \in Peers : Ordered(r, t)
  /\ \A f \in Range(t) : f.type # "REQUEST_CHANNEL"

\* Sending appends to a pipe, or does nothing.
LEMMA AfterFacts ==
  ASSUME NEW s \in Seq(Frames), NEW t \in Seq(Frames)
  PROVE  /\ After(s, t) \in Seq(Frames)
         /\ IsOpen => After(s, t) = s \o t /\ Range(After(s, t)) = Range(s) \cup Range(t)
         /\ ~IsOpen => After(s, t) = s
BY AppendFacts DEF After

\* A sequence of one frame, or none.
LEMMA OneFrame ==
  ASSUME NEW f \in Frames, ~Follows(f)
  PROVE  /\ Paired(<<f>>) /\ Paired(<<>>)
         /\ \A r \in Peers : Ordered(r, <<f>>) /\ Ordered(r, <<>>)
<1>1. Len(<<f>>) = 1 /\ <<f>>[1] = f /\ Len(<<>>) = 0
  OBVIOUS
<1>2. Paired(<<f>>) /\ Paired(<<>>)
  BY <1>1 DEF Paired
<1>3. \A r \in Peers : Ordered(r, <<f>>) /\ Ordered(r, <<>>)
  BY <1>1 DEF Ordered
<1>. QED
  BY <1>2, <1>3

\* The frames of a payload: the second may end the direction, and the first is
\* followed by it.
LEMMA PayloadFacts ==
  ASSUME NEW complete \in BOOLEAN, NEW fragmented \in BOOLEAN
  PROVE  /\ Sendable(Payload(complete, fragmented))
         /\ \A f \in Range(Payload(complete, fragmented)) :
              /\ f.type = "PAYLOAD"
              /\ f.complete => complete
         /\ complete => \E f \in Range(Payload(complete, fragmented)) : f.complete
<1>1. PICK t \in Seq(Frames) : t = Payload(complete, fragmented)
  BY FramesType, Zenon
<1>2. PICK f : f = PayloadFrame(TRUE, FALSE, TRUE)
  OBVIOUS
<1>3. PICK g : g = PayloadFrame(TRUE, complete, FALSE)
  OBVIOUS
<1>4. /\ f.type = "PAYLOAD" /\ f.follows /\ f.complete = FALSE
      /\ g.type = "PAYLOAD" /\ g.follows = FALSE /\ g.complete = complete /\ g.next
  BY <1>2, <1>3 DEF PayloadFrame
<1>5. \/ Len(t) = 2 /\ t[1] = f /\ t[2] = g
      \/ Len(t) = 1 /\ t[1] = g
  <2>1. CASE fragmented
    <3>1. t = <<f, g>>
      BY <1>1, <1>2, <1>3, <2>1, Zenon DEF Payload
    <3>2. Len(<<f, g>>) = 2 /\ <<f, g>>[1] = f /\ <<f, g>>[2] = g
      OBVIOUS
    <3>. QED
      BY ONLY <3>1, <3>2, Zenon
  <2>2. CASE ~fragmented
    BY <1>1, <1>3, <2>2 DEF Payload
  <2>. QED
    BY <2>1, <2>2
<1>6. Range(t) \subseteq {f, g} /\ g \in Range(t)
  BY ONLY <1>5, t \in Seq(Frames) DEF Range
<1>7. Paired(t)
  BY ONLY <1>4, <1>5 DEF Paired, Follows, Finishes
<1>8. ASSUME NEW r \in Peers
      PROVE  Ordered(r, t)
  BY ONLY <1>4, <1>5 DEF Ordered, Stops, EndsInbound
<1>. QED
  BY <1>1, <1>4, <1>6, <1>7, <1>8 DEF Sendable

\* Frames that are sent alone.
LEMMA FrameFacts ==
  ASSUME NEW f \in Frames, f.type # "REQUEST_CHANNEL", ~Follows(f)
  PROVE  Sendable(<<f>>) /\ Sendable(<<>>)
<1>1. <<f>> \in Seq(Frames) /\ <<>> \in Seq(Frames)
  BY FramesType
<1>. QED
  BY <1>1, OneFrame, SingleFacts DEF Sendable

\* The frames that are sent alone, and nothing.
LEMMA SingleFrames ==
  /\ \A n \in Nat \ {0} : Sendable(<<RequestNFrame(n)>>)
  /\ Sendable(<<PayloadFrame(FALSE, TRUE, FALSE)>>) /\ Sendable(<<CancelFrame>>) /\ Sendable(<<ErrorFrame>>)
  /\ Sendable(<<>>)
<1>1. ASSUME NEW n \in Nat \ {0}
      PROVE  Sendable(<<RequestNFrame(n)>>)
  <2>1. RequestNFrame(n) \in Frames /\ RequestNFrame(n).type = "REQUEST_N"
    BY DEF RequestNFrame, Frames
  <2>. QED
    BY <2>1, FrameFacts DEF Follows
<1>2. Sendable(<<PayloadFrame(FALSE, TRUE, FALSE)>>)
  <2>1. PICK f : f = PayloadFrame(FALSE, TRUE, FALSE)
    OBVIOUS
  <2>2. f \in Frames /\ f.type = "PAYLOAD" /\ f.follows = FALSE
    BY <2>1 DEF PayloadFrame, Frames
  <2>. QED
    BY <2>1, <2>2, FrameFacts DEF Follows
<1>3. Sendable(<<CancelFrame>>) /\ Sendable(<<ErrorFrame>>) /\ Sendable(<<>>)
  <2>1. /\ CancelFrame \in Frames /\ CancelFrame.type = "CANCEL"
        /\ ErrorFrame \in Frames /\ ErrorFrame.type = "ERROR"
    BY DEF CancelFrame, ErrorFrame, Frames
  <2>. QED
    BY <2>1, FrameFacts DEF Follows
<1>. QED
  BY <1>1, <1>2, <1>3

\* The four ways an application uses a stream send what may be sent.
LEMMA UsesSend ==
  ASSUME NEW p \in Peers, \/ \E n \in Nat : AsksMore(p, n)
                          \/ \E items, complete, frames : Publishes(p, items, complete, frames)
                          \/ \E frames : Leaves(p, frames)
                          \/ p = Responder /\ CancelsInbound
  PROVE  \E t : Sendable(t) /\ pipe'[Other(p)] = After(pipe[Other(p)], t)
<1>1. ASSUME NEW n \in Nat, AsksMore(p, n)
      PROVE  \E t : Sendable(t) /\ pipe'[Other(p)] = After(pipe[Other(p)], t)
  BY <1>1, SingleFrames, Zenon DEF AsksMore, Sends
<1>2. ASSUME NEW items, NEW complete, NEW frames, Publishes(p, items, complete, frames)
      PROVE  \E t : Sendable(t) /\ pipe'[Other(p)] = After(pipe[Other(p)], t)
  BY <1>2, SingleFrames, PayloadFacts, Zenon DEF Publishes, Sends
<1>3. ASSUME NEW frames, Leaves(p, frames)
      PROVE  \E t : Sendable(t) /\ pipe'[Other(p)] = After(pipe[Other(p)], t)
  <2>1. Sendable(frames)
    BY <1>3, SingleFrames DEF Leaves
  <2>. QED
    BY <1>3, <2>1, Zenon DEF Leaves, Sends
<1>4. ASSUME p = Responder, CancelsInbound
      PROVE  \E t : Sendable(t) /\ pipe'[Other(p)] = After(pipe[Other(p)], t)
  BY <1>4, SingleFrames, Zenon DEF CancelsInbound, Sends
<1>. QED
  BY <1>1, <1>2, <1>3, <1>4, Zenon

\* The request, when a stream is used: what is sent is no request, and follows
\* it.
LEMMA UsesRequest ==
  ASSUME IInv, NEW p \in Peers, Uses(p), NEW t, Sendable(t), pipe'[Other(p)] = After(pipe[Other(p)], t)
  PROVE  RequestInv'
<1>1. CASE p = Requester
  <2>1. PICK s \in Seq(Frames), v \in Seq(Frames) : s = pipe[Responder] /\ v = After(s, t)
    BY AfterFacts, Types, BothEnds DEF IInv, Sendable
  <2>2. /\ pipe'[Requester] = pipe[Requester] /\ pipe'[Responder] = v
        /\ phase[Requester] = "ready" /\ phase'[Responder] = phase[Responder] /\ (IsOpen' => IsOpen)
    BY <1>1, <2>1, Types, BothEnds DEF IInv, Uses, Only, SameState, HasStream, IsOpen
  <2>3. /\ ~IsOpen => v = s
        /\ IsOpen => v = s \o t /\ Range(v) = Range(s) \cup Range(t)
    BY <2>1, AfterFacts DEF Sendable
  <2>4. /\ \A f \in Range(pipe[Requester]) : f.type # "REQUEST_CHANNEL"
        /\ phase[Responder] # "none" => \A f \in Range(s) : f.type # "REQUEST_CHANNEL"
        /\ s # <<>> => \A f \in Range(Tail(s)) : f.type # "REQUEST_CHANNEL"
        /\ phase[Responder] = "none" /\ s # <<>> => Head(s).type = "REQUEST_CHANNEL"
        /\ phase[Responder] = "none" /\ IsOpen => s # <<>>
    BY <2>1, <2>2 DEF IInv, RequestInv
  <2>5. \A f \in Range(t) : f.type # "REQUEST_CHANNEL"
    BY DEF Sendable
  <2>6. v # <<>> => \A f \in Range(Tail(v)) : f.type # "REQUEST_CHANNEL"
    <3>1. CASE ~IsOpen
      BY <2>3, <2>4, <3>1
    <3>2. CASE IsOpen /\ s = <<>>
      <4>1. v = t /\ t \in Seq(Frames)
        BY <2>1, <2>3, <3>2, AppendFacts DEF Sendable
      <4>2. t # <<>> => Range(Tail(t)) \subseteq Range(t)
        BY ONLY <4>1, TailFacts
      <4>. QED
        BY <2>5, <4>1, <4>2
    <3>3. CASE IsOpen /\ s # <<>>
      <4>0. t \in Seq(Frames) /\ s \in Seq(Frames) /\ s # <<>> /\ v = s \o t
        BY <2>3, <3>3, Zenon DEF Sendable
      <4>1. PICK l \in Seq(Frames) : l = Tail(s)
        BY ONLY <4>0, TailFacts
      <4>2. Tail(v) = l \o t
        BY ONLY <4>0, <4>1, AppendFacts
      <4>3. Range(l \o t) = Range(l) \cup Range(t)
        BY ONLY <4>0, l \in Seq(Frames), AppendFacts
      <4>. QED
        BY ONLY <2>4, <2>5, <3>3, <4>1, <4>2, <4>3
    <3>. QED
      BY <3>1, <3>2, <3>3
  <2>7. /\ phase[Responder] = "none" /\ v # <<>> => Head(v).type = "REQUEST_CHANNEL"
        /\ phase[Responder] = "none" /\ IsOpen => v # <<>>
    <3>1. IsOpen /\ s # <<>> => v # <<>> /\ Head(v) = Head(s)
      BY <2>1, <2>3, AppendFacts DEF Sendable
    <3>. QED
      BY <2>3, <2>4, <3>1
  <2>. QED
    BY ONLY <2>2, <2>3, <2>4, <2>5, <2>6, <2>7 DEF RequestInv
<1>2. CASE p = Responder
  <2>1. PICK s \in Seq(Frames), v \in Seq(Frames) : s = pipe[Requester] /\ v = After(s, t)
    BY AfterFacts, Types, BothEnds DEF IInv, Sendable
  <2>2. /\ pipe'[Responder] = pipe[Responder] /\ pipe'[Requester] = v /\ phase'[Requester] = phase[Requester]
        /\ phase[Responder] # "none" /\ phase'[Responder] # "none"
    BY <1>2, <2>1, BothEnds DEF Uses, Only, SameState, HasStream
  <2>3. \A f \in Range(v) : f.type # "REQUEST_CHANNEL"
    <3>1. /\ \A f \in Range(s) : f.type # "REQUEST_CHANNEL"
          /\ \A f \in Range(t) : f.type # "REQUEST_CHANNEL"
      BY <2>1, Zenon DEF IInv, RequestInv, Sendable
    <3>2. Range(v) = Range(s) \/ Range(v) = Range(s) \cup Range(t)
      BY <2>1, AfterFacts, Zenon DEF Sendable
    <3>. QED
      BY ONLY <3>1, <3>2
  <2>. QED
    BY ONLY <2>2, <2>3, IInv DEF IInv, RequestInv
<1>. QED
  BY <1>1, <1>2, Ends

\* The request, when a frame is taken.
LEMMA TakesRequest ==
  ASSUME IInv, NEW p \in Peers, pipe[p] # <<>>, pipe'[p] = Tail(pipe[p]),
         \A f \in Range(pipe'[Requester]) : f \in Range(pipe[Requester]) \/ f.type # "REQUEST_CHANNEL",
         p = Requester => pipe'[Responder] = pipe[Responder] /\ phase'[Responder] = phase[Responder],
         phase'[Requester] = phase[Requester], connected' = connected,
         p = Responder => phase'[Responder] # "none"
  PROVE  RequestInv'
<1>1. CASE p = Requester
  BY <1>1 DEF IInv, RequestInv, IsOpen
<1>2. CASE p = Responder
  <2>1. PICK s \in Seq(Frames) : s = pipe[Responder] /\ s # <<>>
    BY <1>2, Types, BothEnds DEF IInv
  <2>2. PICK v \in Seq(Frames) : v = Tail(s)
    BY <2>1, TailFacts
  <2>3. v # <<>> => Range(Tail(v)) \subseteq Range(v)
    BY TailFacts
  <2>4. \A f \in Range(v) : f.type # "REQUEST_CHANNEL"
    BY <2>1, <2>2 DEF IInv, RequestInv
  <2>5. pipe'[Responder] = v
    BY <1>2, <2>1, <2>2
  <2>. QED
    BY <1>2, <2>3, <2>4, <2>5 DEF IInv, RequestInv
<1>. QED
  BY <1>1, <1>2, Ends

\* The request comes first and once.
LEMMA RequestStep ==
  ASSUME IInv, Typed', Effect
  PROVE  RequestInv'
<1>. USE BothEnds
<1>0. Typed /\ RequestInv /\ PhaseInv
  BY DEF IInv
<1>1. ASSUME Waits, phase'[Requester] \in {"new", "rejected"}
      PROVE  RequestInv'
  BY <1>0, <1>1 DEF RequestInv, Waits, Only, SameState, IsOpen
<1>2. ASSUME NEW fragmented \in BOOLEAN, Asks(fragmented)
      PROVE  RequestInv'
  <2>1. PICK n \in Nat \ {0}, complete \in BOOLEAN : n = initialRequestN[Requester] /\ complete = isComplete[Requester]
    BY SMTT(40), <1>0, Types DEF PhaseInv
  <2>2. PICK t \in Seq(Frames) : t = RequestFrames(n, complete, fragmented)
    BY FramesType, Zenon
  <2>3. pipe[Responder] = <<>> /\ phase[Responder] = "none" /\ phase'[Responder] = "none"
        /\ pipe'[Requester] = pipe[Requester] /\ pipe[Requester] = <<>>
        /\ connected' = connected
    BY <1>0, <1>2 DEF PhaseInv, Asks, Sends, Only, SameState
  <2>4. pipe'[Responder] = After(pipe[Responder], t)
    BY <1>2, <2>1, <2>2 DEF Asks, Sends
  <2>5. pipe'[Responder] = IF IsOpen THEN t ELSE <<>>
    BY <2>3, <2>4, AppendFacts DEF After
  <2>6. /\ t # <<>> /\ Head(t).type = "REQUEST_CHANNEL"
        /\ \A f \in Range(Tail(t)) : f.type # "REQUEST_CHANNEL"
    <3>1. PICK f : f = RequestFrame(n, FALSE, TRUE)
      OBVIOUS
    <3>2. PICK g : g = PayloadFrame(TRUE, complete, FALSE)
      OBVIOUS
    <3>3. PICK h : h = RequestFrame(n, complete, FALSE)
      OBVIOUS
    <3>4. f.type = "REQUEST_CHANNEL" /\ g.type = "PAYLOAD" /\ h.type = "REQUEST_CHANNEL"
      BY <3>1, <3>2, <3>3 DEF RequestFrame, PayloadFrame
    <3>5. CASE fragmented
      <4>1. t = <<f, g>>
        BY <2>2, <3>1, <3>2, <3>5, Zenon DEF RequestFrames
      <4>2. Head(<<f, g>>) = f /\ Tail(<<f, g>>) = <<g>> /\ <<f, g>> # <<>>
        OBVIOUS
      <4>. QED
        BY ONLY <3>4, <4>1, <4>2, SingleFacts
    <3>6. CASE ~fragmented
      <4>1. t = <<h>>
        BY <2>2, <3>3, <3>6, Zenon DEF RequestFrames
      <4>. QED
        BY ONLY <3>4, <4>1, SingleFacts
    <3>. QED
      BY <3>5, <3>6
  <2>. QED
    BY <2>3, <2>5, <2>6, SingleFacts DEF RequestInv, IsOpen
<1>3. ASSUME NEW p \in Peers, \/ \E n \in Nat : AsksMore(p, n)
                              \/ \E items, complete, frames : Publishes(p, items, complete, frames)
                              \/ \E frames : Leaves(p, frames)
                              \/ p = Responder /\ CancelsInbound
      PROVE  RequestInv'
  <2>1. Uses(p)
    BY <1>0, <1>3, CallsUse, Zenon
  <2>2. PICK t : Sendable(t) /\ pipe'[Other(p)] = After(pipe[Other(p)], t)
    BY <1>3, UsesSend
  <2>. QED
    BY <2>1, <2>2, UsesRequest
<1>4. ASSUME NEW p \in Peers, Drops(p) \/ TakesFragment(p) \/ TakesPayload(p) \/ TakesDemand(p)
                               \/ TakesEnd(p) \/ (p = Requester /\ TakesCancel)
      PROVE  RequestInv'
  <2>1. Receives(p)
    BY <1>4, FramesReceived, Zenon
  <2>2. Head(pipe[p]).type # "REQUEST_CHANNEL"
    BY <1>4 DEF Drops, TakesFragment, TakesPayload, TakesDemand, TakesEnd, TakesCancel
  <2>3. p = Responder => phase[p] # "none"
    BY <2>1, <2>2 DEF IInv, RequestInv, Receives
  <2>4. \A f \in Range(pipe'[Requester]) : f \in Range(pipe[Requester])
    <3>1. CASE p = Requester
      <4>1. PICK s \in Seq(Frames) : s = pipe[Requester] /\ s # <<>>
        BY <1>0, <2>1, <3>1, Types DEF Receives
      <4>. QED
        BY <2>1, <3>1, <4>1, TailFacts DEF Receives
    <3>2. CASE p = Responder
      BY <2>1, <3>2 DEF Receives
    <3>. QED
      BY <3>1, <3>2, Ends
  <2>5. /\ pipe[p] # <<>> /\ pipe'[p] = Tail(pipe[p])
        /\ p = Requester => pipe'[Responder] = pipe[Responder] /\ phase'[Responder] = phase[Responder]
        /\ phase'[Requester] = phase[Requester] /\ connected' = connected
        /\ p = Responder => phase'[Responder] # "none"
    BY <2>1, <2>3, Ends DEF Receives, Only, SameState
  <2>. QED
    BY ONLY IInv, p \in Peers, <2>4, <2>5, TakesRequest
<1>5. ASSUME \/ \E n \in Nat, complete \in BOOLEAN : CallsHandler(n, complete)
             \/ TakesFirstFragment \/ Rejects
      PROVE  RequestInv'
  <2>1. /\ pipe[Responder] # <<>> /\ pipe'[Responder] = Tail(pipe[Responder])
        /\ phase'[Requester] = phase[Requester] /\ connected' = connected
        /\ phase'[Responder] # "none"
    BY <1>5 DEF CallsHandler, TakesFirstFragment, Rejects, TakesFrame, Takes, Only, SameState
  <2>2. pipe'[Requester] = After(pipe[Requester], <<>>) \/ pipe'[Requester] = After(pipe[Requester], <<ErrorFrame>>)
    BY <1>5 DEF CallsHandler, TakesFirstFragment, Rejects, TakesFrame, Takes
  <2>3. PICK s \in Seq(Frames) : s = pipe[Requester]
    BY <1>0, Types
  <2>4. \A f \in Range(pipe'[Requester]) : f \in Range(s) \/ f.type # "REQUEST_CHANNEL"
    <3>1. ASSUME NEW t, Sendable(t), NEW f \in Range(After(s, t))
          PROVE  f \in Range(s) \/ f.type # "REQUEST_CHANNEL"
      <4>1. Range(After(s, t)) = Range(s) \/ Range(After(s, t)) = Range(s) \cup Range(t)
        BY <3>1, AfterFacts DEF Sendable
      <4>. QED
        BY <3>1, <4>1 DEF Sendable
    <3>. QED
      BY <2>2, <2>3, <3>1, SingleFrames
  <2>. QED
    BY <2>1, <2>3, <2>4, TakesRequest
<1>6. ASSUME NEW p \in Peers, Closes(p)
      PROVE  RequestInv'
  <2>1. /\ phase' [Requester] = phase[Requester] /\ phase'[Responder] = phase[Responder]
        /\ pipe'[p] = <<>> /\ pipe'[Other(p)] = pipe[Other(p)] /\ ~connected'[p]
    BY <1>6, Ends DEF Closes, IsEnded, Only, SameState
  <2>2. ~IsOpen'
    BY <2>1, Ends DEF IsOpen
  <2>3. Range(<<>>) = {}
    BY SingleFacts
  <2>. QED
    BY <1>0, <2>1, <2>2, <2>3, Ends DEF RequestInv
<1>7. ASSUME Returns
      PROVE  RequestInv'
  BY <1>0, <1>7 DEF RequestInv, Returns, Only, SameState, IsOpen
<1>8. ASSUME CompletesEarly \/ GivesUp \/ \E n \in Nat : WaitsForMore(n)
      PROVE  RequestInv'
  <2>1. Waits /\ phase'[Requester] \in {"new", "rejected"}
    BY <1>8 DEF CompletesEarly, GivesUp, WaitsForMore, Waits, SameState
  <2>. QED
    BY <1>1, <2>1
<1>. QED
  BY <1>2, <1>3, <1>4, <1>5, <1>6, <1>7, <1>8, Zenon DEF Effect

\* What is left of a pipe after its first frame is taken.
LEMMA PairedTail ==
  ASSUME NEW s \in Seq(Frames), s # <<>>, Paired(s)
  PROVE  /\ Paired(Tail(s))
         /\ Follows(Head(s)) => ~Head(s).complete /\ Tail(s) # <<>> /\ Finishes(Head(Tail(s)))
<1>1. PICK l \in Seq(Frames) : l = Tail(s)
  BY TailFacts
<1>2. PICK m \in Nat : m = Len(s)
  BY LenProperties
<1>3. /\ Len(l) = m - 1 /\ m > 0 /\ Head(s) = s[1]
      /\ \A i \in 1 .. m - 1 : l[i] = s[i + 1]
  BY <1>1, <1>2, HeadTailProperties
<1>4. \A i \in 1 .. m : Follows(s[i]) => ~s[i].complete /\ i < m /\ Finishes(s[i + 1])
  BY <1>2 DEF Paired
<1>5. ASSUME NEW i \in 1 .. Len(l), Follows(l[i])
      PROVE  ~l[i].complete /\ i < Len(l) /\ Finishes(l[i + 1])
  <2>1. i \in 1 .. m - 1 /\ i + 1 \in 1 .. m
    BY <1>3
  <2>2. l[i] = s[i + 1]
    BY <1>3, <2>1
  <2>3. ~s[i + 1].complete /\ i + 1 < m /\ Finishes(s[(i + 1) + 1])
    BY <1>4, <1>5, <2>1, <2>2, Zenon
  <2>4. i + 1 \in 1 .. m - 1 /\ i < Len(l)
    BY <1>3, <2>1, <2>3
  <2>5. l[i + 1] = s[(i + 1) + 1]
    BY <1>3, <2>4
  <2>. QED
    BY <2>2, <2>3, <2>4, <2>5
<1>6. ASSUME Follows(Head(s))
      PROVE  ~Head(s).complete /\ l # <<>> /\ Finishes(Head(l))
  <2>1. 1 \in 1 .. m /\ 1 + 1 = 2
    BY <1>3
  <2>2. ~s[1].complete /\ 1 < m /\ Finishes(s[2])
    BY <1>3, <1>4, <1>6, <2>1
  <2>3. 1 \in 1 .. m - 1 /\ Len(l) > 0
    BY <1>3, <2>2
  <2>4. l[1] = s[2] /\ l # <<>>
    BY <1>3, <2>1, <2>3
  <2>5. Head(l) = l[1]
    BY <2>4
  <2>. QED
    BY ONLY <1>3, <2>2, <2>4, <2>5
<1>7. Paired(l)
  BY <1>5 DEF Paired
<1>. QED
  BY <1>1, <1>6, <1>7

\* Frames in pairs may follow frames in pairs.
LEMMA PairedAppend ==
  ASSUME NEW s \in Seq(Frames), NEW t \in Seq(Frames), Paired(s), Paired(t)
  PROVE  Paired(s \o t)
<1>1. PICK r : r = s \o t
  OBVIOUS
<1>2. PICK m \in Nat : m = Len(s)
  BY LenProperties
<1>3. PICK k \in Nat : k = Len(t)
  BY LenProperties
<1>4. /\ Len(r) = m + k
      /\ \A i \in 1 .. m : r[i] = s[i]
      /\ \A i \in 1 .. k : r[m + i] = t[i]
  BY <1>1, <1>2, <1>3
<1>5. /\ \A i \in 1 .. m : Follows(s[i]) => ~s[i].complete /\ i < m /\ Finishes(s[i + 1])
      /\ \A i \in 1 .. k : Follows(t[i]) => ~t[i].complete /\ i < k /\ Finishes(t[i + 1])
  BY <1>2, <1>3 DEF Paired
<1>6. ASSUME NEW i \in 1 .. Len(r), Follows(r[i])
      PROVE  ~r[i].complete /\ i < Len(r) /\ Finishes(r[i + 1])
  <2>1. CASE i \in 1 .. m
    <3>1. r[i] = s[i]
      BY <1>4, <2>1
    <3>2. ~s[i].complete /\ i < m /\ Finishes(s[i + 1])
      BY <1>5, <1>6, <2>1, <3>1, Zenon
    <3>3. i + 1 \in 1 .. m /\ i < m + k
      BY <2>1, <3>2
    <3>4. r[i + 1] = s[i + 1]
      BY <1>4, <3>3
    <3>. QED
      BY ONLY <1>4, <3>1, <3>2, <3>3, <3>4
  <2>2. CASE i \notin 1 .. m
    <3>1. PICK j \in 1 .. k : i = m + j
      <4>1. i - m \in 1 .. k /\ i = m + (i - m)
        BY <1>4, <2>2
      <4>. QED
        BY <4>1
    <3>2. r[i] = t[j]
      BY <1>4, <3>1
    <3>3. ~t[j].complete /\ j < k /\ Finishes(t[j + 1])
      BY <1>5, <1>6, <3>2, Zenon
    <3>4. j + 1 \in 1 .. k /\ i + 1 = m + (j + 1) /\ i < m + k
      BY <3>1, <3>3
    <3>5. r[i + 1] = t[j + 1]
      BY <1>4, <3>4
    <3>. QED
      BY ONLY <1>4, <3>2, <3>3, <3>4, <3>5
  <2>. QED
    BY <2>1, <2>2
<1>. QED
  BY <1>1, <1>6 DEF Paired

\* Nothing comes to p, and p waits for no more than before.
LEMMA SameFragments ==
  ASSUME NEW p \in Peers, FragmentsInv(p), pipe'[p] = pipe[p],
         connected'[p] = connected[p], hasFragments'[p] => hasFragments[p],
         BothDone(p) => inboundDone'[p] /\ outboundDone'[p],
         phase'[p] = "assembling" => phase[p] = "assembling" /\ hasFragments'[p] = hasFragments[p]
  PROVE  FragmentsInv(p)'
BY DEF FragmentsInv, BothDone

\* Frames are sent to p.
LEMMA MoreFragments ==
  ASSUME Typed, NEW p \in Peers, FragmentsInv(p), NEW t \in Seq(Frames), Paired(t),
         pipe'[p] = After(pipe[p], t), SameState(p), connected'[p] = connected[p]
  PROVE  FragmentsInv(p)'
<1>1. PICK s \in Seq(Frames) : s = pipe[p]
  BY Types
<1>2. Paired(s \o t) /\ Paired(s)
  BY <1>1, PairedAppend DEF FragmentsInv
<1>3. s # <<>> => s \o t # <<>> /\ Head(s \o t) = Head(s)
  BY AppendFacts
<1>4. PICK v : v = After(s, t)
  OBVIOUS
<1>5. Paired(v) /\ (s # <<>> => v # <<>> /\ Head(v) = Head(s))
  BY <1>2, <1>3, <1>4, Zenon DEF After
<1>6. pipe'[p] = v
  BY <1>1, <1>4
<1>. QED
  BY <1>1, <1>5, <1>6 DEF FragmentsInv, SameState, BothDone

\* p takes a frame.
LEMMA FewerFragments ==
  ASSUME Typed, NEW p \in Peers, FragmentsInv(p), pipe[p] # <<>>, pipe'[p] = Tail(pipe[p]),
         connected'[p] /\ hasFragments'[p] /\ ~(inboundDone'[p] /\ outboundDone'[p]) => Follows(Head(pipe[p])),
         phase'[p] = "assembling" /\ connected'[p] => hasFragments'[p]
  PROVE  FragmentsInv(p)'
<1>1. PICK s \in Seq(Frames) : s = pipe[p] /\ s # <<>>
  BY Types
<1>2. PICK v : v = Tail(s)
  OBVIOUS
<1>3. Paired(v) /\ (Follows(Head(s)) => v # <<>> /\ Finishes(Head(v)))
  BY <1>1, <1>2, PairedTail DEF FragmentsInv
<1>. QED
  BY <1>1, <1>2, <1>3 DEF FragmentsInv, BothDone

\* The frames of a request.
LEMMA RequestFacts ==
  ASSUME NEW n \in Nat \ {0}, NEW complete \in BOOLEAN, NEW fragmented \in BOOLEAN
  PROVE  /\ RequestFrames(n, complete, fragmented) \in Seq(Frames)
         /\ Paired(RequestFrames(n, complete, fragmented))
         /\ \A r \in Peers : Ordered(r, RequestFrames(n, complete, fragmented))
         /\ \A f \in Range(RequestFrames(n, complete, fragmented)) :
              f.type \in {"REQUEST_CHANNEL", "PAYLOAD"} /\ (f.complete => complete)
         /\ complete => \E f \in Range(RequestFrames(n, complete, fragmented)) : EndsInbound(f)
<1>1. PICK t \in Seq(Frames) : t = RequestFrames(n, complete, fragmented)
  BY FramesType, Zenon
<1>2. PICK f : f = RequestFrame(n, FALSE, TRUE)
  OBVIOUS
<1>3. PICK g : g = PayloadFrame(TRUE, complete, FALSE)
  OBVIOUS
<1>4. PICK h : h = RequestFrame(n, complete, FALSE)
  OBVIOUS
<1>5. /\ f.type = "REQUEST_CHANNEL" /\ f.follows /\ f.complete = FALSE
      /\ g.type = "PAYLOAD" /\ g.follows = FALSE /\ g.complete = complete /\ g.next
      /\ h.type = "REQUEST_CHANNEL" /\ h.follows = FALSE /\ h.complete = complete
  BY <1>2, <1>3, <1>4 DEF RequestFrame, PayloadFrame
<1>6. \/ Len(t) = 2 /\ t[1] = f /\ t[2] = g
      \/ Len(t) = 1 /\ t[1] = h
  <2>1. CASE fragmented
    <3>1. t = <<f, g>>
      BY <1>1, <1>2, <1>3, <2>1, Zenon DEF RequestFrames
    <3>2. Len(<<f, g>>) = 2 /\ <<f, g>>[1] = f /\ <<f, g>>[2] = g
      OBVIOUS
    <3>. QED
      BY ONLY <3>1, <3>2, Zenon
  <2>2. CASE ~fragmented
    BY <1>1, <1>4, <2>2 DEF RequestFrames
  <2>. QED
    BY <2>1, <2>2
<1>7. \/ Range(t) = {f, g}
      \/ Range(t) = {h}
  BY ONLY <1>6, t \in Seq(Frames) DEF Range
<1>8. Paired(t)
  BY ONLY <1>5, <1>6 DEF Paired, Follows, Finishes
<1>9. ASSUME NEW r \in Peers
      PROVE  Ordered(r, t)
  BY ONLY <1>5, <1>6 DEF Ordered, Stops, EndsInbound
<1>10. \A x \in Range(t) : x.type \in {"REQUEST_CHANNEL", "PAYLOAD"} /\ (x.complete => complete)
  BY ONLY <1>5, <1>7
<1>11. complete => \E x \in Range(t) : EndsInbound(x)
  BY ONLY <1>5, <1>7 DEF EndsInbound
<1>. QED
  BY <1>1, <1>8, <1>9, <1>10, <1>11

\* Payloads in fragments arrive in pairs.
LEMMA FragmentsStep ==
  ASSUME IInv, Typed', Effect, NEW p \in Peers
  PROVE  FragmentsInv(p)'
<1>. DEFINE q == Other(p)
<1>. USE BothEnds
<1>0. /\ Typed /\ FragmentsInv(p) /\ PhaseInv
      /\ q \in Peers /\ p # q /\ Peers = {p, q} /\ Other(q) = p
  BY Ends DEF IInv
<1>a. pipe[p] \in Seq(Frames) /\ pipe[q] \in Seq(Frames)
  BY <1>0, Types
<1>. HIDE DEF q
<1>1. ASSUME CompletesEarly \/ GivesUp \/ \E n \in Nat : WaitsForMore(n)
      PROVE  FragmentsInv(p)'
  <2>1. /\ pipe'[p] = pipe[p] /\ connected'[p] = connected[p] /\ hasFragments'[p] = hasFragments[p]
        /\ BothDone(p) => inboundDone'[p] /\ outboundDone'[p]
        /\ phase'[p] = "assembling" => phase[p] = "assembling"
    BY <1>0, <1>1, Ends DEF CompletesEarly, GivesUp, WaitsForMore, Waits, Only, SameState, BothDone
  <2>. QED
    BY <1>0, <2>1, SameFragments
<1>2. ASSUME NEW fragmented \in BOOLEAN, Asks(fragmented)
      PROVE  FragmentsInv(p)'
  <2>1. CASE p = Requester
    <3>1. /\ pipe'[p] = pipe[p] /\ connected'[p] = connected[p] /\ hasFragments'[p] = hasFragments[p]
          /\ ~BothDone(p) /\ phase'[p] # "assembling"
      BY <1>0, <1>2, <2>1 DEF Asks, Sends, BothDone
    <3>. QED
      BY <1>0, <3>1, SameFragments
  <2>2. CASE p = Responder
    <3>1. PICK n \in Nat \ {0}, complete \in BOOLEAN : n = initialRequestN[Requester] /\ complete = isComplete[Requester]
      BY SMTT(40), <1>0, Types DEF PhaseInv
    <3>2. PICK t \in Seq(Frames) : t = RequestFrames(n, complete, fragmented) /\ Paired(t)
      BY RequestFacts, Zenon
    <3>3. pipe'[p] = After(pipe[p], t) /\ SameState(p) /\ connected'[p] = connected[p]
      BY <1>2, <2>2, <3>1, <3>2 DEF Asks, Sends, Only
    <3>. QED
      BY <1>0, <3>2, <3>3, MoreFragments
  <2>. QED
    BY <2>1, <2>2, Ends
<1>3. ASSUME NEW a \in Peers, \/ \E n \in Nat : AsksMore(a, n)
                              \/ \E items, complete, frames : Publishes(a, items, complete, frames)
                              \/ \E frames : Leaves(a, frames)
                              \/ a = Responder /\ CancelsInbound
      PROVE  FragmentsInv(p)'
  <2>1. Uses(a)
    BY <1>0, <1>3, CallsUse, Zenon
  <2>2. PICK t : Sendable(t) /\ pipe'[Other(a)] = After(pipe[Other(a)], t)
    BY <1>3, UsesSend
  <2>3. CASE a = p
    <3>1. /\ pipe'[p] = pipe[p] /\ connected'[p] = connected[p] /\ (hasFragments'[p] => hasFragments[p])
          /\ BothDone(p) => inboundDone'[p] /\ outboundDone'[p]
          /\ phase'[p] # "assembling"
      BY <2>1, <2>3 DEF Uses, Progresses, HasStream, BothDone
    <3>. QED
      BY <1>0, <3>1, SameFragments
  <2>4. CASE a = q
    <3>1. pipe'[p] = After(pipe[p], t) /\ SameState(p) /\ connected'[p] = connected[p]
      BY <1>0, <2>1, <2>2, <2>4 DEF Uses, Only
    <3>. QED
      BY <1>0, <2>2, <3>1, MoreFragments DEF Sendable
  <2>. QED
    BY <1>0, <2>3, <2>4
<1>4. ASSUME NEW a \in Peers, Drops(a) \/ TakesFragment(a) \/ TakesPayload(a) \/ TakesDemand(a)
                               \/ TakesEnd(a) \/ (a = Requester /\ TakesCancel)
      PROVE  FragmentsInv(p)'
  <2>1. Receives(a)
    BY <1>4, FramesReceived, Zenon
  <2>2. CASE a = p
    <3>1. /\ pipe[p] # <<>> /\ pipe'[p] = Tail(pipe[p]) /\ phase'[p] = phase[p] /\ connected' = connected
          /\ Progresses(p)
      BY <2>1, <2>2 DEF Receives
    <3>2. /\ connected[p]
          /\ phase[p] = "assembling" => Finishes(Head(pipe[p])) /\ hasFragments[p]
          /\ hasFragments[p] /\ ~BothDone(p) => Finishes(Head(pipe[p]))
          /\ registered[p] => ~BothDone(p)
          /\ ~registered[p] => BothDone(p) \/ phase[p] \in {"new", "none", "rejected"}
      BY <1>0, <3>1, Arriving DEF FragmentsInv
    <3>3. /\ phase[p] = "assembling" => registered[p]
          /\ ~registered[p] => BothDone(p) \/ ~hasFragments[p]
      <4>1. /\ phase[Requester] \in {"new", "ready", "rejected"}
            /\ phase[Responder] \in {"none", "assembling", "handler", "ready", "failed", "rejected"}
        BY <1>0, Types
      <4>. QED
        BY <1>0, <3>1, <3>2, <4>1, Ends DEF PhaseInv, BothDone
    <3>4. hasFragments'[p] /\ ~(inboundDone'[p] /\ outboundDone'[p]) => Follows(Head(pipe[p]))
      BY <1>4, <2>2, <3>1, <3>2, <3>3 DEF Progresses, BothDone, Drops, TakesFragment, TakesPayload, TakesDemand, TakesEnd,
         IsEnded, TakesCancel, SameState, Follows, Finishes
    <3>5. phase'[p] = "assembling" => hasFragments'[p]
      BY <1>4, <2>2, <3>1, <3>2, <3>3 DEF Drops, TakesFragment, TakesPayload, TakesDemand, TakesEnd,
         TakesCancel, SameState, HasReceiver, Finishes
    <3>. QED
      BY <1>0, <3>1, <3>4, <3>5, FewerFragments
  <2>3. CASE a = q
    <3>1. pipe'[p] = pipe[p] /\ SameState(p) /\ connected'[p] = connected[p]
      BY <1>0, <2>1, <2>3 DEF Receives, Only
    <3>. QED
      BY <1>0, <3>1, SameFragments DEF SameState, BothDone
  <2>. QED
    BY <1>0, <2>2, <2>3
<1>5. ASSUME \/ \E n \in Nat, complete \in BOOLEAN : CallsHandler(n, complete)
             \/ TakesFirstFragment \/ Rejects
      PROVE  FragmentsInv(p)'
  <2>1. CASE p = Responder
    <3>1. /\ pipe[p] # <<>> /\ pipe'[p] = Tail(pipe[p])
          /\ Head(pipe[p]).type = "REQUEST_CHANNEL" \/ phase[p] = "assembling"
      BY <1>5, <2>1 DEF CallsHandler, TakesFirstFragment, Rejects, TakesFrame, Takes
    <3>2. Head(pipe[p]).type = "REQUEST_CHANNEL" => ~hasFragments[p]
      BY <2>1, <3>1, RequestArrives
    <3>3. hasFragments'[p] => Follows(Head(pipe[p]))
      BY <1>5, <2>1, <3>2 DEF CallsHandler, TakesFirstFragment, Rejects, Follows
    <3>4. phase'[p] = "assembling" => hasFragments'[p]
      BY <1>5, <2>1 DEF CallsHandler, TakesFirstFragment, Rejects
    <3>. QED
      BY <1>0, <3>1, <3>3, <3>4, FewerFragments
  <2>2. CASE p = Requester
    <3>1. SameState(p) /\ connected'[p] = connected[p]
      BY <1>5, <2>2 DEF CallsHandler, TakesFirstFragment, Rejects, TakesFrame, Only
    <3>2. pipe'[p] = After(pipe[p], <<>>) \/ pipe'[p] = After(pipe[p], <<ErrorFrame>>)
      BY <1>5, <2>2 DEF CallsHandler, TakesFirstFragment, Rejects, TakesFrame, Takes
    <3>3. PICK t : Sendable(t) /\ pipe'[p] = After(pipe[p], t)
      BY <3>2, SingleFrames
    <3>. QED
      BY <1>0, <3>1, <3>3, MoreFragments DEF Sendable
  <2>. QED
    BY <2>1, <2>2, Ends
<1>6. ASSUME NEW a \in Peers, Closes(a)
      PROVE  FragmentsInv(p)'
  <2>1. CASE a = p
    <3>1. pipe'[p] = <<>> /\ ~connected'[p]
      BY <1>6, <2>1 DEF Closes
    <3>2. Paired(<<>>)
      BY DEF Paired
    <3>. QED
      BY <3>1, <3>2 DEF FragmentsInv
  <2>2. CASE a = q
    <3>1. pipe'[p] = pipe[p] /\ SameState(p) /\ connected'[p] = connected[p]
      BY <1>0, <1>6, <2>2 DEF Closes, Only
    <3>. QED
      BY <1>0, <3>1, SameFragments DEF SameState, BothDone
  <2>. QED
    BY <1>0, <2>1, <2>2
<1>7. ASSUME Returns
      PROVE  FragmentsInv(p)'
  <2>1. /\ pipe'[p] = pipe[p] /\ connected'[p] = connected[p] /\ hasFragments'[p] = hasFragments[p]
        /\ BothDone(p) => inboundDone'[p] /\ outboundDone'[p]
        /\ phase'[p] = "assembling" => phase[p] = "assembling"
    BY <1>0, <1>7, Ends DEF Returns, Only, SameState, BothDone
  <2>. QED
    BY <1>0, <2>1, SameFragments
<1>. QED
  BY <1>1, <1>2, <1>3, <1>4, <1>5, <1>6, <1>7, Zenon DEF Effect

\* A publisher is told nothing new.
LEMMA SamePublished ==
  ASSUME NEW p \in Peers, PublisherInv(p), cancels'[p] = cancels[p], ended'[p] = ended[p],
         isComplete'[p] = isComplete[p], outboundDone[p] => outboundDone'[p],
         phase'[p] = "new" <=> phase[p] = "new"
  PROVE  PublisherInv(p)'
BY DEF PublisherInv

\* Publishers are cancelled at most once, and not after they ended.
LEMMA PublisherStep ==
  ASSUME IInv, Typed', Effect, NEW p \in Peers
  PROVE  PublisherInv(p)'
<1>. DEFINE q == Other(p)
<1>. USE BothEnds
<1>0. /\ PublisherInv(p) /\ PhaseInv
      /\ q \in Peers /\ p # q /\ Peers = {p, q} /\ Other(q) = p
      /\ cancels[p] \in Nat /\ phase[p] \in Phases /\ ended[p] \in BOOLEAN /\ isComplete[p] \in BOOLEAN
      /\ phase[Requester] \in {"new", "ready", "rejected"}
      /\ phase[Responder] \in {"none", "assembling", "handler", "ready", "failed", "rejected"}
  BY Ends, Types DEF IInv
<1>. HIDE DEF q
<1>a. ASSUME Only(q)
      PROVE  PublisherInv(p)'
  BY <1>0, <1>a, SamePublished DEF Only, SameState, SameRequest, SamePublisher
<1>1. ASSUME NEW n \in Nat, WaitsForMore(n)
      PROVE  PublisherInv(p)'
  <2>1. CASE p = Requester
    BY <1>0, <1>1, <2>1, SamePublished DEF WaitsForMore, Waits, SameState, SamePublisher
  <2>. QED
    BY <1>0, <1>1, <1>a, <2>1, Ends DEF WaitsForMore, Waits
<1>2. ASSUME CompletesEarly
      PROVE  PublisherInv(p)'
  <2>1. CASE p = Requester
    BY <1>0, <1>2, <2>1 DEF PublisherInv, CompletesEarly, Waits, SameState
  <2>. QED
    BY <1>0, <1>2, <1>a, <2>1, Ends DEF CompletesEarly, Waits
<1>3. ASSUME GivesUp
      PROVE  PublisherInv(p)'
  <2>1. CASE p = Requester
    BY <1>0, <1>3, <2>1 DEF PublisherInv, PhaseInv, GivesUp, Waits, SamePublisher
  <2>. QED
    BY <1>0, <1>3, <1>a, <2>1, Ends DEF GivesUp, Waits
<1>4. ASSUME NEW fragmented \in BOOLEAN, Asks(fragmented)
      PROVE  PublisherInv(p)'
  <2>1. CASE p = Requester
    BY <1>0, <1>4, <2>1 DEF PublisherInv, Asks, SamePublisher
  <2>. QED
    BY <1>0, <1>4, <1>a, <2>1, Ends DEF Asks
<1>5. ASSUME NEW a \in Peers, \/ \E n \in Nat : AsksMore(a, n)
                              \/ a = Responder /\ CancelsInbound
                              \/ Drops(a) \/ TakesFragment(a) \/ TakesPayload(a) \/ TakesDemand(a)
      PROVE  PublisherInv(p)'
  <2>1. CASE a = p
    <3>1. /\ cancels'[p] = cancels[p] /\ ended'[p] = ended[p] /\ phase'[p] = phase[p]
          /\ isComplete'[p] = isComplete[p] /\ outboundDone'[p] = outboundDone[p]
      BY <1>5, <2>1 DEF AsksMore, CancelsInbound, Drops, TakesFragment, TakesPayload, TakesDemand, SameState, SameRequest, SamePublisher
    <3>. QED
      BY <1>0, <3>1, SamePublished
  <2>2. CASE a = q
    BY <1>5, <1>a, <2>2 DEF AsksMore, CancelsInbound, Drops, TakesFragment, TakesPayload, TakesDemand, TakesFrame
  <2>. QED
    BY <1>0, <2>1, <2>2
<1>6. ASSUME NEW a \in Peers, \E items, complete, frames : Publishes(a, items, complete, frames)
      PROVE  PublisherInv(p)'
  <2>1. CASE a = p
    BY <1>0, <1>6, <2>1 DEF PublisherInv, Publishes, HasStream
  <2>2. CASE a = q
    BY <1>6, <1>a, <2>2 DEF Publishes
  <2>. QED
    BY <1>0, <2>1, <2>2
<1>7. ASSUME NEW a \in Peers, \E frames : Leaves(a, frames)
      PROVE  PublisherInv(p)'
  <2>1. CASE a = p
    BY <1>0, <1>7, <2>1 DEF PublisherInv, Leaves, HasStream, SamePublisher
  <2>2. CASE a = q
    BY <1>7, <1>a, <2>2 DEF Leaves
  <2>. QED
    BY <1>0, <2>1, <2>2
<1>8. ASSUME NEW a \in Peers, TakesEnd(a) \/ Closes(a) \/ (a = Requester /\ TakesCancel)
      PROVE  PublisherInv(p)'
  <2>1. CASE a = p
    <3>1. CASE Closes(p) /\ ~registered[p]
      BY <1>0, <3>1, SamePublished DEF Closes, IsEnded, SameState, SameRequest, SamePublisher
    <3>2. CASE TakesEnd(p) \/ (Closes(p) /\ registered[p])
      <4>1. registered[p] /\ IsEnded(p)
        BY <3>2 DEF TakesEnd, Closes
      <4>2. phase[p] # "new"
        <5>1. connected[p]
          BY <1>0, <3>2 DEF TakesEnd, TakesFrame, Takes, Closes, PhaseInv
        <5>. QED
          BY <4>1, <5>1 DEF IInv, RegisteredWhileOpen
      <4>. QED
        BY <1>0, <4>1, <4>2 DEF PublisherInv, IsEnded
    <3>3. CASE p = Requester /\ TakesCancel
      <4>1. phase[p] # "new"
        BY <1>0, <3>3 DEF TakesCancel, TakesFrame, Takes, PhaseInv
      <4>. QED
        BY <1>0, <3>3, <4>1 DEF PublisherInv, TakesCancel
    <3>. QED
      BY <1>8, <2>1, <3>1, <3>2, <3>3
  <2>2. CASE a = q
    BY <1>8, <1>a, <2>2 DEF TakesEnd, TakesFrame, Closes, TakesCancel
  <2>. QED
    BY <1>0, <2>1, <2>2
<1>9. ASSUME \/ \E n \in Nat, complete \in BOOLEAN : CallsHandler(n, complete)
             \/ TakesFirstFragment \/ Rejects \/ Returns
      PROVE  PublisherInv(p)'
  <2>1. CASE p = Responder
    <3>1. /\ cancels'[p] = cancels[p] /\ ended'[p] = ended[p] /\ phase'[p] # "new"
          /\ outboundDone'[p] = outboundDone[p]
      BY <1>9, <2>1 DEF CallsHandler, TakesFirstFragment, Rejects, Returns, SamePublisher
    <3>. QED
      BY <1>0, <2>1, <3>1 DEF PublisherInv
  <2>. QED
    BY <1>0, <1>9, <1>a, <2>1, Ends DEF CallsHandler, TakesFirstFragment, Rejects, Returns, TakesFrame
<1>. QED
  BY <1>1, <1>2, <1>3, <1>4, <1>5, <1>6, <1>7, <1>8, <1>9, Zenon DEF Effect

\* What a sequence of signals is after one that is appended, or none.
LEMMA MoreSignals ==
  ASSUME NEW x \in Seq(Signals), NEW s \in Seq(Signals)
  PROVE  /\ x \o s \in Seq(Signals)
         /\ s = <<>> => x \o s = x
         /\ x = <<>> => x \o s = s
BY AppendFacts, ConcatProperties

\* An error raised before the receiver is known is kept, once.
LEMMA DeferredStep ==
  ASSUME IInv, Typed', Effect
  PROVE  DeferredInv'
<1>. USE BothEnds
<1>0. /\ Typed /\ DeferredInv /\ PhaseInv /\ SignalsInv(Responder) /\ signals[Responder] \in Seq(Signals)
      /\ phase[Responder] \in {"none", "assembling", "handler", "ready", "failed", "rejected"}
      /\ <<>> \in Seq(Signals)
  BY Types DEF IInv
<1>a. ASSUME SameDeferred, SameSubscriber(Responder),
             inboundDone[Responder] => inboundDone'[Responder], outboundDone[Responder] => outboundDone'[Responder],
             phase'[Responder] \in {phase[Responder], "failed"}
      PROVE  DeferredInv'
  BY <1>0, <1>a DEF DeferredInv, SameDeferred, SameSubscriber, BothDone
<1>b. ASSUME Only(Requester), SameDeferred
      PROVE  DeferredInv'
  BY <1>a, <1>b DEF Only, SameState
<1>1. ASSUME CompletesEarly \/ GivesUp \/ \E n \in Nat : WaitsForMore(n)
      PROVE  DeferredInv'
  BY <1>1, <1>b DEF CompletesEarly, GivesUp, WaitsForMore, Waits
<1>2. ASSUME NEW fragmented \in BOOLEAN, Asks(fragmented)
      PROVE  DeferredInv'
  BY <1>2, <1>b DEF Asks
<1>3. ASSUME NEW p \in Peers, \/ \E n \in Nat : AsksMore(p, n)
                              \/ \E items, complete, frames : Publishes(p, items, complete, frames)
                              \/ p = Responder /\ CancelsInbound
      PROVE  DeferredInv'
  <2>1. CASE p = Requester
    BY <1>3, <1>b, <2>1 DEF AsksMore, Publishes
  <2>2. CASE p = Responder
    <3>1. /\ SameDeferred /\ signals'[p] = signals[p] /\ phase'[p] = phase[p] /\ phase[p] \in {"handler", "ready"}
          /\ inboundDone[p] => inboundDone'[p]
          /\ outboundDone[p] => outboundDone'[p]
      BY <1>3, <2>2 DEF AsksMore, Publishes, CancelsInbound, SameState, SameSubscriber, HasStream
    <3>. QED
      BY <1>0, <2>2, <3>1 DEF DeferredInv, SameDeferred, BothDone
  <2>. QED
    BY <2>1, <2>2, Ends
<1>4. ASSUME NEW p \in Peers, \E frames : Leaves(p, frames)
      PROVE  DeferredInv'
  <2>1. CASE p = Requester
    <3>1. Only(Requester) /\ assembled' = assembled /\ HasReceiver(Requester)
      <4>1. phase[Requester] \in {"new", "ready", "rejected"}
        BY <1>0, Types
      <4>. QED
        BY <1>4, <2>1, <4>1 DEF Leaves, HasStream, HasReceiver
    <3>2. deferredError' = deferredError
      <4>1. deferredError \in BOOLEAN
        BY <1>0, Types
      <4>. QED
        BY <1>4, <2>1, <3>1, <4>1 DEF Leaves, SameDeferred
    <3>. QED
      BY <1>b, <3>1, <3>2 DEF SameDeferred
  <2>2. CASE p = Responder
    <3>1. /\ inboundDone'[p] /\ outboundDone'[p] /\ phase[p] \in {"handler", "ready"}
          /\ phase'[p] = phase[p] \/ phase'[p] = "failed"
      BY <1>4, <2>2 DEF Leaves, HasStream
    <3>2. ASSUME deferredError', phase'[p] = "handler"
          PROVE  ~Told(signals'[p])
      <4>1. /\ Signalled(p, <<>>) /\ phase[p] = "handler"
            /\ deferredError \/ ~inboundDone[p]
        BY <1>4, <2>2, <3>1, <3>2 DEF Leaves, HasReceiver
      <4>2. signals'[p] = signals[p]
        BY <1>0, <2>2, <4>1, MoreSignals DEF Signalled
      <4>. QED
        BY <1>0, <2>2, <4>1, <4>2 DEF DeferredInv, SignalsInv
    <3>. QED
      BY <2>2, <3>1, <3>2 DEF DeferredInv, BothDone
  <2>. QED
    BY <2>1, <2>2, Ends
<1>5. ASSUME NEW p \in Peers, Drops(p) \/ TakesFragment(p) \/ TakesPayload(p) \/ TakesDemand(p)
                               \/ TakesEnd(p) \/ (p = Requester /\ TakesCancel)
      PROVE  DeferredInv'
  <2>1. SameDeferred /\ Only(p)
    BY <1>5 DEF Drops, TakesFragment, TakesPayload, TakesDemand, TakesEnd, TakesCancel, TakesFrame, IsEnded
  <2>2. CASE p = Requester
    BY <1>b, <2>1, <2>2
  <2>3. CASE p = Responder
    <3>1. Receives(p)
      BY <1>5, FramesReceived, Zenon
    <3>2. ASSUME phase[p] \in {"none", "assembling", "rejected"}
          PROVE  signals'[p] = signals[p]
      <4>1. ~HasReceiver(p)
        BY <3>2 DEF HasReceiver
      <4>2. SameSubscriber(p) \/ Signalled(p, <<>>)
        BY <1>5, <2>3, <4>1 DEF Drops, TakesFragment, TakesPayload, TakesDemand, TakesEnd
      <4>. QED
        BY <1>0, <2>3, <4>2, MoreSignals DEF Signalled, SameSubscriber
    <3>. QED
      BY <1>0, <2>1, <2>3, <3>1, <3>2 DEF DeferredInv, SameDeferred, Receives, Progresses, BothDone
  <2>. QED
    BY <2>2, <2>3, Ends
<1>6. ASSUME NEW p \in Peers, Closes(p)
      PROVE  DeferredInv'
  <2>1. CASE p = Requester
    BY <1>6, <1>b, <2>1 DEF Closes, IsEnded
  <2>2. CASE p = Responder
    <3>1. CASE ~registered[p]
      BY <1>6, <1>a, <2>2, <3>1 DEF Closes, SameState
    <3>2. CASE registered[p]
      <4>1. /\ SameDeferred /\ phase'[p] = phase[p] /\ phase[p] # "handler" /\ inboundDone'[p] /\ outboundDone'[p]
            /\ Signalled(p, IF HasReceiver(p) /\ ~inboundDone[p] THEN <<"error">> ELSE <<>>)
        BY <1>6, <3>2 DEF Closes, IsEnded
      <4>2. phase[p] # "ready" => signals'[p] = signals[p]
        BY <1>0, <2>2, <4>1, MoreSignals DEF Signalled, HasReceiver
      <4>. QED
        BY <1>0, <2>2, <4>1, <4>2 DEF DeferredInv, SameDeferred, BothDone
    <3>. QED
      BY <3>1, <3>2
  <2>. QED
    BY <2>1, <2>2, Ends
<1>7. ASSUME \/ \E n \in Nat, complete \in BOOLEAN : CallsHandler(n, complete)
             \/ TakesFirstFragment \/ Rejects
      PROVE  DeferredInv'
  <2>1. /\ pipe[Responder] # <<>>
        /\ Head(pipe[Responder]).type = "REQUEST_CHANNEL" \/ phase[Responder] = "assembling"
    BY <1>7 DEF CallsHandler, TakesFirstFragment, Rejects, TakesFrame, Takes
  <2>2. phase[Responder] \in {"none", "assembling"}
    BY <2>1, RequestArrives
  <2>3. signals[Responder] = <<>> /\ ~deferredError
    BY <1>0, <2>2 DEF DeferredInv
  <2>4. deferredError' = deferredError /\ (phase'[Responder] # "handler" => signals'[Responder] = signals[Responder])
    BY <1>7 DEF CallsHandler, TakesFirstFragment, Rejects, SameDeferred, SameSubscriber
  <2>. QED
    BY <2>3, <2>4 DEF DeferredInv
<1>8. ASSUME Returns
      PROVE  DeferredInv'
  BY <1>0, <1>8 DEF DeferredInv, Returns, SameDeferred, BothDone
<1>. QED
  BY <1>1, <1>2, <1>3, <1>4, <1>5, <1>6, <1>7, <1>8, Zenon DEF Effect

\* Frames are sent to p, or none, and neither end takes back that it is done:
\* what ends a direction of the other end tells p, or p is done with it.
LEMMA EndsSent ==
  ASSUME Typed, NEW p \in Peers, EndsInv(p), NEW t \in Seq(Frames), pipe'[p] = After(pipe[p], t),
         NEW q, q = Other(p),
         IsOpen' => IsOpen,
         inboundDone[p] => inboundDone'[p], outboundDone[p] => outboundDone'[p],
         inboundDone[q] => inboundDone'[q], outboundDone[q] => outboundDone'[q],
         phase[q] = "rejected" => phase'[q] = "rejected",
         phase'[Responder] # "rejected" => phase[Responder] # "rejected",
         phase'[Requester] = "ready" => phase[Requester] = "ready" \/ (~inboundDone[q] /\ ~outboundDone[q]),
         \A f \in Range(t) :
           /\ EndsInbound(f) => outboundDone'[q] \/ (phase'[q] = "rejected" /\ f.type = "ERROR")
           /\ f.type = "ERROR" \/ (f.type = "CANCEL" /\ p = Responder) =>
                (inboundDone'[q] /\ outboundDone'[q]) \/ phase'[q] = "rejected"
           /\ f.type = "CANCEL" => inboundDone'[q],
         IsOpen' /\ phase'[Requester] = "ready" /\ phase'[Responder] # "rejected" =>
           /\ outboundDone'[q] /\ ~outboundDone[q] => inboundDone'[p] \/ \E f \in Range(t) : Stops(p, f)
           /\ inboundDone'[q] /\ ~inboundDone[q] => outboundDone'[p] \/ \E f \in Range(t) : Abandons(f)
  PROVE  EndsInv(p)'
<1>1. PICK s \in Seq(Frames) : s = pipe[p]
  BY Types
<1>2. PICK R : R = Range(After(s, t))
  OBVIOUS
<1>3. /\ IsOpen => R = Range(s) \cup Range(t)
      /\ R \subseteq Range(s) \cup Range(t)
  BY <1>2, AfterFacts
<1>4. Range(pipe'[p]) = R
  BY <1>1, <1>2
<1>5. \A f \in R :
        /\ EndsInbound(f) => outboundDone'[q] \/ (phase'[q] = "rejected" /\ f.type = "ERROR")
        /\ f.type = "ERROR" \/ (f.type = "CANCEL" /\ p = Responder) =>
             (inboundDone'[q] /\ outboundDone'[q]) \/ phase'[q] = "rejected"
        /\ f.type = "CANCEL" => inboundDone'[q]
  BY <1>1, <1>3 DEF EndsInv, BothDone
<1>6. ASSUME IsOpen', phase'[Requester] = "ready", phase'[Responder] # "rejected"
      PROVE  /\ outboundDone'[q] /\ ~inboundDone'[p] => \E f \in R : Stops(p, f)
             /\ inboundDone'[q] /\ ~outboundDone'[p] => \E f \in R : Abandons(f)
  BY <1>1, <1>3, <1>6 DEF EndsInv
<1>. QED
  BY <1>4, <1>5, <1>6 DEF EndsInv, BothDone

\* p takes a frame: if it ends a direction, p is done with it.
LEMMA EndsTaken ==
  ASSUME Typed, NEW p \in Peers, EndsInv(p), pipe[p] # <<>>, pipe'[p] = Tail(pipe[p]),
         SameState(Other(p)), connected' = connected,
         inboundDone[p] => inboundDone'[p], outboundDone[p] => outboundDone'[p],
         phase'[Responder] # "rejected" => phase[Responder] # "rejected",
         phase'[Requester] = "ready" => phase[Requester] = "ready",
         IsOpen /\ phase[Requester] = "ready" /\ phase'[Responder] # "rejected" =>
           /\ Stops(p, Head(pipe[p])) => inboundDone'[p]
           /\ Abandons(Head(pipe[p])) => outboundDone'[p]
  PROVE  EndsInv(p)'
<1>1. PICK s \in Seq(Frames) : s = pipe[p] /\ s # <<>>
  BY Types
<1>2. PICK h, R : h = Head(s) /\ R = Range(Tail(s))
  OBVIOUS
<1>3. Range(s) = {h} \cup R
  BY <1>1, <1>2, TailFacts
<1>4. Range(pipe'[p]) = R
  BY <1>1, <1>2
<1>5. IsOpen' <=> IsOpen
  BY DEF IsOpen
<1>. QED
  BY <1>1, <1>2, <1>3, <1>4, <1>5 DEF EndsInv, BothDone, SameState
\* What the streams send says what it should of the stream that sent it.
LEMMA EndsUsed ==
  ASSUME IInv, NEW q \in Peers, NEW t \in Seq(Frames), pipe'[Other(q)] = After(pipe[Other(q)], t),
         Uses(q), IsOpen' => IsOpen,
         \A f \in Range(t) :
           /\ EndsInbound(f) => outboundDone'[q]
           /\ f.type = "ERROR" \/ (f.type = "CANCEL" /\ q = Requester) => inboundDone'[q] /\ outboundDone'[q]
           /\ f.type = "CANCEL" => inboundDone'[q],
         outboundDone'[q] /\ ~outboundDone[q] => \E f \in Range(t) : Stops(Other(q), f),
         inboundDone'[q] /\ ~inboundDone[q] => \E f \in Range(t) : Abandons(f)
  PROVE  EndsInv(Other(q))'
<1>1. PICK p \in Peers : p = Other(q) /\ q = Other(p) /\ (p = Responder <=> q = Requester)
  BY Ends
<1>2. Typed /\ EndsInv(p)
  BY <1>1 DEF IInv
<1>3. /\ inboundDone[p] => inboundDone'[p]
      /\ outboundDone[p] => outboundDone'[p]
      /\ inboundDone[q] => inboundDone'[q]
      /\ outboundDone[q] => outboundDone'[q]
  BY <1>1 DEF Uses, Only, SameState, Progresses
<1>4. /\ phase[q] = "rejected" => phase'[q] = "rejected"
      /\ phase'[Responder] # "rejected" => phase[Responder] # "rejected"
      /\ phase'[Requester] = "ready" => phase[Requester] = "ready"
  BY <1>1, Ends DEF Uses, Only, SameState, HasStream
<1>. QED
  BY <1>1, <1>2, <1>3, <1>4, EndsSent

\* When one end of a direction is done and the other is not, what will end it
\* is on its way.
LEMMA EndsStep ==
  ASSUME IInv, Typed', Effect, NEW p \in Peers
  PROVE  EndsInv(p)'
<1>. DEFINE q == Other(p)
<1>. USE BothEnds
<1>0. /\ Typed /\ EndsInv(p) /\ EndsInv(q) /\ PhaseInv /\ FragmentsInv(p) /\ FragmentsInv(q)
      /\ q \in Peers /\ p # q /\ Peers = {p, q} /\ Other(q) = p
      /\ (p = Responder <=> q = Requester) /\ (p = Requester <=> q = Responder)
  BY Ends DEF IInv
<1>a. /\ pipe[p] \in Seq(Frames) /\ pipe[q] \in Seq(Frames)
      /\ After(pipe[p], <<>>) = pipe[p] /\ <<>> \in Seq(Frames) /\ Range(<<>>) = {}
  BY <1>0, Types, AfterFacts, AfterNothing, SingleFacts, FramesType
<1>. HIDE DEF q
<1>b. ASSUME pipe'[p] = pipe[p], IsOpen' => IsOpen,
             inboundDone[p] => inboundDone'[p], outboundDone[p] => outboundDone'[p],
             inboundDone[q] => inboundDone'[q], outboundDone[q] => outboundDone'[q],
             phase[q] = "rejected" => phase'[q] = "rejected",
             phase'[Responder] # "rejected" => phase[Responder] # "rejected",
             phase'[Requester] = "ready" => phase[Requester] = "ready" \/ (~inboundDone[q] /\ ~outboundDone[q]),
             IsOpen' /\ phase'[Requester] = "ready" /\ phase'[Responder] # "rejected" =>
               /\ outboundDone'[q] /\ ~outboundDone[q] => inboundDone'[p]
               /\ inboundDone'[q] /\ ~inboundDone[q] => outboundDone'[p]
      PROVE  EndsInv(p)'
  <2>1. PICK t \in Seq(Frames) : t = <<>>
    BY <1>a
  <2>2. pipe'[p] = After(pipe[p], t) /\ Range(t) = {}
    BY <1>a, <1>b, <2>1
  <2>. QED
    BY <1>0, <1>b, <2>2, EndsSent DEF q
<1>1. ASSUME CompletesEarly \/ GivesUp \/ \E n \in Nat : WaitsForMore(n)
      PROVE  EndsInv(p)'
  <2>1. /\ pipe' = pipe /\ connected' = connected /\ SameState(Responder) /\ phase[Requester] = "new"
        /\ inboundDone[Requester] => inboundDone'[Requester]
        /\ outboundDone[Requester] => outboundDone'[Requester]
        /\ phase'[Requester] \in {"new", "rejected"}
    BY <1>1 DEF CompletesEarly, GivesUp, WaitsForMore, Waits, Only, SameState
  <2>. QED
    BY <1>0, <1>b, <2>1, Ends DEF SameState, IsOpen
<1>2. ASSUME NEW fragmented \in BOOLEAN, Asks(fragmented)
      PROVE  EndsInv(p)'
  <2>1. /\ phase[Requester] = "new" /\ phase'[Requester] = "ready" /\ SameState(Responder) /\ connected' = connected
        /\ ~inboundDone[Requester] /\ ~outboundDone[Requester]
        /\ inboundDone'[Requester] = inboundDone[Requester] /\ outboundDone'[Requester] = isComplete[Requester]
        /\ phase[Responder] = "none" /\ ~inboundDone[Responder] /\ ~outboundDone[Responder]
        /\ isComplete[Requester] \in BOOLEAN
    BY <1>0, <1>2, Types DEF Asks, Only, PhaseInv
  <2>2. CASE p = Requester
    <3>1. pipe'[p] = pipe[p]
      BY <1>2, <2>2 DEF Asks, Sends
    <3>. QED
      BY <1>0, <1>b, <2>1, <2>2, <3>1 DEF SameState, IsOpen
  <2>3. CASE p = Responder
    <3>1. PICK n \in Nat \ {0}, complete \in BOOLEAN : n = initialRequestN[Requester] /\ complete = isComplete[Requester]
      BY SMTT(40), <1>0, Types DEF PhaseInv
    <3>2. PICK t \in Seq(Frames) :
            /\ t = RequestFrames(n, complete, fragmented)
            /\ \A f \in Range(t) : f.type \in {"REQUEST_CHANNEL", "PAYLOAD"} /\ (f.complete => complete)
            /\ complete => \E f \in Range(t) : EndsInbound(f)
      BY RequestFacts, Zenon
    <3>3. pipe'[p] = After(pipe[p], t)
      BY <1>2, <2>3, <3>1, <3>2 DEF Asks, Sends
    <3>4. \A f \in Range(t) :
            /\ f.type # "ERROR" /\ f.type # "CANCEL"
            /\ EndsInbound(f) => outboundDone'[q]
      BY <1>0, <2>1, <2>3, <3>1, <3>2 DEF EndsInbound
    <3>5. outboundDone'[q] => \E f \in Range(t) : Stops(p, f)
      BY <1>0, <2>1, <2>3, <3>1, <3>2 DEF Stops
    <3>6. ~inboundDone'[q] /\ inboundDone'[p] = inboundDone[p] /\ outboundDone'[p] = outboundDone[p]
          /\ ~inboundDone[q] /\ ~outboundDone[q] /\ phase[q] # "rejected" /\ phase'[Responder] = phase[Responder]
          /\ (IsOpen' <=> IsOpen)
      BY <1>0, <2>1, <2>3 DEF SameState, IsOpen
    <3>. QED
      BY <1>0, <3>3, <3>4, <3>5, <3>6, EndsSent DEF q
  <2>. QED
    BY <2>2, <2>3, Ends
<1>3. ASSUME Uses(p)
      PROVE  EndsInv(p)'
  BY <1>0, <1>3, <1>b DEF Uses, Only, SameState, Progresses, IsOpen, HasStream
<1>c. ASSUME Uses(q)
      PROVE  IsOpen' <=> IsOpen
  BY <1>c DEF Uses, IsOpen
<1>4. ASSUME NEW n, AsksMore(q, n)
      PROVE  EndsInv(p)'
  <2>1. Uses(q) /\ n \in Nat \ {0}
    BY <1>0, <1>4, CallsUse DEF AsksMore
  <2>2. PICK f \in Frames, t \in Seq(Frames) : f = RequestNFrame(n) /\ t = <<f>>
    BY <2>1, FramesType DEF RequestNFrame, Frames
  <2>3. f.type = "REQUEST_N" /\ Range(t) = {f}
    BY <2>2, SingleFacts DEF RequestNFrame
  <2>4. pipe'[p] = After(pipe[p], t) /\ SameState(q)
    BY <1>0, <1>4, <2>2 DEF AsksMore, Sends
  <2>. QED
    BY <1>0, <1>c, <2>1, <2>3, <2>4, EndsUsed DEF SameState, EndsInbound
<1>5. ASSUME NEW items, NEW complete, NEW frames, Publishes(q, items, complete, frames)
      PROVE  EndsInv(p)'
  <2>1. Uses(q) /\ complete \in BOOLEAN
    BY <1>0, <1>5, CallsUse, Zenon DEF Publishes
  <2>. DEFINE Ending == /\ frames \in Seq(Frames)
                        /\ \A f \in Range(frames) : f.type = "PAYLOAD" /\ (f.complete => complete)
                        /\ complete => \E f \in Range(frames) : f.complete
  <2>2. Ending
    <3>1. ASSUME NEW fragmented \in BOOLEAN, frames = Payload(complete, fragmented)
          PROVE  Ending
      BY <2>1, <3>1, PayloadFacts, Zenon DEF Sendable
    <3>2. ASSUME complete, frames = <<PayloadFrame(FALSE, TRUE, FALSE)>>
          PROVE  Ending
      <4>1. PICK f : f = PayloadFrame(FALSE, TRUE, FALSE)
        OBVIOUS
      <4>2. f.type = "PAYLOAD" /\ f.complete /\ Range(frames) = {f}
        BY <3>2, <4>1, SingleFacts DEF PayloadFrame
      <4>. QED
        BY <3>2, <4>2, FramesType
    <3>. QED
      BY <1>5, <3>1, <3>2 DEF Publishes
  <2>3. /\ pipe'[p] = After(pipe[p], frames)
        /\ outboundDone'[q] = complete /\ inboundDone'[q] = inboundDone[q]
    BY <1>0, <1>5 DEF Publishes, Sends
  <2>4. \A f \in Range(frames) :
          /\ f.type # "ERROR" /\ f.type # "CANCEL"
          /\ EndsInbound(f) => outboundDone'[q]
    BY <2>2, <2>3 DEF EndsInbound
  <2>5. outboundDone'[q] => \E f \in Range(frames) : Stops(p, f)
    BY <2>2, <2>3 DEF Stops, EndsInbound
  <2>. QED
    BY <1>0, <1>c, <2>1, <2>2, <2>3, <2>4, <2>5, EndsUsed
<1>6. ASSUME NEW frames, Leaves(q, frames)
      PROVE  EndsInv(p)'
  <2>1. Uses(q)
    BY <1>0, <1>6, CallsUse, Zenon
  <2>a. PICK f : f = CancelFrame
    OBVIOUS
  <2>b. PICK g : g = ErrorFrame
    OBVIOUS
  <2>2. f = CancelFrame /\ g = ErrorFrame /\ f.type = "CANCEL" /\ g.type = "ERROR"
    BY <2>a, <2>b DEF CancelFrame, ErrorFrame
  <2>3. /\ pipe'[p] = After(pipe[p], frames) /\ inboundDone'[q] /\ outboundDone'[q]
        /\ frames \in {<<>>, <<f>>, <<g>>}
        /\ ~inboundDone[q] => frames \in {<<f>>, <<g>>}
        /\ ~outboundDone[q] => frames = <<g>> \/ (q = Requester /\ frames = <<f>>)
    BY <1>0, <1>6, <2>2 DEF Leaves, Sends
  <2>4. /\ frames \in Seq(Frames)
        /\ Range(frames) \subseteq {f, g}
        /\ frames = <<f>> => f \in Range(frames)
        /\ frames = <<g>> => g \in Range(frames)
    <3>1. /\ Range(<<f>>) = {f} /\ Range(<<g>>) = {g} /\ Range(<<>>) = {}
          /\ <<f>> \in Seq(Frames) /\ <<g>> \in Seq(Frames) /\ <<>> \in Seq(Frames)
          /\ <<f>> # <<>> /\ <<g>> # <<>>
      BY <2>2, SingleFacts, FramesType
    <3>. QED
      BY ONLY <2>3, <3>1
  <2>5. outboundDone'[q] /\ ~outboundDone[q] => \E x \in Range(frames) : Stops(p, x)
    BY <1>0, <2>2, <2>3, <2>4 DEF Stops, EndsInbound
  <2>6. inboundDone'[q] /\ ~inboundDone[q] => \E x \in Range(frames) : Abandons(x)
    BY <2>2, <2>3, <2>4 DEF Abandons
  <2>. QED
    BY <1>0, <1>c, <2>1, <2>3, <2>4, <2>5, <2>6, EndsUsed
<1>7. ASSUME q = Responder, CancelsInbound
      PROVE  EndsInv(p)'
  <2>1. Uses(q)
    BY <1>0, <1>7, CallsUse, Zenon
  <2>b. PICK f : f = CancelFrame
    OBVIOUS
  <2>a. f = CancelFrame /\ f.type = "CANCEL"
    BY <2>b DEF CancelFrame
  <2>2. PICK t \in Seq(Frames) : t = <<f>> /\ Range(t) = {f}
    BY <2>a, FramesType, SingleFacts
  <2>3. pipe'[p] = After(pipe[p], t) /\ inboundDone'[q] /\ outboundDone'[q] = outboundDone[q]
    BY <1>0, <1>7, <2>a, <2>2 DEF CancelsInbound, Sends
  <2>. QED
    BY <1>0, <1>7, <1>c, <2>1, <2>a, <2>2, <2>3, EndsUsed DEF EndsInbound, Abandons
<1>d. ASSUME pipe[p] # <<>>
      PROVE  Follows(Head(pipe[p])) => ~Head(pipe[p]).complete
  BY <1>0, <1>a, <1>d, PairedTail DEF FragmentsInv
<1>8. ASSUME Drops(p) \/ TakesFragment(p) \/ TakesPayload(p) \/ TakesDemand(p)
             \/ TakesEnd(p) \/ (p = Requester /\ TakesCancel)
      PROVE  EndsInv(p)'
  <2>1. Receives(p)
    BY <1>8, FramesReceived, Zenon
  <2>2. /\ pipe[p] # <<>> /\ pipe'[p] = Tail(pipe[p]) /\ SameState(q) /\ connected' = connected
        /\ inboundDone[p] => inboundDone'[p]
        /\ outboundDone[p] => outboundDone'[p]
        /\ phase'[Responder] = phase[Responder] /\ phase'[Requester] = phase[Requester]
    BY <1>0, <2>1 DEF Receives, Only, Progresses, SameState
  <2>3. ASSUME Drops(p)
        PROVE  BothDone(p) \/ phase[Requester] # "ready" \/ phase[Responder] = "rejected"
    <3>1. ~registered[p] /\ Head(pipe[p]).type # "REQUEST_CHANNEL"
      BY <2>3 DEF Drops
    <3>2. BothDone(p) \/ phase[p] \in {"new", "none", "rejected"}
      BY <2>2, <3>1, Arriving
    <3>3. p = Responder => phase[p] # "none"
      BY <2>2, <3>1 DEF IInv, RequestInv
    <3>. QED
      BY <3>2, <3>3, Ends, Types DEF IInv
  <2>. DEFINE Done == /\ Stops(p, Head(pipe[p])) => inboundDone'[p]
                      /\ Abandons(Head(pipe[p])) => outboundDone'[p]
  <2>4. Drops(p) \/ Done
    <3>1. ASSUME TakesFragment(p) \/ TakesDemand(p)
          PROVE  ~Stops(p, Head(pipe[p])) /\ ~Abandons(Head(pipe[p]))
      BY <1>d, <2>2, <3>1 DEF TakesFragment, TakesDemand, Stops, Abandons, EndsInbound, Follows
    <3>2. ASSUME TakesPayload(p)
          PROVE  Done
      BY <3>2 DEF TakesPayload, Stops, Abandons, EndsInbound
    <3>3. ASSUME TakesEnd(p)
          PROVE  Done
      BY <3>3 DEF TakesEnd, IsEnded
    <3>4. ASSUME p = Requester, TakesCancel
          PROVE  Done
      BY <3>4 DEF TakesCancel, Stops, Abandons, EndsInbound
    <3>. QED
      BY <1>8, <3>1, <3>2, <3>3, <3>4
  <2>. QED
    BY <1>0, <2>2, <2>3, <2>4, EndsTaken DEF q, BothDone
<1>9. ASSUME Drops(q) \/ TakesFragment(q) \/ TakesPayload(q) \/ TakesDemand(q)
             \/ TakesEnd(q) \/ (q = Requester /\ TakesCancel)
      PROVE  EndsInv(p)'
  <2>1. Receives(q)
    BY <1>0, <1>9, FramesReceived, Zenon
  <2>2. /\ pipe[q] # <<>> /\ pipe'[p] = pipe[p] /\ SameState(p) /\ connected' = connected
        /\ inboundDone[q] => inboundDone'[q]
        /\ outboundDone[q] => outboundDone'[q]
        /\ phase'[Responder] = phase[Responder] /\ phase'[Requester] = phase[Requester]
    BY <1>0, <2>1 DEF Receives, Only, Progresses, SameState
  <2>3. PICK h \in Frames : h = Head(pipe[q]) /\ h \in Range(pipe[q])
    BY <1>a, <2>2, TailFacts
  <2>4. /\ EndsInbound(h) => outboundDone[p] \/ (phase[p] = "rejected" /\ h.type = "ERROR")
        /\ h.type = "ERROR" \/ (h.type = "CANCEL" /\ q = Responder) => BothDone(p) \/ phase[p] = "rejected"
        /\ h.type = "CANCEL" => inboundDone[p]
    BY <1>0, <2>3 DEF EndsInv
  <2>. DEFINE Followed == /\ outboundDone'[q] /\ ~outboundDone[q] => inboundDone[p]
                          /\ inboundDone'[q] /\ ~inboundDone[q] => outboundDone[p]
  <2>5. ASSUME phase[Requester] = "ready", phase[Responder] # "rejected"
        PROVE  Followed
    <3>0. phase[p] # "rejected"
      BY <2>5, Ends
    <3>1. ASSUME Drops(q) \/ TakesFragment(q) \/ TakesDemand(q)
          PROVE  outboundDone'[q] = outboundDone[q] /\ inboundDone'[q] = inboundDone[q]
      BY <3>1 DEF Drops, TakesFragment, TakesDemand, SameState
    <3>2. ASSUME TakesPayload(q)
          PROVE  Followed
      BY <2>3, <2>4, <3>0, <3>2 DEF TakesPayload, EndsInbound
    <3>3. ASSUME TakesEnd(q)
          PROVE  Followed
      BY <2>3, <2>4, <3>0, <3>3 DEF TakesEnd, BothDone
    <3>4. ASSUME q = Requester, TakesCancel
          PROVE  Followed
      BY <2>3, <2>4, <3>4 DEF TakesCancel
    <3>. QED
      BY <1>9, <3>1, <3>2, <3>3, <3>4
  <2>. QED
    BY <1>0, <1>b, <2>2, <2>5 DEF SameState, IsOpen
<1>10. ASSUME NEW n \in Nat, NEW complete \in BOOLEAN, CallsHandler(n, complete)
       PROVE  EndsInv(p)'
  <2>1. PICK h : h = Head(pipe[Responder])
    OBVIOUS
  <2>2. /\ pipe[Responder] # <<>> /\ Only(Responder) /\ connected' = connected
        /\ h.type \in {"REQUEST_CHANNEL", "PAYLOAD"}
        /\ h.type = "REQUEST_CHANNEL" \/ phase[Responder] = "assembling"
        /\ complete => h.complete
        /\ h.complete => complete
        /\ phase'[Responder] = "handler"
        /\ inboundDone'[Responder] = complete /\ outboundDone'[Responder] = outboundDone[Responder]
    BY <1>0, <1>10, <2>1 DEF CallsHandler, TakesFrame, Takes, PhaseInv
  <2>3. ~inboundDone[Responder] /\ ~outboundDone[Responder] /\ phase[Requester] = "ready"
        /\ phase[Responder] \in {"none", "assembling"}
    BY <2>1, <2>2, RequestArrives
  <2>4. /\ pipe'[Responder] = Tail(pipe[Responder]) /\ pipe'[Requester] = pipe[Requester]
    BY <1>0, <1>10, AfterNothing DEF CallsHandler, TakesFrame, Takes
  <2>5. CASE p = Responder
    <3>1. Stops(p, h) => inboundDone'[p]
      BY <2>2, <2>5 DEF Stops, EndsInbound
    <3>2. ~Abandons(h)
      BY <2>2 DEF Abandons
    <3>. QED
      BY <1>0, <2>1, <2>2, <2>3, <2>4, <2>5, <3>1, <3>2, EndsTaken DEF Only, SameState
  <2>6. CASE p = Requester
    <3>1. h \in Range(pipe[q])
      BY <1>0, <1>a, <2>1, <2>2, <2>6, TailFacts
    <3>2. complete => outboundDone[p]
      BY <1>0, <2>2, <3>1 DEF EndsInv, EndsInbound
    <3>. QED
      BY <1>0, <1>b, <2>2, <2>3, <2>4, <2>6, <3>2 DEF Only, SameState, IsOpen
  <2>. QED
    BY <2>5, <2>6, Ends
<1>11. ASSUME TakesFirstFragment
       PROVE  EndsInv(p)'
  <2>1. /\ pipe[Responder] # <<>> /\ Only(Responder) /\ connected' = connected
        /\ Head(pipe[Responder]).type = "REQUEST_CHANNEL" /\ Follows(Head(pipe[Responder]))
        /\ phase'[Responder] = "assembling"
        /\ inboundDone'[Responder] = inboundDone[Responder] /\ outboundDone'[Responder] = outboundDone[Responder]
    BY <1>11 DEF TakesFirstFragment, TakesFrame, Takes, Follows
  <2>2. phase[Responder] = "none"
    BY <2>1, RequestArrives
  <2>3. /\ pipe'[Responder] = Tail(pipe[Responder]) /\ pipe'[Requester] = pipe[Requester]
    BY <1>0, <1>11, AfterNothing DEF TakesFirstFragment, TakesFrame, Takes
  <2>4. CASE p = Responder
    <3>1. ~Stops(p, Head(pipe[p])) /\ ~Abandons(Head(pipe[p]))
      BY <1>d, <2>1, <2>4 DEF Stops, EndsInbound, Abandons
    <3>. QED
      BY <1>0, <2>1, <2>2, <2>3, <2>4, <3>1, EndsTaken DEF Only, SameState
  <2>5. CASE p = Requester
    BY <1>0, <1>b, <2>1, <2>2, <2>3, <2>5 DEF Only, SameState, IsOpen
  <2>. QED
    BY <2>4, <2>5, Ends
<1>12. ASSUME Rejects
       PROVE  EndsInv(p)'
  <2>1. /\ pipe[Responder] # <<>> /\ Only(Responder) /\ connected' = connected
        /\ Head(pipe[Responder]).type = "REQUEST_CHANNEL" /\ phase'[Responder] = "rejected"
        /\ inboundDone'[Responder] = inboundDone[Responder] /\ outboundDone'[Responder] = outboundDone[Responder]
        /\ pipe'[Responder] = Tail(pipe[Responder]) /\ pipe'[Requester] = After(pipe[Requester], <<ErrorFrame>>)
    BY <1>12 DEF Rejects, Takes
  <2>2. phase[Responder] = "none"
    BY <2>1, RequestArrives
  <2>3. CASE p = Responder
    BY <1>0, <2>1, <2>2, <2>3, EndsTaken DEF Only, SameState
  <2>4. CASE p = Requester
    <3>a. PICK f : f = ErrorFrame
      OBVIOUS
    <3>0. f = ErrorFrame /\ f.type = "ERROR"
      BY <3>a DEF ErrorFrame
    <3>1. PICK t \in Seq(Frames) : t = <<f>> /\ Range(t) = {f}
      BY <3>0, FramesType, SingleFacts
    <3>2. /\ pipe'[p] = After(pipe[p], t) /\ phase'[q] = "rejected" /\ phase[q] # "rejected"
          /\ inboundDone'[p] = inboundDone[p] /\ outboundDone'[p] = outboundDone[p]
          /\ inboundDone'[q] = inboundDone[q] /\ outboundDone'[q] = outboundDone[q]
          /\ (IsOpen' <=> IsOpen) /\ phase'[Requester] = phase[Requester] /\ q = Responder
      BY <1>0, <2>1, <2>2, <2>4, <3>0, <3>1 DEF Only, SameState, IsOpen
    <3>. QED
      BY <1>0, <3>0, <3>1, <3>2, EndsSent, ZenonT(40) DEF q
  <2>. QED
    BY <2>3, <2>4, Ends
<1>13. ASSUME NEW a \in Peers, Closes(a)
       PROVE  EndsInv(p)'
  <2>1. /\ ~IsOpen' /\ phase'[p] = phase[p] /\ phase'[q] = phase[q]
        /\ inboundDone[p] => inboundDone'[p]
        /\ outboundDone[p] => outboundDone'[p]
        /\ inboundDone[q] => inboundDone'[q]
        /\ outboundDone[q] => outboundDone'[q]
        /\ pipe'[p] = <<>> \/ pipe'[p] = pipe[p]
    BY <1>0, <1>13, Ends DEF Closes, IsEnded, Only, SameState, IsOpen
  <2>2. CASE pipe'[p] = <<>>
    BY <1>a, <2>1, <2>2 DEF EndsInv, q
  <2>3. CASE pipe'[p] = pipe[p]
    BY <1>0, <2>1, <2>3 DEF EndsInv, BothDone, q
  <2>. QED
    BY <2>1, <2>2, <2>3
<1>14. ASSUME Returns
       PROVE  EndsInv(p)'
  BY <1>0, <1>14, <1>b, Ends DEF Returns, Only, SameState, IsOpen
<1>15. ASSUME NEW a \in Peers, \/ \E n : AsksMore(a, n)
                               \/ \E items, complete, frames : Publishes(a, items, complete, frames)
                               \/ \E frames : Leaves(a, frames)
                               \/ a = Responder /\ CancelsInbound
       PROVE  EndsInv(p)'
  <2>1. CASE a = p
    <3>1. Uses(p)
      BY <1>0, <1>15, <2>1, CallsUse DEF AsksMore
    <3>. QED
      BY <1>3, <3>1
  <2>2. CASE a = q
    BY <1>15, <1>4, <1>5, <1>6, <1>7, <2>2, Zenon
  <2>. QED
    BY <1>0, <2>1, <2>2
<1>16. ASSUME NEW a \in Peers, Drops(a) \/ TakesFragment(a) \/ TakesPayload(a) \/ TakesDemand(a)
                                \/ TakesEnd(a) \/ (a = Requester /\ TakesCancel)
       PROVE  EndsInv(p)'
  <2>1. CASE a = p
    BY <1>16, <1>8, <2>1, Zenon
  <2>2. CASE a = q
    BY <1>16, <1>9, <2>2, Zenon
  <2>. QED
    BY <1>0, <2>1, <2>2
<1>. QED
  BY <1>1, <1>2, <1>10, <1>11, <1>12, <1>13, <1>14, <1>15, <1>16, Zenon DEF Effect
\* What is left of a pipe is in order, and after a frame that ends the
\* direction nothing speaks.
LEMMA OrderedTail ==
  ASSUME NEW p \in Peers, NEW s \in Seq(Frames), s # <<>>, Ordered(p, s)
  PROVE  /\ Ordered(p, Tail(s))
         /\ Stops(p, Head(s)) => \A f \in Range(Tail(s)) : ~Speaks(p, f)
<1>1. PICK l \in Seq(Frames) : l = Tail(s)
  BY TailFacts
<1>2. PICK m \in Nat : m = Len(s)
  BY LenProperties
<1>3. /\ Len(l) = m - 1 /\ m > 0 /\ Head(s) = s[1]
      /\ \A i \in 1 .. m - 1 : l[i] = s[i + 1]
  BY <1>1, <1>2, HeadTailProperties
<1>4. \A i, j \in 1 .. m : i < j /\ Stops(p, s[i]) => ~Speaks(p, s[j])
  BY <1>2 DEF Ordered
<1>5. ASSUME NEW i \in 1 .. m - 1, NEW j \in 1 .. m - 1, i < j, Stops(p, l[i])
      PROVE  ~Speaks(p, l[j])
  <2>1. i + 1 \in 1 .. m /\ j + 1 \in 1 .. m /\ i + 1 < j + 1
    BY <1>5
  <2>2. l[i] = s[i + 1] /\ l[j] = s[j + 1]
    BY <1>3
  <2>. QED
    BY <1>4, <1>5, <2>1, <2>2, Zenon
<1>6. ASSUME Stops(p, s[1]), NEW f \in Range(l)
      PROVE  ~Speaks(p, f)
  <2>1. PICK j \in 1 .. m - 1 : f = l[j]
    BY <1>3 DEF Range
  <2>2. 1 \in 1 .. m /\ j + 1 \in 1 .. m /\ 1 < j + 1
    BY <1>3
  <2>3. f = s[j + 1]
    BY <1>3, <2>1
  <2>. QED
    BY <1>4, <1>6, <2>2, <2>3, Zenon
<1>7. Ordered(p, l)
  BY <1>3, <1>5 DEF Ordered
<1>. QED
  BY <1>1, <1>3, <1>6, <1>7, Zenon

\* Frames in order follow frames in order if nothing has ended, or if they say
\* nothing.
LEMMA OrderedAppend ==
  ASSUME NEW p \in Peers, NEW s \in Seq(Frames), NEW t \in Seq(Frames), Ordered(p, s), Ordered(p, t),
         (\A f \in Range(s) : ~Stops(p, f)) \/ (\A f \in Range(t) : ~Speaks(p, f))
  PROVE  Ordered(p, s \o t)
<1>1. PICK r : r = s \o t
  OBVIOUS
<1>2. PICK m \in Nat : m = Len(s)
  BY LenProperties
<1>3. PICK k \in Nat : k = Len(t)
  BY LenProperties
<1>a. /\ Len(r) = m + k
      /\ \A i \in 1 .. m : r[i] = s[i]
      /\ \A i \in 1 .. k : r[m + i] = t[i]
  BY <1>1, <1>2, <1>3
<1>b. (\A i \in 1 .. m : s[i] \in Range(s)) /\ (\A i \in 1 .. k : t[i] \in Range(t))
  BY <1>2, <1>3 DEF Range
<1>4. /\ Len(r) = m + k
      /\ \A i \in 1 .. m : r[i] = s[i] /\ r[i] \in Range(s)
      /\ \A i \in 1 .. k : r[m + i] = t[i] /\ r[m + i] \in Range(t)
  BY <1>a, <1>b, Zenon
<1>5. /\ \A i, j \in 1 .. m : i < j /\ Stops(p, s[i]) => ~Speaks(p, s[j])
      /\ \A i, j \in 1 .. k : i < j /\ Stops(p, t[i]) => ~Speaks(p, t[j])
  BY <1>2, <1>3 DEF Ordered
<1>6. ASSUME NEW i \in 1 .. m + k
      PROVE  i \in 1 .. m \/ \E x \in 1 .. k : i = m + x
  <2>1. i \notin 1 .. m => i - m \in 1 .. k /\ i = m + (i - m)
    OBVIOUS
  <2>. QED
    BY <2>1
<1>7. ASSUME NEW i \in 1 .. m + k, NEW j \in 1 .. m + k, i < j, Stops(p, r[i])
      PROVE  ~Speaks(p, r[j])
  <2>1. CASE j \in 1 .. m
    <3>1. i \in 1 .. m
      BY <1>7, <2>1
    <3>2. r[i] = s[i] /\ r[j] = s[j]
      BY <1>4, <2>1, <3>1
    <3>. QED
      BY <1>5, <1>7, <2>1, <3>1, <3>2, Zenon
  <2>2. CASE j \notin 1 .. m
    <3>1. PICK y \in 1 .. k : j = m + y
      BY <1>6, <2>2
    <3>2. r[j] = t[y] /\ r[j] \in Range(t)
      BY <1>4, <3>1
    <3>3. CASE i \in 1 .. m
      <4>1. r[i] \in Range(s)
        BY <1>4, <3>3
      <4>. QED
        BY <1>7, <3>2, <4>1, Zenon
    <3>4. CASE i \notin 1 .. m
      <4>1. PICK x \in 1 .. k : i = m + x
        BY <1>6, <3>4
      <4>2. r[i] = t[x] /\ x < y
        BY <1>4, <1>7, <3>1, <4>1
      <4>. QED
        BY <1>5, <1>7, <3>2, <4>2, Zenon
    <3>. QED
      BY <3>3, <3>4
  <2>. QED
    BY <2>1, <2>2
<1>. QED
  BY <1>1, <1>4, <1>7 DEF Ordered

\* Items, and at most one other signal after them.
Given(s) == \A i \in 1 .. Len(s) - 1 : s[i] = "next"

\* What a subscriber was given before the end may be followed by more.
LEMMA GivenMore ==
  ASSUME NEW x \in Seq(Signals), Given(x), ~Told(x), NEW s \in Seq(Signals), Given(s)
  PROVE  Given(x \o s) /\ (Told(x \o s) <=> Told(s))
<1>1. PICK r : r = x \o s
  OBVIOUS
<1>2. PICK m \in Nat : m = Len(x)
  BY LenProperties
<1>3. PICK k \in Nat : k = Len(s)
  BY LenProperties
<1>4. /\ Len(r) = m + k
      /\ \A i \in 1 .. m : r[i] = x[i]
      /\ \A i \in 1 .. k : r[m + i] = s[i]
  BY <1>1, <1>2, <1>3
<1>5. \A i \in 1 .. m : x[i] = "next"
  <2>1. (\A i \in 1 .. m - 1 : x[i] = "next") /\ (m > 0 => x[m] = "next")
    BY <1>2 DEF Given, Told
  <2>. QED
    BY <2>1
<1>6. ASSUME NEW i \in 1 .. (m + k) - 1
      PROVE  r[i] = "next"
  <2>1. CASE i \in 1 .. m
    BY <1>4, <1>5, <2>1
  <2>2. CASE i \notin 1 .. m
    <3>1. i - m \in 1 .. k - 1 /\ i - m \in 1 .. k /\ i = m + (i - m)
      BY <2>2
    <3>2. s[i - m] = "next"
      BY <1>3, <3>1 DEF Given
    <3>. QED
      BY <1>4, <3>1, <3>2
  <2>. QED
    BY <2>1, <2>2
<1>7. CASE k = 0
  <2>1. s = <<>>
    BY <1>3, <1>7, EmptySeq
  <2>2. r = x
    BY <1>1, <2>1, MoreSignals, Zenon
  <2>3. ~Told(s)
    BY <2>1 DEF Told
  <2>. QED
    BY <1>1, <2>2, <2>3, Zenon
<1>8. CASE k # 0
  <2>1. k \in 1 .. k /\ Len(r) = m + k /\ r[m + k] = s[k]
    BY <1>4, <1>8
  <2>2. r # <<>> /\ s # <<>>
    <3>1. Len(r) # 0 /\ Len(s) # 0 /\ Len(<<>>) = 0
      BY <1>3, <1>8, <2>1
    <3>. QED
      BY <3>1
  <2>3. Told(r) <=> Told(s)
    BY <1>3, <2>1, <2>2 DEF Told
  <2>4. Given(r)
    BY <1>4, <1>6 DEF Given
  <2>. QED
    BY <1>1, <2>3, <2>4, Zenon
<1>. QED
  BY <1>7, <1>8

\* What a frame makes a stream tell its subscriber.
LEMMA GivenSignals ==
  /\ Given(<<>>) /\ ~Told(<<>>)
  /\ \A e : Given(<<e>>) /\ (Told(<<e>>) <=> e # "next")
  /\ \A frame : frame.next \in BOOLEAN /\ frame.complete \in BOOLEAN
       => Given(SignalsOf(frame)) /\ (Told(SignalsOf(frame)) <=> frame.complete)
<1>1. Given(<<>>) /\ ~Told(<<>>)
  BY DEF Given, Told
<1>2. ASSUME NEW e
      PROVE  Given(<<e>>) /\ (Told(<<e>>) <=> e # "next")
  BY DEF Given, Told
<1>3. ASSUME NEW frame, frame.next \in BOOLEAN, frame.complete \in BOOLEAN
      PROVE  Given(SignalsOf(frame)) /\ (Told(SignalsOf(frame)) <=> frame.complete)
  <2>1. CASE frame.next
    <3>1. CASE frame.complete
      <4>1. PICK s : s = SignalsOf(frame)
        OBVIOUS
      <4>2. s = <<"next">> \o <<"complete">>
        BY <2>1, <3>1, <4>1, Zenon DEF SignalsOf
      <4>3. Len(s) = 2 /\ s[1] = "next" /\ s[2] = "complete"
        BY <4>2
      <4>4. Given(s) /\ Told(s)
        BY <4>3 DEF Given, Told
      <4>. QED
        BY <3>1, <4>1, <4>4, Zenon
    <3>2. CASE ~frame.complete
      <4>1. SignalsOf(frame) = <<"next">>
        BY <2>1, <3>2 DEF SignalsOf
      <4>. QED
        BY <1>2, <3>2, <4>1
    <3>. QED
      BY <3>1, <3>2
  <2>2. CASE ~frame.next
    <3>1. CASE frame.complete
      <4>1. SignalsOf(frame) = <<"complete">>
        BY <2>2, <3>1 DEF SignalsOf
      <4>. QED
        BY <1>2, <3>1, <4>1
    <3>2. CASE ~frame.complete
      <4>1. SignalsOf(frame) = <<>>
        BY <2>2, <3>2 DEF SignalsOf
      <4>. QED
        BY <1>1, <3>2, <4>1
    <3>. QED
      BY <3>1, <3>2
  <2>. QED
    BY <2>1, <2>2
<1>. QED
  BY <1>1, <1>2, <1>3
\* p's subscriber is told nothing.
LEMMA SignalsQuiet ==
  ASSUME NEW p \in Peers, SignalsInv(p), NEW q, q = Other(p), signals'[p] = signals[p],
         Ordered(p, pipe'[p]), Range(pipe'[p]) \subseteq Range(pipe[p]),
         connected'[p] => connected[p], inboundDone[p] => inboundDone'[p], outboundDone[p] => outboundDone'[p],
         outboundDone[q] => outboundDone'[q],
         inboundDone'[p] /\ phase'[p] \in {"handler", "ready"} /\ ~cancelled'[p] =>
           Told(signals[p]) \/ (p = Responder /\ deferredError' /\ (phase'[p] = "handler" \/ assembled'))
  PROVE  SignalsInv(p)'
<1>1. PICK x : x = signals[p]
  OBVIOUS
<1>2. PICK R : R = Range(pipe'[p])
  OBVIOUS
<1>3. \A i \in 1 .. Len(x) - 1 : x[i] = "next"
  BY <1>1 DEF SignalsInv
<1>4. Told(x) => inboundDone'[p]
  BY <1>1 DEF SignalsInv
<1>5. Told(x) /\ connected'[p] /\ ~(inboundDone'[p] /\ outboundDone'[p]) =>
        outboundDone'[q] /\ \A f \in R : ~Speaks(p, f)
  BY <1>1, <1>2 DEF SignalsInv, BothDone
<1>. QED
  BY <1>1, <1>2, <1>3, <1>4, <1>5 DEF SignalsInv, BothDone

\* p's subscriber is told s.
LEMMA SignalsTold ==
  ASSUME NEW p \in Peers, SignalsInv(p), NEW q, q = Other(p), signals[p] \in Seq(Signals),
         NEW s \in Seq(Signals), Given(s), Signalled(p, s), ~Told(signals[p]), Ordered(p, pipe'[p]),
         Told(s) => inboundDone'[p],
         Told(s) /\ connected'[p] /\ ~(inboundDone'[p] /\ outboundDone'[p]) =>
           outboundDone'[q] /\ \A f \in Range(pipe'[p]) : ~Speaks(p, f),
         inboundDone'[p] /\ phase'[p] \in {"handler", "ready"} /\ ~cancelled'[p] =>
           Told(s) \/ (p = Responder /\ deferredError' /\ (phase'[p] = "handler" \/ assembled'))
  PROVE  SignalsInv(p)'
<1>1. Given(signals[p])
  BY DEF SignalsInv, Given
<1>2. PICK x : x = signals[p] \o s
  OBVIOUS
<1>3. Given(x) /\ (Told(x) <=> Told(s))
  BY <1>1, <1>2, GivenMore, Zenon
<1>4. signals'[p] = x
  BY <1>2 DEF Signalled
<1>5. \A i \in 1 .. Len(x) - 1 : x[i] = "next"
  BY <1>3 DEF Given
<1>. QED
  BY <1>3, <1>4, <1>5 DEF SignalsInv, BothDone

\* Frames are sent to p: what speaks is sent before the direction is done.
LEMMA SignalsSent ==
  ASSUME Typed, NEW p \in Peers, SignalsInv(p), EndsInv(p), NEW q, q = Other(p), SameState(p), SameSubscriber(p),
         connected'[p] = connected[p], outboundDone[q] => outboundDone'[q],
         p = Responder => (deferredError => deferredError') /\ (assembled => assembled'),
         NEW t \in Seq(Frames), Ordered(p, t), pipe'[p] = After(pipe[p], t),
         \/ \A f \in Range(t) : ~Speaks(p, f)
         \/ ~outboundDone[q] /\ phase[q] # "rejected"
  PROVE  SignalsInv(p)'
<1>1. PICK s \in Seq(Frames) : s = pipe[p]
  BY Types
<1>2. PICK r : r = After(s, t)
  OBVIOUS
<1>3. pipe'[p] = r
  BY <1>1, <1>2
<1>4. (\A f \in Range(t) : ~Speaks(p, f)) \/ (\A f \in Range(s) : ~Stops(p, f))
  BY <1>1, Ends DEF EndsInv, BothDone, Stops
<1>5. Ordered(p, r)
  <2>1. Ordered(p, s)
    BY <1>1 DEF SignalsInv
  <2>. QED
    BY <1>2, <1>4, <2>1, OrderedAppend, Zenon DEF After
<1>6. PICK x : x = signals[p]
  OBVIOUS
<1>7. Told(x) /\ connected[p] /\ ~BothDone(p) => outboundDone[q] /\ \A f \in Range(r) : ~Speaks(p, f)
  <2>1. Range(r) \subseteq Range(s) \cup Range(t)
    BY <1>2, AfterFacts
  <2>2. Told(x) /\ connected[p] /\ ~BothDone(p) => outboundDone[q] /\ \A f \in Range(s) : ~Speaks(p, f)
    BY <1>1, <1>6 DEF SignalsInv
  <2>. QED
    BY <2>1, <2>2
<1>8. /\ \A i \in 1 .. Len(x) - 1 : x[i] = "next"
      /\ Told(x) => inboundDone[p]
      /\ inboundDone[p] /\ phase[p] \in {"handler", "ready"} /\ ~cancelled[p] =>
           Told(x) \/ (p = Responder /\ deferredError /\ (phase[p] = "handler" \/ assembled))
  BY <1>6 DEF SignalsInv
<1>9. /\ signals'[p] = x /\ phase'[p] = phase[p] /\ cancelled'[p] = cancelled[p] /\ connected'[p] = connected[p]
      /\ inboundDone'[p] = inboundDone[p] /\ outboundDone'[p] = outboundDone[p]
  BY <1>6 DEF SameState, SameSubscriber
<1>. QED
  BY <1>3, <1>5, <1>7, <1>8, <1>9 DEF SignalsInv, BothDone
\* A subscriber is given items and then at most one other signal, and is told
\* of the end if there is one.
LEMMA SignalsStep ==
  ASSUME IInv, Typed', Effect, NEW p \in Peers
  PROVE  SignalsInv(p)'
<1>. DEFINE q == Other(p)
<1>. USE BothEnds
<1>0. /\ Typed /\ SignalsInv(p) /\ EndsInv(p) /\ PhaseInv /\ FragmentsInv(p) /\ DeferredInv
      /\ q \in Peers /\ p # q /\ Peers = {p, q} /\ Other(q) = p
      /\ (p = Responder <=> q = Requester) /\ (p = Requester <=> q = Responder)
  BY Ends DEF IInv
<1>a. /\ pipe[p] \in Seq(Frames) /\ Ordered(p, pipe[p]) /\ signals[p] \in Seq(Signals)
      /\ After(pipe[p], <<>>) = pipe[p] /\ <<>> \in Seq(Frames) /\ Range(<<>>) = {}
      /\ \A r \in Peers : Ordered(r, <<>>)
  BY <1>0, Types, AfterNothing, SingleFacts, FramesType, SingleFrames DEF Sendable, SignalsInv
<1>. HIDE DEF q
<1>b. ASSUME pipe[p] # <<>>
      PROVE  /\ Ordered(p, Tail(pipe[p])) /\ Range(Tail(pipe[p])) \subseteq Range(pipe[p])
             /\ Stops(p, Head(pipe[p])) => \A f \in Range(Tail(pipe[p])) : ~Speaks(p, f)
             /\ Head(pipe[p]) \in Range(pipe[p]) /\ Head(pipe[p]) \in Frames
  BY <1>a, <1>b, OrderedTail, TailFacts
<1>c. ASSUME SameSubscriber(p), phase'[p] = phase[p], inboundDone'[p] = inboundDone[p] \/ cancelled'[p],
             outboundDone[p] => outboundDone'[p], inboundDone[p] => inboundDone'[p], outboundDone[q] => outboundDone'[q],
             p = Responder => (deferredError => deferredError') /\ (assembled => assembled'),
             connected'[p] => connected[p],
             \/ pipe'[p] = pipe[p]
             \/ pipe[p] # <<>> /\ pipe'[p] = Tail(pipe[p])
             \/ pipe'[p] = <<>>
      PROVE  SignalsInv(p)'
  <2>1. Ordered(p, pipe'[p]) /\ Range(pipe'[p]) \subseteq Range(pipe[p])
    BY <1>0, <1>a, <1>b, <1>c
  <2>2. inboundDone'[p] /\ phase'[p] \in {"handler", "ready"} /\ ~cancelled'[p] =>
           Told(signals[p]) \/ (p = Responder /\ deferredError' /\ (phase'[p] = "handler" \/ assembled'))
    BY <1>0, <1>c DEF SignalsInv, SameSubscriber
  <2>. QED
    BY <1>0, <1>c, <2>1, <2>2, SignalsQuiet DEF q, SameSubscriber
<1>d. ASSUME SameState(p), SameSubscriber(p), pipe'[p] = pipe[p], connected'[p] = connected[p],
             outboundDone[q] => outboundDone'[q],
             p = Responder => (deferredError => deferredError') /\ (assembled => assembled')
      PROVE  SignalsInv(p)'
  BY <1>c, <1>d DEF SameState
<1>1. ASSUME CompletesEarly \/ GivesUp \/ \E n \in Nat : WaitsForMore(n)
      PROVE  SignalsInv(p)'
  <2>1. /\ Only(Requester) /\ pipe' = pipe /\ connected' = connected /\ SameDeferred /\ phase[Requester] = "new"
        /\ inboundDone[Requester] => inboundDone'[Requester]
        /\ outboundDone[Requester] => outboundDone'[Requester]
        /\ phase'[Requester] \in {"new", "rejected"}
        /\ signals[Requester] = <<>>
    BY <1>0, <1>1 DEF CompletesEarly, GivesUp, WaitsForMore, Waits, SameState, PhaseInv
  <2>2. CASE p = Responder
    BY <1>0, <1>d, <2>1, <2>2 DEF Only, SameDeferred
  <2>3. CASE p = Requester /\ signals'[p] = signals[p]
    BY <1>0, <1>a, <2>1, <2>3, SignalsQuiet DEF q, Only, SameState
  <2>4. CASE p = Requester /\ GivesUp /\ Signalled(p, <<"error">>)
    <3>1. inboundDone'[p] /\ outboundDone'[p] /\ pipe'[p] = pipe[p]
      BY <2>1, <2>4 DEF GivesUp
    <3>2. ~Told(signals[p]) /\ Given(<<"error">>) /\ Told(<<"error">>)
      BY <2>1, <2>4, GivenSignals
    <3>3. <<"error">> \in Seq(Signals)
      BY SignalsType
    <3>. QED
      BY <1>0, <1>a, <2>4, <3>1, <3>2, <3>3, SignalsTold DEF q
  <2>. QED
    BY <1>1, <2>2, <2>3, <2>4, Ends DEF CompletesEarly, GivesUp, WaitsForMore, SameSubscriber
<1>2. ASSUME NEW fragmented \in BOOLEAN, Asks(fragmented)
      PROVE  SignalsInv(p)'
  <2>1. /\ phase[Requester] = "new" /\ phase'[Requester] = "ready" /\ Only(Requester) /\ connected' = connected
        /\ ~inboundDone[Requester] /\ ~outboundDone[Requester]
        /\ inboundDone'[Requester] = inboundDone[Requester] /\ SameDeferred
        /\ SameSubscriber(Requester)
    BY <1>0, <1>2 DEF Asks, PhaseInv
  <2>2. CASE p = Requester
    <3>1. pipe'[p] = pipe[p]
      BY <1>2, <2>2 DEF Asks, Sends
    <3>. QED
      BY <1>0, <1>a, <2>1, <2>2, <3>1, SignalsQuiet DEF q, Only, SameState, SameSubscriber
  <2>3. CASE p = Responder
    <3>1. PICK n \in Nat \ {0}, complete \in BOOLEAN : n = initialRequestN[Requester] /\ complete = isComplete[Requester]
      BY SMTT(40), <1>0, Types DEF PhaseInv
    <3>2. PICK t \in Seq(Frames) : t = RequestFrames(n, complete, fragmented) /\ Ordered(p, t)
      BY RequestFacts, Zenon
    <3>3. pipe'[p] = After(pipe[p], t)
      BY <1>2, <2>3, <3>1, <3>2 DEF Asks, Sends
    <3>4. SameState(p) /\ SameSubscriber(p) /\ ~outboundDone[q] /\ phase[q] # "rejected"
      BY <1>0, <2>1, <2>3 DEF Only
    <3>. QED
      BY <1>0, <2>1, <3>2, <3>3, <3>4, SignalsSent DEF q, SameDeferred
  <2>. QED
    BY <2>2, <2>3, Ends
<1>3. ASSUME NEW a \in Peers, \/ \E n : AsksMore(a, n)
                              \/ \E items, complete, frames : Publishes(a, items, complete, frames)
                              \/ a = Responder /\ CancelsInbound
      PROVE  SignalsInv(p)'
  <2>1. CASE a = p
    <3>. DEFINE Quiet ==
           /\ signals'[p] = signals[p] /\ pipe'[p] = pipe[p] /\ connected' = connected /\ SameDeferred
           /\ cancelled[p] => cancelled'[p]
           /\ inboundDone[p] => inboundDone'[p]
           /\ outboundDone[p] => outboundDone'[p]
           /\ inboundDone'[p] = inboundDone[p] \/ cancelled'[p]
           /\ phase'[p] = phase[p] /\ outboundDone'[q] = outboundDone[q]
    <3>1. Quiet
      <4>1. ASSUME NEW n, AsksMore(p, n)
            PROVE  Quiet
        BY <1>0, <4>1 DEF AsksMore, SameState, Sends, Only
      <4>2. ASSUME NEW items, NEW complete, NEW frames, Publishes(p, items, complete, frames)
            PROVE  Quiet
        BY <1>0, <4>2 DEF Publishes, SameState, SameSubscriber, Sends, Only
      <4>3. ASSUME p = Responder, CancelsInbound
            PROVE  Quiet
        BY <1>0, <4>3 DEF CancelsInbound, SameState, Sends, Only
      <4>. QED
        BY <1>3, <2>1, <4>1, <4>2, <4>3
    <3>2. inboundDone'[p] /\ phase'[p] \in {"handler", "ready"} /\ ~cancelled'[p] =>
           Told(signals[p]) \/ (p = Responder /\ deferredError' /\ (phase'[p] = "handler" \/ assembled'))
      BY <1>0, <3>1 DEF SignalsInv, SameDeferred
    <3>. QED
      BY <1>0, <1>a, <3>1, <3>2, SignalsQuiet DEF q
  <2>2. CASE a = q
    <3>1. Uses(q) /\ SameSubscriber(p) /\ SameDeferred
      <4>1. Uses(q)
        BY <1>0, <1>3, <2>2, CallsUse DEF AsksMore
      <4>. QED
        BY <1>0, <1>3, <2>2, <4>1 DEF AsksMore, Publishes, CancelsInbound, Only
    <3>2. /\ SameState(p) /\ connected'[p] = connected[p] /\ (outboundDone[q] => outboundDone'[q])
          /\ phase[q] \in {"handler", "ready"}
      BY <1>0, <3>1 DEF Uses, Only, Progresses, HasStream
    <3>. DEFINE Fits(t) == /\ Sendable(t) /\ pipe'[p] = After(pipe[p], t)
                           /\ outboundDone[q] => \A f \in Range(t) : ~Speaks(p, f)
    <3>3. PICK t : Fits(t)
      <4>1. CASE outboundDone[q]
        <5>1. ASSUME NEW n, AsksMore(q, n)
              PROVE  \E t : Fits(t)
          <6>1. PICK f : f = RequestNFrame(n)
            OBVIOUS
          <6>2. f.type = "REQUEST_N" /\ Range(<<f>>) = {f}
            BY <6>1, SingleFacts DEF RequestNFrame
          <6>3. \A x \in Range(<<f>>) : ~Speaks(p, x)
            BY <6>2 DEF Speaks
          <6>. QED
            BY <1>0, <5>1, <6>1, <6>3, SingleFrames, Zenon DEF AsksMore, Sends
        <5>2. ASSUME q = Responder, CancelsInbound
              PROVE  \E t : Fits(t)
          <6>1. PICK f : f = CancelFrame
            OBVIOUS
          <6>2. f.type = "CANCEL" /\ Range(<<f>>) = {f}
            BY <6>1, SingleFacts DEF CancelFrame
          <6>3. \A x \in Range(<<f>>) : ~Speaks(p, x)
            BY <6>2 DEF Speaks
          <6>. QED
            BY <1>0, <5>2, <6>1, <6>3, SingleFrames, Zenon DEF CancelsInbound, Sends
        <5>. QED
          BY <1>3, <2>2, <4>1, <5>1, <5>2 DEF Publishes
      <4>2. CASE ~outboundDone[q]
        <5>1. PICK t : Sendable(t) /\ pipe'[Other(q)] = After(pipe[Other(q)], t)
          BY <1>0, <1>3, <2>2, UsesSend, Zenon DEF AsksMore
        <5>. QED
          BY <1>0, <4>2, <5>1
      <4>. QED
        BY <4>1, <4>2
    <3>4. t \in Seq(Frames) /\ Ordered(p, t)
      BY <3>3 DEF Sendable
    <3>. QED
      BY <1>0, <3>1, <3>2, <3>3, <3>4, SignalsSent DEF q, SameDeferred
  <2>. QED
    BY <1>0, <2>1, <2>2
<1>4. ASSUME NEW a \in Peers, NEW frames, Leaves(a, frames)
      PROVE  SignalsInv(p)'
  <2>0. Sendable(frames)
    BY <1>4, SingleFrames DEF Leaves
  <2>1. CASE a = p
    <3>1. /\ pipe'[p] = pipe[p] /\ connected' = connected /\ assembled' = assembled
          /\ inboundDone'[p] /\ outboundDone'[p] /\ outboundDone'[q] = outboundDone[q]
          /\ HasStream(p) /\ (phase'[p] = phase[p] \/ phase'[p] = "failed")
      BY <1>0, <1>4, <2>1 DEF Leaves, Sends, Only, SameState
    <3>2. CASE Signalled(p, <<"error">>) /\ ~inboundDone[p]
      <4>1. ~Told(signals[p]) /\ Given(<<"error">>) /\ Told(<<"error">>)
        BY <1>0, <3>2, GivenSignals DEF SignalsInv
      <4>2. <<"error">> \in Seq(Signals)
        BY SignalsType
      <4>. QED
        BY <1>0, <1>a, <3>1, <3>2, <4>1, <4>2, SignalsTold DEF q
    <3>3. CASE /\ signals'[p] = signals[p]
               /\ inboundDone'[p] /\ phase'[p] \in {"handler", "ready"} /\ ~cancelled'[p] =>
                    Told(signals[p]) \/ (p = Responder /\ deferredError' /\ (phase'[p] = "handler" \/ assembled'))
      BY <1>0, <1>a, <3>1, <3>3, SignalsQuiet DEF q
    <3>4. (Signalled(p, <<"error">>) /\ ~inboundDone[p]) \/ signals'[p] = signals[p]
      <4>1. signals[p] \o <<>> = signals[p]
        BY <1>a, AppendFacts
      <4>. QED
        BY <1>4, <2>1, <4>1 DEF Leaves, Signalled, SameSubscriber
    <3>5. ASSUME signals'[p] = signals[p], phase'[p] \in {"handler", "ready"}, ~cancelled'[p],
                 ~(Signalled(p, <<"error">>) /\ ~inboundDone[p])
          PROVE  Told(signals[p]) \/ (p = Responder /\ deferredError' /\ (phase'[p] = "handler" \/ assembled'))
      <4>1. /\ phase'[p] = phase[p] /\ cancelled'[p] = cancelled[p]
            /\ deferredError' = (deferredError \/ (~HasReceiver(p) /\ ~inboundDone[p]))
            /\ HasReceiver(p) => inboundDone[p]
        BY <1>4, <2>1, <3>5 DEF Leaves, HasReceiver
      <4>2. p = Requester => HasReceiver(p)
        BY <1>0, <3>1, Types DEF HasStream, HasReceiver
      <4>. QED
        BY <1>0, <3>1, <3>5, <4>1, <4>2 DEF SignalsInv, HasReceiver, HasStream
    <3>. QED
      BY <3>2, <3>3, <3>4, <3>5
  <2>2. CASE a = q
    <3>1. Uses(q) /\ SameSubscriber(p) /\ assembled' = assembled
      BY <1>0, <1>4, <2>2, CallsUse DEF Leaves, Only
    <3>2. /\ SameState(p) /\ connected'[p] = connected[p] /\ (outboundDone[q] => outboundDone'[q])
          /\ phase[q] \in {"handler", "ready"}
          /\ deferredError => deferredError'
      <4>1. deferredError => deferredError'
        BY <1>0, <1>4, Types DEF Leaves, SameDeferred
      <4>. QED
        BY <1>0, <3>1, <4>1 DEF Uses, Only, Progresses, HasStream
    <3>3. pipe'[p] = After(pipe[p], frames)
      BY <1>0, <1>4, <2>2 DEF Leaves, Sends
    <3>4. outboundDone[q] => \A f \in Range(frames) : ~Speaks(p, f)
      <4>a. PICK f : f = CancelFrame
        OBVIOUS
      <4>b. PICK g : g = ErrorFrame
        OBVIOUS
      <4>1. f.type = "CANCEL" /\ g.type = "ERROR" /\ Range(<<f>>) = {f} /\ Range(<<g>>) = {g}
        BY <4>a, <4>b, SingleFacts DEF CancelFrame, ErrorFrame
      <4>2. ~Speaks(p, f) /\ (p = Responder => ~Speaks(p, g))
        BY <4>1, Ends DEF Speaks
      <4>3. outboundDone[q] => frames = <<>> \/ frames = <<f>> \/ (frames = <<g>> /\ p = Responder)
        BY <1>0, <1>4, <2>2, <4>a, <4>b, Ends DEF Leaves
      <4>. QED
        BY <1>a, <4>1, <4>2, <4>3, SingleFacts
    <3>. QED
      BY <1>0, <2>0, <3>1, <3>2, <3>3, <3>4, SignalsSent DEF q, Sendable
  <2>. QED
    BY <1>0, <2>1, <2>2
<1>5. ASSUME Receives(q), SameSubscriber(p), SameDeferred
      PROVE  SignalsInv(p)'
  BY <1>0, <1>5, <1>d DEF Receives, Only, Progresses, SameDeferred
<1>6. ASSUME Drops(p) \/ TakesFragment(p) \/ TakesDemand(p) \/ (p = Requester /\ TakesCancel)
      PROVE  SignalsInv(p)'
  <2>1. Receives(p)
    BY <1>6, FramesReceived, Zenon
  <2>2. SameSubscriber(p) /\ SameDeferred /\ inboundDone'[p] = inboundDone[p]
    BY <1>6 DEF Drops, TakesFragment, TakesDemand, TakesCancel, SameState
  <2>. QED
    BY <1>0, <1>c, <2>1, <2>2 DEF Receives, Only, Progresses, SameDeferred, SameState
<1>7. ASSUME TakesPayload(p)
      PROVE  SignalsInv(p)'
  <2>1. Receives(p)
    BY <1>7, FramesReceived, Zenon
  <2>2. /\ pipe[p] # <<>> /\ pipe'[p] = Tail(pipe[p]) /\ connected' = connected /\ phase'[p] = phase[p]
        /\ outboundDone'[q] = outboundDone[q]
    BY <1>0, <2>1 DEF Receives, Only, SameState
  <2>3. PICK h \in Frames : h = Head(pipe[p]) /\ h \in Range(pipe[p])
    BY <1>b, <2>2
  <2>4. /\ SameDeferred /\ registered[p] /\ phase[p] = "ready" /\ h.type = "PAYLOAD" /\ ~h.follows
        /\ inboundDone'[p] = (inboundDone[p] \/ h.complete) /\ cancelled'[p] = cancelled[p]
        /\ Signalled(p, SignalsOf(h))
    BY <1>7, <2>3 DEF TakesPayload, HasReceiver
  <2>5. h.next \in BOOLEAN /\ h.complete \in BOOLEAN
    BY <2>3, <2>4 DEF Frames
  <2>6. /\ SignalsOf(h) \in Seq(Signals) /\ Given(SignalsOf(h))
        /\ (Told(SignalsOf(h)) <=> h.complete)
    BY <2>5, SignalsType, GivenSignals
  <2>7. connected[p] /\ ~BothDone(p)
    BY <2>2, <2>4, Arriving
  <2>8. ~Told(signals[p])
    BY <1>0, <2>3, <2>4, <2>7 DEF SignalsInv, Speaks
  <2>9. h.complete => outboundDone[q] /\ \A f \in Range(Tail(pipe[p])) : ~Speaks(p, f)
    <3>1. h.complete => Stops(p, h) /\ EndsInbound(h)
      BY <2>4 DEF Stops, EndsInbound
    <3>. QED
      BY <1>0, <1>b, <2>2, <2>3, <2>4, <3>1 DEF EndsInv, q
  <2>10. inboundDone'[p] /\ ~cancelled'[p] =>
           h.complete \/ (p = Responder /\ deferredError' /\ (phase'[p] = "handler" \/ assembled'))
    BY <1>0, <2>2, <2>4, <2>8 DEF SignalsInv, SameDeferred
  <2>. QED
    BY <1>0, <1>a, <1>b, <2>2, <2>4, <2>6, <2>8, <2>9, <2>10, SignalsTold DEF q
<1>8. ASSUME TakesEnd(p)
      PROVE  SignalsInv(p)'
  <2>1. Receives(p)
    BY <1>8, FramesReceived, Zenon
  <2>2. /\ pipe[p] # <<>> /\ pipe'[p] = Tail(pipe[p]) /\ connected' = connected /\ phase'[p] = phase[p]
        /\ outboundDone'[q] = outboundDone[q] /\ phase[p] # "handler"
    BY <1>0, <2>1 DEF Receives, Only, SameState
  <2>3. /\ SameDeferred /\ registered[p] /\ inboundDone'[p] /\ outboundDone'[p] /\ cancelled'[p] = cancelled[p]
        /\ Head(pipe[p]).type = "ERROR" \/ (p = Responder /\ Head(pipe[p]).type = "CANCEL")
        /\ Signalled(p, IF p = Requester \/ (HasReceiver(p) /\ ~inboundDone[p]) THEN <<"error">> ELSE <<>>)
    BY <1>8 DEF TakesEnd, IsEnded
  <2>4. CASE p = Requester \/ (HasReceiver(p) /\ ~inboundDone[p])
    <3>1. Signalled(p, <<"error">>)
      BY <2>3, <2>4, Zenon
    <3>2. connected[p] /\ ~BothDone(p)
      BY <2>2, <2>3, Arriving
    <3>3. ~Told(signals[p])
      BY <1>0, <1>b, <2>2, <2>3, <2>4, <3>2 DEF SignalsInv, Speaks
    <3>4. Given(<<"error">>) /\ Told(<<"error">>) /\ <<"error">> \in Seq(Signals)
      BY GivenSignals, SignalsType
    <3>. QED
      BY <1>0, <1>a, <1>b, <2>2, <2>3, <3>1, <3>3, <3>4, SignalsTold DEF q
  <2>5. CASE ~(p = Requester \/ (HasReceiver(p) /\ ~inboundDone[p]))
    <3>1. Signalled(p, <<>>)
      BY <2>3, <2>5, Zenon
    <3>2. signals'[p] = signals[p]
      BY <1>a, <3>1, AppendFacts DEF Signalled
    <3>3. phase'[p] = "ready" => inboundDone[p]
      BY <2>2, <2>5 DEF HasReceiver
    <3>. QED
      BY <1>0, <1>b, <2>2, <2>3, <3>2, <3>3, SignalsQuiet DEF q, SignalsInv, SameDeferred
  <2>. QED
    BY <2>4, <2>5
<1>9. ASSUME NEW a \in Peers, Closes(a)
      PROVE  SignalsInv(p)'
  <2>1. CASE a = q
    BY <1>0, <1>9, <1>d, <2>1 DEF Closes, IsEnded, Only, SameState, SameDeferred
  <2>2. CASE a = p
    <3>1. /\ SameDeferred /\ phase'[p] = phase[p] /\ phase[p] # "handler" /\ ~connected'[p] /\ connected[p]
          /\ pipe'[p] = <<>> /\ outboundDone'[q] = outboundDone[q] /\ cancelled'[p] = cancelled[p]
      BY <1>0, <1>9, <2>2 DEF Closes, IsEnded, Only, SameState, SameSubscriber
    <3>2. CASE ~registered[p]
      BY <1>0, <1>9, <1>c, <2>2, <3>1, <3>2 DEF Closes, SameState, SameDeferred
    <3>3. CASE registered[p]
      <4>1. /\ inboundDone'[p] /\ outboundDone'[p]
            /\ Signalled(p, IF HasReceiver(p) /\ ~inboundDone[p] THEN <<"error">> ELSE <<>>)
        BY <1>9, <2>2, <3>3 DEF Closes, IsEnded
      <4>2. CASE HasReceiver(p) /\ ~inboundDone[p]
        <5>1. Signalled(p, <<"error">>)
          BY <4>1, <4>2, Zenon
        <5>2. ~Told(signals[p])
          BY <1>0, <4>2 DEF SignalsInv
        <5>3. Given(<<"error">>) /\ Told(<<"error">>) /\ <<"error">> \in Seq(Signals)
          BY GivenSignals, SignalsType
        <5>. QED
          BY <1>0, <1>a, <3>1, <4>1, <5>1, <5>2, <5>3, SignalsTold DEF q
      <4>3. CASE ~(HasReceiver(p) /\ ~inboundDone[p])
        <5>1. Signalled(p, <<>>)
          BY <4>1, <4>3, Zenon
        <5>2. signals'[p] = signals[p]
          BY <1>a, <5>1, AppendFacts DEF Signalled
        <5>3. phase'[p] = "ready" => inboundDone[p]
          BY <3>1, <4>3 DEF HasReceiver
        <5>. QED
          BY <1>0, <1>a, <3>1, <4>1, <5>2, <5>3, SignalsQuiet DEF q, SignalsInv, SameDeferred
      <4>. QED
        BY <4>2, <4>3
    <3>. QED
      BY <3>2, <3>3
  <2>. QED
    BY <1>0, <2>1, <2>2
<1>10. ASSUME NEW n \in Nat, NEW complete \in BOOLEAN, CallsHandler(n, complete)
       PROVE  SignalsInv(p)'
  <2>1. PICK h : h = Head(pipe[Responder])
    OBVIOUS
  <2>2. /\ pipe[Responder] # <<>> /\ Only(Responder) /\ connected' = connected /\ SameDeferred
        /\ h.type \in {"REQUEST_CHANNEL", "PAYLOAD"}
        /\ h.type = "REQUEST_CHANNEL" \/ phase[Responder] = "assembling"
        /\ complete => h.complete
        /\ inboundDone'[Responder] = complete /\ outboundDone'[Responder] = outboundDone[Responder]
        /\ Signalled(Responder, IF complete THEN <<"complete">> ELSE <<>>)
    BY <1>0, <1>10, <2>1 DEF CallsHandler, TakesFrame, Takes, PhaseInv
  <2>3. ~inboundDone[Responder] /\ ~outboundDone[Responder] /\ phase[Requester] = "ready"
        /\ phase[Responder] \in {"none", "assembling"}
    BY <2>1, <2>2, RequestArrives
  <2>4. /\ pipe'[Responder] = Tail(pipe[Responder]) /\ pipe'[Requester] = pipe[Requester]
    BY <1>0, <1>10, AfterNothing DEF CallsHandler, TakesFrame, Takes
  <2>5. CASE p = Responder
    <3>1. PICK s \in Seq(Signals) : s = (IF complete THEN <<"complete">> ELSE <<>>) /\ Given(s) /\ (Told(s) <=> complete)
      <4>1. /\ Given(<<"complete">>) /\ Told(<<"complete">>) /\ Given(<<>>) /\ ~Told(<<>>)
            /\ <<"complete">> \in Seq(Signals) /\ <<>> \in Seq(Signals)
        BY GivenSignals, SignalsType
      <4>. QED
        BY <4>1, Zenon
    <3>2. ~Told(signals[p]) /\ Signalled(p, s)
      BY <1>0, <2>2, <2>3, <2>5, <3>1, GivenSignals DEF DeferredInv
    <3>3. complete => outboundDone[q] /\ \A f \in Range(Tail(pipe[p])) : ~Speaks(p, f)
      <4>1. complete => Stops(p, h) /\ EndsInbound(h)
        BY <2>2 DEF Stops, EndsInbound
      <4>2. h \in Range(pipe[p]) /\ pipe[p] # <<>>
        BY <1>b, <2>1, <2>2, <2>5
      <4>. QED
        BY <1>0, <1>b, <2>1, <2>2, <2>3, <2>5, <4>1, <4>2 DEF EndsInv, q
    <3>4. outboundDone'[q] = outboundDone[q] /\ Ordered(p, pipe'[p]) /\ pipe'[p] = Tail(pipe[p]) /\ inboundDone'[p] = complete
      BY <1>0, <1>b, <2>2, <2>4, <2>5 DEF Only, SameState
    <3>. QED
      BY <1>0, <1>a, <3>1, <3>2, <3>3, <3>4, SignalsTold DEF q
  <2>6. CASE p = Requester
    BY <1>0, <1>d, <2>2, <2>3, <2>4, <2>6 DEF Only, SameState
  <2>. QED
    BY <2>5, <2>6, Ends
<1>11. ASSUME TakesFirstFragment
       PROVE  SignalsInv(p)'
  <2>1. /\ pipe[Responder] # <<>> /\ Only(Responder) /\ connected' = connected /\ SameSubscriber(Responder)
        /\ Head(pipe[Responder]).type = "REQUEST_CHANNEL" /\ phase'[Responder] = "assembling"
        /\ inboundDone'[Responder] = inboundDone[Responder] /\ outboundDone'[Responder] = outboundDone[Responder]
    BY <1>11 DEF TakesFirstFragment, TakesFrame, Takes
  <2>2. /\ pipe'[Responder] = Tail(pipe[Responder]) /\ pipe'[Requester] = pipe[Requester]
    BY <1>0, <1>11, AfterNothing DEF TakesFirstFragment, TakesFrame, Takes
  <2>3. CASE p = Responder
    BY <1>0, <1>b, <2>1, <2>2, <2>3, SignalsQuiet DEF q, Only, SameState, SameSubscriber
  <2>4. CASE p = Requester
    BY <1>0, <1>d, <2>1, <2>2, <2>4 DEF Only, SameState
  <2>. QED
    BY <2>3, <2>4, Ends
<1>12. ASSUME Rejects
       PROVE  SignalsInv(p)'
  <2>1. /\ pipe[Responder] # <<>> /\ Only(Responder) /\ connected' = connected /\ SameSubscriber(Responder)
        /\ SameDeferred
        /\ Head(pipe[Responder]).type = "REQUEST_CHANNEL" /\ phase'[Responder] = "rejected"
        /\ inboundDone'[Responder] = inboundDone[Responder] /\ outboundDone'[Responder] = outboundDone[Responder]
        /\ pipe'[Responder] = Tail(pipe[Responder]) /\ pipe'[Requester] = After(pipe[Requester], <<ErrorFrame>>)
    BY <1>12 DEF Rejects, Takes
  <2>2. phase[Responder] = "none" /\ ~outboundDone[Responder]
    BY <2>1, RequestArrives
  <2>3. CASE p = Responder
    BY <1>0, <1>b, <2>1, <2>3, SignalsQuiet DEF q, Only, SameState, SameSubscriber
  <2>4. CASE p = Requester
    <3>1. <<ErrorFrame>> \in Seq(Frames) /\ Ordered(p, <<ErrorFrame>>)
      BY SingleFrames DEF Sendable
    <3>. QED
      BY <1>0, <2>1, <2>2, <2>4, <3>1, SignalsSent DEF q, Only, SameState
  <2>. QED
    BY <2>3, <2>4, Ends
<1>13. ASSUME Returns
       PROVE  SignalsInv(p)'
  <2>1. /\ Only(Responder) /\ pipe' = pipe /\ connected' = connected /\ SameDeferred
        /\ phase[Responder] = "handler" /\ phase'[Responder] = "ready"
        /\ inboundDone'[Responder] = inboundDone[Responder] /\ outboundDone'[Responder] = outboundDone[Responder]
        /\ cancelled'[Responder] = cancelled[Responder]
        /\ Signalled(Responder, IF outboundDone[Responder] /\ deferredError /\ ~assembled THEN <<"error">> ELSE <<>>)
    BY <1>13 DEF Returns
  <2>2. CASE p = Requester
    BY <1>0, <1>d, <2>1, <2>2 DEF Only, SameDeferred
  <2>3. CASE p = Responder /\ outboundDone[p] /\ deferredError /\ ~assembled
    <3>1. Signalled(p, <<"error">>)
      BY <2>1, <2>3, Zenon
    <3>2. ~Told(signals[p]) /\ inboundDone[p] /\ outboundDone[p]
      BY <1>0, <2>1, <2>3 DEF DeferredInv, BothDone
    <3>3. Given(<<"error">>) /\ Told(<<"error">>) /\ <<"error">> \in Seq(Signals)
      BY GivenSignals, SignalsType
    <3>. QED
      BY <1>0, <1>a, <2>1, <2>3, <3>1, <3>2, <3>3, SignalsTold DEF q
  <2>4. CASE p = Responder /\ ~(outboundDone[p] /\ deferredError /\ ~assembled)
    <3>1. Signalled(p, <<>>)
      BY <2>1, <2>4, Zenon
    <3>2. signals'[p] = signals[p]
      BY <1>a, <3>1, AppendFacts DEF Signalled
    <3>3. inboundDone[p] /\ ~cancelled[p] => Told(signals[p]) \/ (deferredError /\ assembled)
      BY <1>0, <2>1, <2>4 DEF SignalsInv, DeferredInv, BothDone
    <3>. QED
      BY <1>0, <1>a, <2>1, <2>4, <3>2, <3>3, SignalsQuiet DEF q, Only, SameState, SameDeferred
  <2>. QED
    BY <2>2, <2>3, <2>4, Ends
<1>14. ASSUME NEW a \in Peers, Drops(a) \/ TakesFragment(a) \/ TakesPayload(a) \/ TakesDemand(a)
                                \/ TakesEnd(a) \/ (a = Requester /\ TakesCancel)
       PROVE  SignalsInv(p)'
  <2>1. CASE a = p
    BY <1>14, <1>6, <1>7, <1>8, <2>1, Zenon
  <2>2. CASE a = q
    <3>1. Receives(q)
      BY <1>0, <1>14, <2>2, FramesReceived, Zenon
    <3>2. SameSubscriber(p) /\ SameDeferred
      BY <1>0, <1>14, <2>2 DEF Drops, TakesFragment, TakesPayload, TakesDemand, TakesEnd, IsEnded, TakesCancel, TakesFrame, Only
    <3>. QED
      BY <1>5, <3>1, <3>2
  <2>. QED
    BY <1>0, <2>1, <2>2
<1>. QED
  BY <1>1, <1>2, <1>3, <1>4, <1>9, <1>10, <1>11, <1>12, <1>13, <1>14, Zenon DEF Effect
\* What frames weigh.
LEMMA WeightsOfFrames ==
  /\ ItemWeight \in [Frames -> Nat] /\ DemandWeight \in [Frames -> Nat]
  /\ \A f \in Frames : ItemWeight[f] = Item(f) /\ DemandWeight[f] = Demand(f)
  /\ \A f \in Frames : Item(f) \in {0, 1} /\ Demand(f) \in Nat
<1>1. ASSUME NEW f \in Frames
      PROVE  Item(f) \in {0, 1}
  BY DEF Item
<1>2. ASSUME NEW f \in Frames
      PROVE  Demand(f) \in Nat
  <2>1. f.type \in {"REQUEST_CHANNEL", "REQUEST_N"} => f.requestN \in Nat
    BY DEF Frames
  <2>. QED
    BY <2>1 DEF Demand
<1>. QED
  BY <1>1, <1>2 DEF ItemWeight, DemandWeight

\* What is sent adds to the weight of what is on its way, if it arrives.
LEMMA SentWeight ==
  ASSUME NEW w \in [Frames -> Nat], NEW s \in Seq(Frames), NEW t \in Seq(Frames)
  PROVE  /\ IsOpen => Weigh(w, After(s, t)) = Weigh(w, s) + Weigh(w, t)
         /\ ~IsOpen => Weigh(w, After(s, t)) = Weigh(w, s)
         /\ Weigh(w, s) \in Nat /\ Weigh(w, t) \in Nat
<1>1. Weigh(w, s \o t) = Weigh(w, s) + Weigh(w, t)
  BY WeighConcat
<1>. QED
  BY <1>1, WeighType DEF After

\* A frame that is taken takes its weight with it.
LEMMA TakenWeight ==
  ASSUME NEW w \in [Frames -> Nat], NEW s \in Seq(Frames), s # <<>>
  PROVE  /\ Weigh(w, s) = w[Head(s)] + Weigh(w, Tail(s))
         /\ Weigh(w, s) \in Nat /\ Weigh(w, Tail(s)) \in Nat /\ w[Head(s)] \in Nat
<1>1. Weigh(w, s) = w[Head(s)] + Weigh(w, Tail(s))
  BY WeighTail
<1>2. Tail(s) \in Seq(Frames) /\ Head(s) \in Frames
  BY TailFacts
<1>. QED
  BY <1>1, <1>2, WeighType

\* Frames that weigh nothing weigh nothing together.
LEMMA FramesWeighNothing ==
  ASSUME NEW w \in [Frames -> Nat], NEW s \in Seq(Frames), \A f \in Range(s) : w[f] = 0
  PROVE  Weigh(w, s) = 0
<1>1. \A i \in 1 .. Len(s) : s[i] \in Range(s)
  BY LenProperties DEF Range
<1>. QED
  BY <1>1, WeighNothing

\* Frames that say nothing bring no items.
LEMMA SilentWeight ==
  ASSUME NEW p \in Peers, NEW s \in Seq(Frames), \A f \in Range(s) : ~Speaks(p, f)
  PROVE  Weigh(ItemWeight, s) = 0
<1>1. ASSUME NEW f \in Range(s)
      PROVE  ItemWeight[f] = 0
  <2>1. f \in Frames
    BY DEF Range
  <2>2. Item(f) = 0
    BY <1>1 DEF Item, Finishes, Speaks
  <2>. QED
    BY <2>1, <2>2, WeightsOfFrames
<1>. QED
  BY <1>1, WeightsOfFrames, FramesWeighNothing

\* What one more signal adds to the counts.
LEMMA CountsOfSignal ==
  ASSUME NEW s \in Seq(Signals), NEW e \in Signals
  PROVE  /\ Occurrences(s \o <<e>>, "next") = Occurrences(s, "next") + IF e = "next" THEN 1 ELSE 0
         /\ Occurrences(s \o <<e>>, "complete") = Occurrences(s, "complete") + IF e = "complete" THEN 1 ELSE 0
         /\ Occurrences(s, "next") \in Nat /\ Occurrences(s, "complete") \in Nat
<1>1. Occurrences(s \o <<e>>, "next") = Occurrences(s, "next") + IF e = "next" THEN 1 ELSE 0
  BY ONLY OccurrencesAppend
<1>2. Occurrences(s \o <<e>>, "complete") = Occurrences(s, "complete") + IF e = "complete" THEN 1 ELSE 0
  BY ONLY OccurrencesAppend
<1>3. Occurrences(s, "next") \in Nat /\ Occurrences(s, "complete") \in Nat
  BY ONLY OccurrencesType
<1>. QED
  BY ONLY <1>1, <1>2, <1>3

\* What a payload adds to the counts.
LEMMA CountsOfPayload ==
  ASSUME NEW s \in Seq(Signals), NEW frame
  PROVE  /\ Occurrences(s \o SignalsOf(frame), "next")
              = Occurrences(s, "next") + IF frame.next THEN 1 ELSE 0
         /\ Occurrences(s \o SignalsOf(frame), "complete")
              = Occurrences(s, "complete") + IF frame.complete THEN 1 ELSE 0
         /\ Occurrences(s, "next") \in Nat /\ Occurrences(s, "complete") \in Nat
<1>1. /\ "next" \in Signals /\ "complete" \in Signals
      /\ <<"next">> \in Seq(Signals) /\ <<"complete">> \in Seq(Signals) /\ <<>> \in Seq(Signals)
  BY SignalsType DEF Signals
<1>2. PICK a \in Seq(Signals) : a = IF frame.next THEN <<"next">> ELSE <<>>
  BY <1>1, Zenon
<1>3. PICK b \in Seq(Signals) : b = IF frame.complete THEN <<"complete">> ELSE <<>>
  BY <1>1, Zenon
<1>4. PICK r \in Seq(Signals) : r = s \o a
  BY ConcatProperties, Zenon
<1>5. s \o SignalsOf(frame) = r \o b
  <2>1. SignalsOf(frame) = a \o b
    BY <1>2, <1>3 DEF SignalsOf
  <2>2. s \o (a \o b) = (s \o a) \o b
    BY SMTT(40), ConcatAssociative
  <2>. QED
    BY <1>4, <2>1, <2>2
<1>6. PICK x \in Nat, y \in Nat : x = Occurrences(s, "next") /\ y = Occurrences(s, "complete")
  BY OccurrencesType
<1>7. /\ Occurrences(r, "next") = x + IF frame.next THEN 1 ELSE 0
      /\ Occurrences(r, "complete") = y
  <2>1. CASE frame.next
    <3>1. r = s \o <<"next">>
      BY <1>2, <1>4, <2>1
    <3>2. /\ Occurrences(s \o <<"next">>, "next") = x + 1
          /\ Occurrences(s \o <<"next">>, "complete") = y + 0
      BY ONLY <1>1, <1>6, CountsOfSignal
    <3>. QED
      BY <2>1, <3>1, <3>2
  <2>2. CASE ~frame.next
    <3>1. r = s
      BY <1>2, <1>4, <2>2, AppendFacts, ConcatEmptySeq
    <3>. QED
      BY <1>6, <2>2, <3>1
  <2>. QED
    BY <2>1, <2>2
<1>8. PICK u \in Nat : u = Occurrences(r, "next")
  BY OccurrencesType
<1>9. /\ Occurrences(r \o b, "next") = u
      /\ Occurrences(r \o b, "complete") = y + IF frame.complete THEN 1 ELSE 0
  <2>1. CASE frame.complete
    <3>1. r \o b = r \o <<"complete">>
      BY <1>3, <2>1
    <3>2. /\ Occurrences(r \o <<"complete">>, "next") = u + 0
          /\ Occurrences(r \o <<"complete">>, "complete") = y + 1
      BY ONLY <1>1, <1>7, <1>8, CountsOfSignal
    <3>. QED
      BY <2>1, <3>1, <3>2
  <2>2. CASE ~frame.complete
    <3>1. r \o b = r
      BY <1>3, <2>2, ConcatEmptySeq
    <3>. QED
      BY <1>7, <1>8, <2>2, <3>1
  <2>. QED
    BY <2>1, <2>2
<1>. QED
  BY <1>5, <1>6, <1>7, <1>8, <1>9

\* A subscriber that was told of a completion was told that there is no more.
LEMMA CompletionIsTold ==
  ASSUME NEW s \in Seq(Signals), Given(s), ~Told(s)
  PROVE  Occurrences(s, "complete") = 0
<1>1. PICK m \in Nat : m = Len(s)
  BY LenProperties
<1>2. (\A i \in 1 .. m - 1 : s[i] = "next") /\ (m > 0 => s[m] = "next")
  <2>1. m > 0 => s # <<>>
    BY <1>1
  <2>. QED
    BY <1>1, <2>1 DEF Given, Told
<1>3. \A i \in 1 .. Len(s) : s[i] # "complete"
  BY <1>1, <1>2
<1>. QED
  BY <1>3, OccurrencesNone

\* What two frames weigh.
LEMMA PairWeight ==
  ASSUME NEW w \in [Frames -> Nat], NEW a \in Frames, NEW b \in Frames
  PROVE  Weigh(w, <<a>>) = w[a] /\ Weigh(w, <<a, b>>) = w[a] + w[b]
<1>1. Weigh(w, <<a>>) = w[a] /\ Weigh(w, <<b>>) = w[b]
  BY WeighSingle
<1>2. <<a>> \in Seq(Frames) /\ <<b>> \in Seq(Frames)
  OBVIOUS
<1>3. PICK x : x = <<a>>
  OBVIOUS
<1>4. PICK y : y = <<b>>
  OBVIOUS
<1>5. Weigh(w, x \o y) = Weigh(w, x) + Weigh(w, y)
  BY <1>2, <1>3, <1>4, WeighConcat
<1>6. <<a>> \o <<b>> = <<a, b>>
  <2>1. PICK r : r = <<a, b>>
    OBVIOUS
  <2>2. PICK t : t = x \o y
    OBVIOUS
  <2>3. r \in Seq(Frames) /\ Len(r) = 2 /\ r[1] = a /\ r[2] = b
    BY <2>1
  <2>4. t \in Seq(Frames)
    BY <1>2, <1>3, <1>4, <2>2, ConcatProperties
  <2>5. Len(t) = 2 /\ t[1] = a /\ t[2] = b
    BY <1>2, <1>3, <1>4, <2>2, <2>4
  <2>6. \A i \in 1 .. Len(r) : r[i] = t[i]
    BY <2>3, <2>5
  <2>7. r = t
    BY <2>3, <2>4, <2>5, <2>6, SeqEqual
  <2>. QED
    BY <1>3, <1>4, <2>1, <2>2, <2>7
<1>. QED
  BY <1>1, <1>3, <1>4, <1>5, <1>6

\* The items of what is sent.
LEMMA PayloadWeight ==
  ASSUME NEW complete \in BOOLEAN, NEW fragmented \in BOOLEAN
  PROVE  /\ Weigh(ItemWeight, Payload(complete, fragmented)) = 1
         /\ \A n \in Nat \ {0} :
              Weigh(ItemWeight, RequestFrames(n, complete, fragmented)) = IF fragmented THEN 1 ELSE 0
<1>0. ItemWeight \in [Frames -> Nat]
  BY WeightsOfFrames
<1>1. PICK f \in Frames : f = PayloadFrame(TRUE, FALSE, TRUE)
  BY DEF PayloadFrame, Frames
<1>2. PICK g \in Frames : g = PayloadFrame(TRUE, complete, FALSE)
  BY DEF PayloadFrame, Frames
<1>3. ItemWeight[f] = 0 /\ ItemWeight[g] = 1
  <2>1. Item(f) = 0 /\ Item(g) = 1
    BY <1>1, <1>2 DEF Item, Finishes, PayloadFrame
  <2>. QED
    BY <2>1, WeightsOfFrames
<1>4. ASSUME NEW a \in Frames, NEW b \in Frames
      PROVE  /\ Weigh(ItemWeight, <<a>>) = ItemWeight[a]
             /\ Weigh(ItemWeight, <<a, b>>) = ItemWeight[a] + ItemWeight[b]
  BY <1>0, PairWeight
<1>5. Weigh(ItemWeight, Payload(complete, fragmented)) = 1
  <2>1. CASE fragmented
    <3>1. Payload(complete, fragmented) = <<f, g>>
      BY <1>1, <1>2, <2>1, Zenon DEF Payload
    <3>2. Weigh(ItemWeight, <<f, g>>) = ItemWeight[f] + ItemWeight[g]
      BY <1>4
    <3>. QED
      BY <1>3, <3>1, <3>2
  <2>2. CASE ~fragmented
    <3>1. Payload(complete, fragmented) = <<g>>
      BY <1>2, <2>2, Zenon DEF Payload
    <3>. QED
      BY <1>3, <1>4, <3>1
  <2>. QED
    BY <2>1, <2>2
<1>6. ASSUME NEW n \in Nat \ {0}
      PROVE  Weigh(ItemWeight, RequestFrames(n, complete, fragmented)) = IF fragmented THEN 1 ELSE 0
  <2>1. PICK h \in Frames : h = RequestFrame(n, FALSE, TRUE)
    BY DEF RequestFrame, Frames
  <2>2. PICK k \in Frames : k = RequestFrame(n, complete, FALSE)
    BY DEF RequestFrame, Frames
  <2>3. ItemWeight[h] = 0 /\ ItemWeight[k] = 0
    <3>1. Item(h) = 0 /\ Item(k) = 0
      BY <2>1, <2>2 DEF Item, Finishes, RequestFrame
    <3>. QED
      BY <3>1, WeightsOfFrames
  <2>4. CASE fragmented
    <3>1. RequestFrames(n, complete, fragmented) = <<h, g>>
      BY <1>2, <2>1, <2>4, Zenon DEF RequestFrames
    <3>2. Weigh(ItemWeight, <<h, g>>) = ItemWeight[h] + ItemWeight[g]
      BY <1>4
    <3>3. ItemWeight[h] + ItemWeight[g] = 1
      BY <1>3, <2>3
    <3>4. Weigh(ItemWeight, RequestFrames(n, complete, fragmented)) = 1
      BY ONLY <3>1, <3>2, <3>3, Zenon
    <3>. QED
      BY <2>4, <3>4
  <2>5. CASE ~fragmented
    <3>1. RequestFrames(n, complete, fragmented) = <<k>>
      BY <2>2, <2>5, Zenon DEF RequestFrames
    <3>. QED
      BY <1>4, <2>3, <2>5, <3>1
  <2>. QED
    BY <2>4, <2>5
<1>. QED
  BY <1>5, <1>6

\* What is sent alone brings no items.
LEMMA FrameWeight ==
  /\ \A n \in Nat \ {0} : Weigh(ItemWeight, <<RequestNFrame(n)>>) = 0
  /\ Weigh(ItemWeight, <<PayloadFrame(FALSE, TRUE, FALSE)>>) = 0
  /\ Weigh(ItemWeight, <<CancelFrame>>) = 0 /\ Weigh(ItemWeight, <<ErrorFrame>>) = 0
  /\ Weigh(ItemWeight, <<>>) = 0
<1>1. ASSUME NEW f \in Frames, ~Finishes(f)
      PROVE  Weigh(ItemWeight, <<f>>) = 0
  <2>1. Item(f) = 0
    BY <1>1 DEF Item
  <2>. QED
    BY <2>1, WeightsOfFrames, WeighSingle
<1>2. ASSUME NEW n \in Nat \ {0}
      PROVE  RequestNFrame(n) \in Frames /\ ~Finishes(RequestNFrame(n))
  BY DEF RequestNFrame, Frames, Finishes
<1>3. PayloadFrame(FALSE, TRUE, FALSE) \in Frames /\ ~Finishes(PayloadFrame(FALSE, TRUE, FALSE))
  BY DEF PayloadFrame, Frames, Finishes
<1>4. CancelFrame \in Frames /\ ~Finishes(CancelFrame) /\ ErrorFrame \in Frames /\ ~Finishes(ErrorFrame)
  BY DEF CancelFrame, ErrorFrame, Frames, Finishes
<1>5. Weigh(ItemWeight, <<>>) = 0
  BY WeighEmpty
<1>. QED
  BY <1>1, <1>2, <1>3, <1>4, <1>5
\* Neither an error nor nothing changes the counts of a subscriber.
LEMMA CountsOfError ==
  ASSUME NEW s \in Seq(Signals), NEW e, e \in {<<>>, <<"error">>}
  PROVE  /\ Occurrences(s \o e, "next") = Occurrences(s, "next")
         /\ Occurrences(s \o e, "complete") = Occurrences(s, "complete")
<1>1. "error" \in Signals
  BY DEF Signals
<1>2. PICK x \in Nat, y \in Nat : x = Occurrences(s, "next") /\ y = Occurrences(s, "complete")
  BY OccurrencesType
<1>3. /\ Occurrences(s \o <<"error">>, "next") = x + 0
      /\ Occurrences(s \o <<"error">>, "complete") = y + 0
  BY ONLY <1>1, <1>2, CountsOfSignal
<1>4. s \o <<>> = s
  BY ConcatEmptySeq
<1>5. CASE e = <<>>
  BY <1>4, <1>5
<1>6. CASE e = <<"error">>
  <2>1. x + 0 = x /\ y + 0 = y
    OBVIOUS
  <2>. QED
    BY <1>2, <1>3, <1>6, <2>1, Zenon
<1>. QED
  BY <1>5, <1>6, Zenon

\* Nothing is given to p's subscriber that is counted, and what is on its way
\* weighs what it did.
LEMMA ItemsQuiet ==
  ASSUME Typed, Typed', NEW p \in Peers, ItemsInv(p), NEW q \in Peers, q = Other(p),
         Occurrences(signals'[p], "next") = Occurrences(signals[p], "next"),
         Occurrences(signals'[p], "complete") = Occurrences(signals[p], "complete"),
         published'[q] = published[q], outboundDone[q] => outboundDone'[q],
         connected'[p] /\ ~(inboundDone'[p] /\ outboundDone'[p]) /\ phase'[p] # "rejected" =>
           /\ connected[p] /\ ~BothDone(p) /\ phase[p] # "rejected"
           /\ Weigh(ItemWeight, pipe'[p]) + Extra(p) = Weigh(ItemWeight, pipe[p]) + Extra(p)'
  PROVE  ItemsInv(p)'
<1>1. PICK a \in Nat, b \in Nat : a = Occurrences(signals[p], "next") /\ b = Occurrences(signals[p], "complete")
  BY OccurrencesType, Types
<1>2. PICK w \in Nat : w = Weigh(ItemWeight, pipe[p])
  BY Types, WeighType, WeightsOfFrames
<1>3. PICK v \in Nat : v = Weigh(ItemWeight, pipe'[p])
  <2>1. pipe'[p] \in Seq(Frames)
    BY DEF Typed, TypeOK
  <2>. QED
    BY <2>1, WeighType, WeightsOfFrames
<1>4. PICK x \in Nat : x = Extra(p)
  BY DEF Extra
<1>5. PICK y \in Nat : y = Extra(p)'
  BY DEF Extra
<1>6. PICK n \in Nat : n = published[q]
  BY Types
<1>7. /\ connected[p] /\ ~BothDone(p) /\ phase[p] # "rejected" => a + w = n + x
      /\ b > 0 => a = n /\ outboundDone[q]
  BY <1>1, <1>2, <1>4, <1>6, Zenon DEF ItemsInv, Count
<1>8. PICK live \in BOOLEAN : live <=> connected'[p] /\ ~(inboundDone'[p] /\ outboundDone'[p]) /\ phase'[p] # "rejected"
  OBVIOUS
<1>9. live => a + w = n + x /\ v + x = w + y
  BY <1>2, <1>3, <1>4, <1>5, <1>7, <1>8, Zenon
<1>10. live => a + v = n + y
  BY ONLY <1>9, a \in Nat, w \in Nat, n \in Nat, x \in Nat, v \in Nat, y \in Nat
<1>11. /\ Occurrences(signals'[p], "next") = a /\ Occurrences(signals'[p], "complete") = b
       /\ published'[q] = n
  BY <1>1, <1>6
<1>12. b > 0 => a = n /\ outboundDone'[q]
  BY <1>7
<1>. QED
  BY <1>3, <1>5, <1>8, <1>10, <1>11, <1>12, Zenon DEF ItemsInv, Count, BothDone

\* The request is at the front while frames are sent after it.
LEMMA ExtraSent ==
  ASSUME IInv, NEW p \in Peers, NEW t \in Seq(Frames), pipe'[p] = After(pipe[p], t), phase'[p] = phase[p],
         p = Responder => phase[Requester] = "ready"
  PROVE  Extra(p)' = Extra(p)
<1>1. PICK s \in Seq(Frames) : s = pipe[p]
  BY Types DEF IInv
<1>2. PICK r : r = After(s, t)
  OBVIOUS
<1>3. CASE p = Responder /\ phase[p] = "none" /\ IsOpen
  <2>1. s # <<>>
    BY <1>1, <1>3 DEF IInv, RequestInv
  <2>2. r # <<>> /\ Head(r) = Head(s)
    BY <1>2, <1>3, <2>1, AppendFacts DEF After
  <2>. QED
    BY <1>1, <1>2, <2>1, <2>2 DEF Extra
<1>4. CASE ~IsOpen
  <2>1. r = s
    BY <1>2, <1>4 DEF After
  <2>. QED
    BY <1>1, <1>2, <2>1 DEF Extra
<1>5. CASE p # Responder \/ phase[p] # "none"
  BY <1>5 DEF Extra
<1>. QED
  BY <1>3, <1>4, <1>5

\* Frames without items are sent to p.
LEMMA ItemsSent ==
  ASSUME IInv, Typed', NEW p \in Peers, NEW q \in Peers, q = Other(p), NEW t \in Seq(Frames),
         Weigh(ItemWeight, t) = 0, pipe'[p] = After(pipe[p], t), SameState(p),
         connected'[p] = connected[p], signals'[p] = signals[p], published'[q] = published[q],
         outboundDone[q] => outboundDone'[q], p = Responder => phase[Requester] = "ready"
  PROVE  ItemsInv(p)'
<1>1. Extra(p)' = Extra(p)
  BY ExtraSent DEF SameState
<1>2. PICK s \in Seq(Frames) : s = pipe[p]
  BY Types DEF IInv
<1>3. Weigh(ItemWeight, After(s, t)) = Weigh(ItemWeight, s)
  <2>1. PICK n \in Nat : n = Weigh(ItemWeight, s)
    BY WeighType, WeightsOfFrames
  <2>2. IsOpen => Weigh(ItemWeight, After(s, t)) = n + 0
    BY <2>1, SentWeight, WeightsOfFrames, Zenon
  <2>3. ~IsOpen => Weigh(ItemWeight, After(s, t)) = n
    BY <2>1, SentWeight, WeightsOfFrames, Zenon
  <2>. QED
    BY <2>1, <2>2, <2>3
<1>4. Weigh(ItemWeight, pipe'[p]) = Weigh(ItemWeight, pipe[p])
  BY <1>2, <1>3
<1>. QED
  BY <1>1, <1>4, ItemsQuiet DEF IInv, SameState, BothDone

\* p's end and what is on its way to it are as they were.
LEMMA SameItems ==
  ASSUME Typed, Typed', NEW p \in Peers, ItemsInv(p), NEW q \in Peers, q = Other(p), pipe'[p] = pipe[p],
         \/ phase'[p] = phase[p]
         \/ p = Requester /\ phase[p] # "rejected"
         \/ phase[p] = "handler" /\ phase'[p] = "ready",
         BothDone(p) => inboundDone'[p] /\ outboundDone'[p],
         connected'[p] => connected[p],
         signals'[p] = signals[p] \/ Signalled(p, <<>>) \/ Signalled(p, <<"error">>),
         published'[q] = published[q], outboundDone[q] => outboundDone'[q]
  PROVE  ItemsInv(p)'
<1>1. Extra(p)' = Extra(p)
  BY Ends DEF Extra
<1>2. signals[p] \in Seq(Signals)
  BY Types
<1>3. /\ Occurrences(signals'[p], "next") = Occurrences(signals[p], "next")
      /\ Occurrences(signals'[p], "complete") = Occurrences(signals[p], "complete")
  BY <1>2, CountsOfError, Zenon DEF Signalled
<1>. QED
  BY <1>1, <1>3, ItemsQuiet DEF BothDone

\* p takes a frame that is no item.
LEMMA ItemsTaken ==
  ASSUME Typed, Typed', NEW p \in Peers, ItemsInv(p), NEW q \in Peers, q = Other(p),
         pipe[p] # <<>>, pipe'[p] = Tail(pipe[p]), ~Finishes(Head(pipe[p])), Extra(p)' = Extra(p),
         BothDone(p) => inboundDone'[p] /\ outboundDone'[p], connected'[p] => connected[p],
         phase[p] # "rejected",
         signals'[p] = signals[p], published'[q] = published[q], outboundDone[q] => outboundDone'[q]
  PROVE  ItemsInv(p)'
<1>1. PICK s \in Seq(Frames) : s = pipe[p]
  BY Types
<1>2. Head(s) \in Frames
  BY <1>1, TailFacts
<1>3. ItemWeight[Head(s)] = 0
  BY <1>1, <1>2, WeightsOfFrames DEF Item
<1>4. Weigh(ItemWeight, Tail(s)) = Weigh(ItemWeight, s)
  <2>1. PICK n \in Nat : n = Weigh(ItemWeight, Tail(s))
    BY <1>1, TailFacts, WeighType, WeightsOfFrames
  <2>2. Weigh(ItemWeight, s) = 0 + n
    BY <1>1, <1>3, <2>1, TakenWeight, WeightsOfFrames, Zenon
  <2>. QED
    BY <2>1, <2>2
<1>5. Weigh(ItemWeight, pipe'[p]) = Weigh(ItemWeight, pipe[p])
  BY <1>1, <1>4
<1>. QED
  BY <1>5, ItemsQuiet DEF BothDone
\* Items arrive, and a completion arrives after them.
LEMMA ItemsStep ==
  ASSUME IInv, Typed', Effect, NEW p \in Peers
  PROVE  ItemsInv(p)'
<1>. DEFINE q == Other(p)
<1>. USE BothEnds
<1>0. /\ Typed /\ ItemsInv(p) /\ SignalsInv(p) /\ EndsInv(p) /\ PhaseInv /\ RequestInv /\ DeferredInv
      /\ q \in Peers /\ p # q /\ Peers = {p, q} /\ Other(q) = p
      /\ (p = Responder <=> q = Requester) /\ (p = Requester <=> q = Responder)
      /\ phase[Requester] \in {"new", "ready", "rejected"}
  BY Ends, Types DEF IInv
<1>a. /\ pipe[p] \in Seq(Frames) /\ Ordered(p, pipe[p]) /\ signals[p] \in Seq(Signals)
      /\ After(pipe[p], <<>>) = pipe[p] /\ ItemWeight \in [Frames -> Nat]
  BY <1>0, Types, AfterNothing, WeightsOfFrames DEF SignalsInv
<1>. HIDE DEF q
<1>b. ASSUME pipe[p] # <<>>
      PROVE  /\ Stops(p, Head(pipe[p])) => Weigh(ItemWeight, Tail(pipe[p])) = 0
             /\ Head(pipe[p]) \in Range(pipe[p]) /\ Head(pipe[p]) \in Frames
  <2>1. Stops(p, Head(pipe[p])) => \A f \in Range(Tail(pipe[p])) : ~Speaks(p, f)
    BY <1>a, <1>b, OrderedTail
  <2>2. Tail(pipe[p]) \in Seq(Frames) /\ Head(pipe[p]) \in Range(pipe[p]) /\ Head(pipe[p]) \in Frames
    BY <1>a, <1>b, TailFacts
  <2>. QED
    BY <2>1, <2>2, SilentWeight
<1>c. ASSUME SameState(p), SameSubscriber(p), pipe'[p] = pipe[p], connected'[p] = connected[p],
             published'[q] = published[q], outboundDone[q] => outboundDone'[q]
      PROVE  ItemsInv(p)'
  BY <1>0, <1>c, SameItems DEF q, SameState, SameSubscriber, BothDone
<1>1. ASSUME CompletesEarly \/ GivesUp \/ \E n \in Nat : WaitsForMore(n)
      PROVE  ItemsInv(p)'
  <2>1. /\ Only(Requester) /\ pipe' = pipe /\ connected' = connected /\ phase[Requester] = "new"
        /\ inboundDone[Requester] => inboundDone'[Requester]
        /\ outboundDone[Requester] => outboundDone'[Requester]
        /\ published'[Requester] = published[Requester]
        /\ signals'[Requester] = signals[Requester] \/ Signalled(Requester, <<"error">>)
    BY <1>0, <1>1 DEF CompletesEarly, GivesUp, WaitsForMore, Waits, SameState, SameSubscriber
  <2>2. CASE p = Responder
    BY <1>0, <1>c, <2>1, <2>2 DEF Only
  <2>3. CASE p = Requester
    BY <1>0, <2>1, <2>3, SameItems DEF q, Only, SameState, SamePublisher, BothDone
  <2>. QED
    BY <2>2, <2>3, Ends
<1>2. ASSUME NEW fragmented \in BOOLEAN, Asks(fragmented)
      PROVE  ItemsInv(p)'
  <2>1. /\ phase[Requester] = "new" /\ phase'[Requester] = "ready" /\ Only(Requester) /\ connected' = connected
        /\ ~inboundDone[Requester] /\ ~outboundDone[Requester]
        /\ inboundDone'[Requester] = inboundDone[Requester]
        /\ SameSubscriber(Requester) /\ SamePublisher(Requester)
    BY <1>0, <1>2 DEF Asks, PhaseInv
  <2>2. CASE p = Requester
    <3>1. pipe'[p] = pipe[p]
      BY <1>2, <2>2 DEF Asks, Sends
    <3>. QED
      BY <1>0, <2>1, <2>2, <3>1, SameItems DEF q, Only, SameState, SameSubscriber, SamePublisher, BothDone
  <2>3. CASE p = Responder
    <3>1. PICK n \in Nat \ {0}, complete \in BOOLEAN : n = initialRequestN[Requester] /\ complete = isComplete[Requester]
      BY SMTT(40), <1>0, Types DEF PhaseInv
    <3>2. PICK t \in Seq(Frames) : t = RequestFrames(n, complete, fragmented)
      BY RequestFacts, Zenon
    <3>3. pipe'[p] = After(pipe[p], t)
      BY <1>2, <2>3, <3>1, <3>2 DEF Asks, Sends
    <3>4. SameState(p) /\ SameSubscriber(p) /\ connected'[p] = connected[p]
      BY <1>0, <2>1, <2>3 DEF Only
    <3>5. pipe[p] = <<>> /\ phase[p] = "none"
      BY <1>0, <2>1, <2>3 DEF PhaseInv
    <3>6. t # <<>> /\ (Follows(Head(t)) <=> fragmented)
      <4>1. PICK f : f = RequestFrame(n, FALSE, TRUE)
        OBVIOUS
      <4>2. PICK g : g = RequestFrame(n, complete, FALSE)
        OBVIOUS
      <4>3. Follows(f) /\ ~Follows(g)
        BY <4>1, <4>2 DEF Follows, RequestFrame
      <4>4. CASE fragmented
        <5>1. PICK g2 : t = <<f, g2>>
          BY <3>2, <4>1, <4>4, Zenon DEF RequestFrames
        <5>. QED
          BY <4>3, <4>4, <5>1
      <4>5. CASE ~fragmented
        <5>1. t = <<g>>
          BY <3>2, <4>2, <4>5, Zenon DEF RequestFrames
        <5>. QED
          BY <4>3, <4>5, <5>1
      <4>. QED
        BY <4>4, <4>5
    <3>7. Weigh(ItemWeight, t) = IF fragmented THEN 1 ELSE 0
      BY <3>2, PayloadWeight, Zenon
    <3>8. pipe'[p] = t \/ pipe'[p] = pipe[p]
      BY <1>a, <3>2, <3>3, <3>5, AppendFacts DEF After
    <3>9. CASE pipe'[p] = pipe[p]
      BY <1>c, <2>1, <2>3, <3>4, <3>9, <1>0 DEF SamePublisher
    <3>10. CASE pipe'[p] = t
      <4>1. Extra(p) = 0 /\ Weigh(ItemWeight, pipe[p]) = 0
        BY <2>3, <3>5, FrameWeight DEF Extra
      <4>2. Extra(p)' = IF fragmented THEN 1 ELSE 0
        BY <2>3, <3>4, <3>5, <3>6, <3>10 DEF Extra, SameState
      <4>3. Weigh(ItemWeight, pipe'[p]) + Extra(p) = Weigh(ItemWeight, pipe[p]) + Extra(p)'
        BY <3>7, <3>10, <4>1, <4>2
      <4>. QED
        BY <1>0, <2>1, <2>3, <3>4, <4>3, ItemsQuiet DEF q, SameState, SameSubscriber, SamePublisher, BothDone
    <3>. QED
      BY <3>8, <3>9, <3>10
  <2>. QED
    BY <2>2, <2>3, Ends
<1>d. ASSUME Uses(q), SameSubscriber(p), published'[q] = published[q], NEW t \in Seq(Frames),
             Weigh(ItemWeight, t) = 0, pipe'[p] = After(pipe[p], t)
      PROVE  ItemsInv(p)'
  <2>1. SameState(p) /\ connected'[p] = connected[p] /\ (outboundDone[q] => outboundDone'[q])
    BY <1>0, <1>d DEF Uses, Only, Progresses
  <2>2. p = Responder => phase[Requester] = "ready"
    BY <1>0, <1>d DEF Uses, HasStream
  <2>. QED
    BY <1>0, <1>d, <2>1, <2>2, ItemsSent DEF q, SameSubscriber
<1>e. ASSUME Uses(p), signals'[p] = signals[p] \/ Signalled(p, <<>>) \/ Signalled(p, <<"error">>),
             phase'[p] = phase[p] \/ phase'[p] = "failed"
      PROVE  ItemsInv(p)'
  <2>1. /\ published'[q] = published[q] /\ pipe'[p] = pipe[p] /\ connected' = connected
        /\ BothDone(p) => inboundDone'[p] /\ outboundDone'[p]
        /\ outboundDone'[q] = outboundDone[q]
        /\ phase'[p] = "failed" /\ phase'[p] # phase[p] => inboundDone'[p] /\ outboundDone'[p]
    BY <1>0, <1>e DEF Uses, Only, SameState, SamePublisher, Progresses, BothDone
  <2>2. CASE phase'[p] = phase[p]
    BY <1>0, <1>e, <2>1, <2>2, SameItems DEF q
  <2>3. CASE phase'[p] # phase[p]
    <3>1. inboundDone'[p] /\ outboundDone'[p]
      BY <1>e, <2>1, <2>3
    <3>2. /\ Occurrences(signals'[p], "next") = Occurrences(signals[p], "next")
          /\ Occurrences(signals'[p], "complete") = Occurrences(signals[p], "complete")
      BY <1>a, <1>e, CountsOfError, Zenon DEF Signalled
    <3>. QED
      BY <1>0, <2>1, <3>1, <3>2, ItemsQuiet DEF q
  <2>. QED
    BY <2>2, <2>3
<1>3. ASSUME NEW a \in Peers, NEW n \in Nat \ {0}, AsksMore(a, n)
      PROVE  ItemsInv(p)'
  <2>1. Uses(a)
    BY <1>0, <1>3, CallsUse
  <2>2. CASE a = p
    BY <1>3, <1>e, <2>1, <2>2 DEF AsksMore, SameState
  <2>3. CASE a = q
    <3>1. PICK t \in Seq(Frames) : t = <<RequestNFrame(n)>> /\ Weigh(ItemWeight, t) = 0
      BY FramesType, FrameWeight
    <3>. QED
      BY <1>0, <1>3, <1>d, <2>1, <2>3, <3>1 DEF AsksMore, Only, Sends, SamePublisher
  <2>. QED
    BY <1>0, <2>2, <2>3
<1>4. ASSUME NEW a \in Peers, NEW frames \in Seq(Frames), Leaves(a, frames)
      PROVE  ItemsInv(p)'
  <2>1. Uses(a)
    BY <1>0, <1>4, CallsUse
  <2>2. CASE a = p
    <3>1. /\ signals'[p] = signals[p] \/ Signalled(p, <<>>) \/ Signalled(p, <<"error">>)
          /\ phase'[p] = phase[p] \/ phase'[p] = "failed"
      BY <1>4, <2>2 DEF Leaves, SameSubscriber
    <3>. QED
      BY <1>e, <2>1, <2>2, <3>1
  <2>3. CASE a = q
    <3>1. Weigh(ItemWeight, frames) = 0
      BY <1>4, FrameWeight DEF Leaves
    <3>. QED
      BY <1>0, <1>4, <1>d, <2>1, <2>3, <3>1 DEF Leaves, Only, Sends
  <2>. QED
    BY <1>0, <2>2, <2>3
<1>5. ASSUME CancelsInbound
      PROVE  ItemsInv(p)'
  <2>1. Uses(Responder)
    BY <1>0, <1>5, CallsUse
  <2>2. CASE p = Responder
    BY <1>5, <1>e, <2>1, <2>2 DEF CancelsInbound
  <2>3. CASE q = Responder
    <3>1. PICK t \in Seq(Frames) : t = <<CancelFrame>> /\ Weigh(ItemWeight, t) = 0
      BY FramesType, FrameWeight
    <3>. QED
      BY <1>0, <1>5, <1>d, <2>1, <2>3, <3>1 DEF CancelsInbound, Only, Sends, SamePublisher
  <2>. QED
    BY <1>0, <2>2, <2>3, Ends
<1>6. ASSUME NEW a \in Peers, NEW items \in {0, 1}, NEW complete \in BOOLEAN, NEW frames \in Seq(Frames),
             Publishes(a, items, complete, frames)
      PROVE  ItemsInv(p)'
  <2>1. Uses(a)
    BY <1>0, <1>6, CallsUse
  <2>2. CASE a = p
    BY <1>6, <1>e, <2>1, <2>2 DEF Publishes, SameSubscriber
  <2>3. CASE a = q
    <3>1. /\ ~outboundDone[q] /\ connected[q] /\ SameState(p) /\ connected'[p] = connected[p]
          /\ signals'[p] = signals[p] /\ published'[q] = published[q] + items
          /\ pipe'[p] = After(pipe[p], frames) /\ HasStream(q)
      <4>1. ~outboundDone[q] /\ HasStream(q)
        BY <1>6, <2>3 DEF Publishes
      <4>2. connected[q]
        BY <1>0, <4>1 DEF PhaseInv, HasStream, BothDone
      <4>. QED
        BY <1>0, <1>6, <2>3, <4>1, <4>2 DEF Publishes, Only, SameSubscriber, Sends
    <3>2. PICK w \in Nat : w = Weigh(ItemWeight, pipe[p])
      BY <1>a, WeighType
    <3>3. Weigh(ItemWeight, frames) = items
      BY <1>6, <2>3, PayloadWeight, FrameWeight DEF Publishes
    <3>4. connected[p] => Weigh(ItemWeight, pipe'[p]) = w + items
      <4>1. connected[p] => IsOpen
        BY <1>0, <3>1, Ends DEF IsOpen
      <4>2. IsOpen => Weigh(ItemWeight, After(pipe[p], frames)) = Weigh(ItemWeight, pipe[p]) + Weigh(ItemWeight, frames)
        BY <1>a, SentWeight, Zenon
      <4>. QED
        BY <3>1, <3>2, <3>3, <4>1, <4>2
    <3>5. PICK c \in Nat, d \in Nat : c = Occurrences(signals[p], "next") /\ d = Occurrences(signals[p], "complete")
      BY <1>a, OccurrencesType
    <3>6. d = 0
      BY <1>0, <3>1, <3>5 DEF ItemsInv, Count, q
    <3>7. PICK x \in Nat : x = Extra(p)
      BY DEF Extra
    <3>8. Extra(p)' = x
      <4>1. p = Responder => phase[Requester] = "ready"
        BY <1>0, <3>1 DEF HasStream
      <4>. QED
        BY <3>1, <3>7, <4>1, ExtraSent DEF SameState
    <3>9. PICK m \in Nat : m = published[q]
      BY <1>0, Types
    <3>10. connected[p] /\ ~BothDone(p) /\ phase[p] # "rejected" => c + w = m + x
      BY <1>0, <3>2, <3>5, <3>7, <3>9, Zenon DEF ItemsInv, Count, q
    <3>11. connected[p] /\ ~BothDone(p) /\ phase[p] # "rejected" => c + (w + items) = (m + items) + x
      <4>1. items \in Nat
        OBVIOUS
      <4>. QED
        BY ONLY <3>10, <4>1, c \in Nat, w \in Nat, m \in Nat, x \in Nat
    <3>12. /\ Occurrences(signals'[p], "next") = c /\ Occurrences(signals'[p], "complete") = d
           /\ published'[q] = m + items
      BY <3>1, <3>5, <3>9
    <3>13. /\ phase'[p] = phase[p] /\ inboundDone'[p] = inboundDone[p] /\ outboundDone'[p] = outboundDone[p]
           /\ connected'[p] = connected[p]
      BY <3>1 DEF SameState
    <3>14. ~(d > 0)
      BY <3>6
    <3>. QED
      BY <3>4, <3>8, <3>11, <3>12, <3>13, <3>14, Zenon DEF ItemsInv, Count, BothDone, q
  <2>. QED
    BY <1>0, <2>2, <2>3
<1>7. ASSUME Drops(p) \/ TakesFragment(p) \/ TakesDemand(p) \/ (p = Requester /\ TakesCancel)
      PROVE  ItemsInv(p)'
  <2>1. Receives(p)
    BY <1>7, FramesReceived, Zenon
  <2>2. /\ SameSubscriber(p) /\ pipe[p] # <<>> /\ pipe'[p] = Tail(pipe[p]) /\ connected' = connected
        /\ phase'[p] = phase[p] /\ (BothDone(p) => inboundDone'[p] /\ outboundDone'[p])
        /\ published'[q] = published[q] /\ outboundDone'[q] = outboundDone[q]
    BY <1>0, <1>7, <2>1 DEF Drops, TakesFragment, TakesDemand, TakesCancel, Receives, Progresses, BothDone,
                            Only, SameState, SamePublisher
  <2>3. CASE Drops(p)
    <3>1. ~registered[p] /\ SameState(p) /\ Head(pipe[p]).type # "REQUEST_CHANNEL"
      BY <2>3 DEF Drops
    <3>2. BothDone(p) \/ phase[p] \in {"new", "none", "rejected"}
      BY <2>2, <3>1, Arriving
    <3>3. phase[p] # "new" /\ phase[p] # "none"
      BY <1>0, <2>2, <3>1, Types, Ends DEF PhaseInv, RequestInv
    <3>. QED
      BY <1>0, <2>2, <3>1, <3>2, <3>3, ItemsQuiet DEF q, SameState, SameSubscriber, BothDone
  <2>4. CASE ~Drops(p)
    <3>1. registered[p] /\ ~Finishes(Head(pipe[p]))
      BY <1>7, <2>4 DEF TakesFragment, TakesDemand, TakesCancel, Finishes
    <3>2. phase[p] # "none" /\ phase[p] # "rejected" /\ phase[p] # "assembling"
      BY <2>2, <3>1, Arriving
    <3>3. Extra(p)' = Extra(p)
      BY <2>2, <3>2 DEF Extra
    <3>. QED
      BY <1>0, <2>2, <3>1, <3>2, <3>3, ItemsTaken DEF q, SameSubscriber
  <2>. QED
    BY <2>3, <2>4
<1>8. ASSUME TakesPayload(p)
      PROVE  ItemsInv(p)'
  <2>1. Receives(p)
    BY <1>8, FramesReceived, Zenon
  <2>2. /\ pipe[p] # <<>> /\ pipe'[p] = Tail(pipe[p]) /\ connected' = connected /\ phase'[p] = phase[p]
        /\ outboundDone'[q] = outboundDone[q] /\ published'[q] = published[q]
    BY <1>0, <2>1 DEF Receives, Only, SameState, SamePublisher
  <2>3. PICK h \in Frames : h = Head(pipe[p]) /\ h \in Range(pipe[p])
    BY <1>b, <2>2
  <2>4. /\ registered[p] /\ phase[p] = "ready" /\ h.type = "PAYLOAD" /\ ~h.follows
        /\ inboundDone'[p] = (inboundDone[p] \/ h.complete) /\ outboundDone'[p] = outboundDone[p]
        /\ Signalled(p, SignalsOf(h))
    BY <1>8, <2>3 DEF TakesPayload, HasReceiver
  <2>5. h.next \in BOOLEAN /\ h.complete \in BOOLEAN
    BY <2>3, <2>4 DEF Frames
  <2>6. connected[p] /\ ~BothDone(p)
    BY <2>2, <2>4, Arriving
  <2>7. ~Told(signals[p])
    BY <1>0, <2>3, <2>4, <2>6 DEF SignalsInv, Speaks
  <2>8. Given(signals[p])
    BY <1>0 DEF SignalsInv, Given
  <2>9. Occurrences(signals[p], "complete") = 0
    BY <1>a, <2>7, <2>8, CompletionIsTold
  <2>10. PICK c \in Nat : c = Occurrences(signals[p], "next")
    BY <1>a, OccurrencesType
  <2>11. PICK i \in {0, 1} : i = Item(h) /\ i = IF h.next THEN 1 ELSE 0
    BY <2>4, <2>5 DEF Item, Finishes
  <2>12. /\ Occurrences(signals'[p], "next") = c + i
         /\ Occurrences(signals'[p], "complete") = IF h.complete THEN 1 ELSE 0
    <3>1. /\ Occurrences(signals[p] \o SignalsOf(h), "next") = c + i
          /\ Occurrences(signals[p] \o SignalsOf(h), "complete") = 0 + IF h.complete THEN 1 ELSE 0
      BY <1>a, <2>9, <2>10, <2>11, CountsOfPayload, Zenon
    <3>2. (0 + IF h.complete THEN 1 ELSE 0) = IF h.complete THEN 1 ELSE 0
      BY <2>5
    <3>. QED
      BY <2>4, <3>1, <3>2, Zenon DEF Signalled
  <2>13. PICK w \in Nat : w = Weigh(ItemWeight, Tail(pipe[p]))
    BY <1>a, <2>2, TakenWeight
  <2>14. Weigh(ItemWeight, pipe[p]) = i + w
    BY <1>a, <2>2, <2>3, <2>11, <2>13, TakenWeight, WeightsOfFrames, Zenon
  <2>15. PICK m \in Nat : m = published[q]
    BY <1>0, Types
  <2>16. Extra(p) = 0
    BY <2>4 DEF Extra
  <2>17. Extra(p)' = 0
    BY <2>2, <2>4 DEF Extra
  <2>18. c + (i + w) = m + 0
    BY <1>0, <2>4, <2>6, <2>10, <2>14, <2>15, <2>16, Zenon DEF ItemsInv, Count, q
  <2>19. (c + i) + w = m + 0
    BY ONLY <2>18, c \in Nat, i \in {0, 1}, w \in Nat, m \in Nat
  <2>20. h.complete => w = 0 /\ outboundDone[q]
    <3>1. h.complete => Stops(p, h) /\ EndsInbound(h)
      BY <2>4 DEF Stops, EndsInbound
    <3>. QED
      BY <1>0, <1>b, <2>2, <2>3, <2>4, <2>13, <3>1 DEF EndsInv, q
  <2>21. h.complete => c + i = m
    BY <2>19, <2>20
  <2>22. (IF h.complete THEN 1 ELSE 0) > 0 => h.complete
    OBVIOUS
  <2>23. Weigh(ItemWeight, pipe'[p]) = w
    BY <2>2, <2>13
  <2>24. published'[q] = m /\ (outboundDone[q] => outboundDone'[q])
    BY <2>2, <2>15
  <2>. QED
    BY <2>12, <2>17, <2>19, <2>20, <2>21, <2>22, <2>23, <2>24, Zenon DEF ItemsInv, Count, q
<1>9. ASSUME TakesEnd(p)
      PROVE  ItemsInv(p)'
  <2>1. Receives(p)
    BY <1>9, FramesReceived, Zenon
  <2>2. outboundDone'[q] = outboundDone[q] /\ published'[q] = published[q]
    BY <1>0, <2>1 DEF Receives, Only, SameState, SamePublisher
  <2>3. /\ inboundDone'[p] /\ outboundDone'[p]
        /\ Signalled(p, IF p = Requester \/ (HasReceiver(p) /\ ~inboundDone[p]) THEN <<"error">> ELSE <<>>)
    BY <1>9 DEF TakesEnd, IsEnded
  <2>4. /\ Occurrences(signals'[p], "next") = Occurrences(signals[p], "next")
        /\ Occurrences(signals'[p], "complete") = Occurrences(signals[p], "complete")
    BY <1>a, <2>3, CountsOfError, Zenon DEF Signalled
  <2>. QED
    BY <1>0, <2>2, <2>3, <2>4, ItemsQuiet DEF q
<1>10. ASSUME NEW a \in Peers, Closes(a)
       PROVE  ItemsInv(p)'
  <2>1. CASE a = q
    <3>1. published'[q] = published[q] /\ (outboundDone[q] => outboundDone'[q])
      BY <1>10, <2>1 DEF Closes, IsEnded, SamePublisher, SameState
    <3>. QED
      BY <1>0, <1>10, <1>c, <2>1, <3>1 DEF Closes, Only
  <2>2. CASE a = p
    <3>1. /\ ~connected'[p] /\ outboundDone'[q] = outboundDone[q] /\ published'[q] = published[q]
          /\ signals'[p] = signals[p]
             \/ Signalled(p, IF HasReceiver(p) /\ ~inboundDone[p] THEN <<"error">> ELSE <<>>)
      BY <1>0, <1>10, <2>2 DEF Closes, IsEnded, Only, SameState, SameSubscriber, SamePublisher
    <3>2. /\ Occurrences(signals'[p], "next") = Occurrences(signals[p], "next")
          /\ Occurrences(signals'[p], "complete") = Occurrences(signals[p], "complete")
      BY <1>a, <3>1, CountsOfError, Zenon DEF Signalled
    <3>. QED
      BY <1>0, <3>1, <3>2, ItemsQuiet DEF q
  <2>. QED
    BY <1>0, <2>1, <2>2
<1>11. ASSUME NEW n \in Nat, NEW complete \in BOOLEAN, CallsHandler(n, complete)
       PROVE  ItemsInv(p)'
  <2>1. PICK h : h = Head(pipe[Responder])
    OBVIOUS
  <2>2. /\ pipe[Responder] # <<>> /\ Only(Responder) /\ connected' = connected
        /\ \/ h.type = "REQUEST_CHANNEL" /\ ~h.follows
           \/ h.type = "PAYLOAD" /\ ~h.follows /\ phase[Responder] = "assembling"
        /\ complete => h.complete
        /\ phase'[Responder] = "handler"
        /\ inboundDone'[Responder] = complete /\ outboundDone'[Responder] = outboundDone[Responder]
        /\ published'[Responder] = published[Responder]
        /\ Signalled(Responder, IF complete THEN <<"complete">> ELSE <<>>)
    BY <1>0, <1>11, <2>1 DEF CallsHandler, TakesFrame, Takes, PhaseInv
  <2>3. /\ phase[Requester] = "ready" /\ connected[Responder]
        /\ ~inboundDone[Responder] /\ ~outboundDone[Responder]
        /\ h.type = "REQUEST_CHANNEL" => phase[Responder] = "none"
        /\ phase[Responder] \in {"none", "assembling"}
    BY <2>1, <2>2, RequestArrives
  <2>4. /\ pipe'[Responder] = Tail(pipe[Responder]) /\ pipe'[Requester] = pipe[Requester]
    BY <1>0, <1>11, AfterNothing DEF CallsHandler, TakesFrame, Takes
  <2>5. CASE p = Requester
    BY <1>0, <1>c, <2>2, <2>4, <2>5 DEF Only, SameState
  <2>6. CASE p = Responder
    <3>1. signals[p] = <<>> /\ h \in Frames /\ h \in Range(pipe[p])
      BY <1>0, <1>b, <2>1, <2>2, <2>3, <2>6 DEF DeferredInv
    <3>2. Item(h) = Extra(p)
      <4>1. CASE h.type = "REQUEST_CHANNEL"
        <5>1. ~Follows(h) /\ ~Finishes(h)
          BY <2>2, <4>1 DEF Follows, Finishes
        <5>. QED
          BY <2>1, <2>3, <4>1, <5>1 DEF Extra, Item
      <4>2. CASE h.type = "PAYLOAD" /\ phase[p] = "assembling"
        <5>1. Finishes(h)
          BY <2>1, <2>2, <2>6, <4>2, Arriving
        <5>. QED
          BY <2>6, <4>2, <5>1 DEF Extra, Item
      <4>. QED
        BY <2>2, <2>6, <4>1, <4>2
    <3>3. PICK x \in Nat : x = Extra(p)
      BY DEF Extra
    <3>4. PICK w \in Nat : w = Weigh(ItemWeight, Tail(pipe[p]))
      BY <1>a, <2>2, <2>6, TakenWeight
    <3>5. Weigh(ItemWeight, pipe[p]) = x + w
      <4>1. ItemWeight[h] = x
        BY <3>1, <3>2, <3>3, WeightsOfFrames
      <4>2. h = Head(pipe[p]) /\ pipe[p] # <<>>
        BY <2>1, <2>2, <2>6
      <4>. QED
        BY <1>a, <3>4, <4>1, <4>2, TakenWeight, Zenon
    <3>6. PICK m \in Nat : m = published[q]
      BY <1>0, Types
    <3>7. /\ Occurrences(<<>>, "next") = 0 /\ Occurrences(<<>>, "complete") = 0
          /\ Occurrences(<<"complete">>, "next") = 0 /\ Occurrences(<<"complete">>, "complete") = 1
      <4>1. <<>> \in Seq(Signals) /\ "complete" \in Signals /\ Len(<<>>) = 0
        BY SignalsType DEF Signals
      <4>2. Occurrences(<<>>, "next") = 0 /\ Occurrences(<<>>, "complete") = 0
        <5>1. PICK s \in Seq(Signals) : s = <<>> /\ Len(s) = 0
          BY <4>1
        <5>2. \A i \in 1 .. Len(s) : s[i] # "next" /\ s[i] # "complete"
          BY <5>1
        <5>. QED
          BY <5>1, <5>2, OccurrencesNone
      <4>3. <<>> \o <<"complete">> = <<"complete">>
        BY SignalsType, MoreSignals
      <4>4. /\ Occurrences(<<>> \o <<"complete">>, "next") = 0 + 0
            /\ Occurrences(<<>> \o <<"complete">>, "complete") = 0 + 1
        BY ONLY <4>1, <4>2, CountsOfSignal
      <4>. QED
        BY <4>2, <4>3, <4>4
    <3>8. 0 + (x + w) = m + x
      <4>1. Occurrences(signals[p], "next") = 0 /\ ~BothDone(p) /\ connected[p] /\ phase[p] # "rejected"
        BY <2>3, <2>6, <3>1, <3>7 DEF BothDone
      <4>. QED
        BY <1>0, <3>3, <3>5, <3>6, <4>1, Zenon DEF ItemsInv, Count, q
    <3>9. 0 + w = m + 0
      BY ONLY <3>8, x \in Nat, w \in Nat, m \in Nat
    <3>10. Extra(p)' = 0
      BY <2>2, <2>6 DEF Extra
    <3>11. /\ Occurrences(signals'[p], "next") = 0
           /\ Occurrences(signals'[p], "complete") = IF complete THEN 1 ELSE 0
      <4>1. signals'[p] = IF complete THEN <<"complete">> ELSE <<>>
        <5>1. /\ <<>> \o <<>> = <<>> /\ <<>> \o <<"complete">> = <<"complete">>
          BY SignalsType, MoreSignals
        <5>. QED
          BY <2>2, <2>6, <3>1, <5>1, Zenon DEF Signalled
      <4>. QED
        BY <3>7, <4>1, Zenon
    <3>12. complete => w = 0 /\ outboundDone[q]
      <4>1. complete => Stops(p, h) /\ EndsInbound(h) /\ h.type # "ERROR"
        BY <2>2 DEF Stops, EndsInbound
      <4>. QED
        BY <1>0, <1>b, <2>1, <2>2, <2>3, <2>6, <3>1, <3>4, <4>1 DEF EndsInv, q
    <3>13. complete => 0 = m
      BY <3>9, <3>12
    <3>14. (IF complete THEN 1 ELSE 0) > 0 => complete
      OBVIOUS
    <3>15. /\ Weigh(ItemWeight, pipe'[p]) = w /\ published'[q] = m
           /\ outboundDone'[q] = outboundDone[q]
      BY <1>0, <2>2, <2>4, <2>6, <3>4, <3>6 DEF Only, SameState, SamePublisher
    <3>. QED
      BY <3>9, <3>10, <3>11, <3>12, <3>13, <3>14, <3>15, Zenon DEF ItemsInv, Count, q
  <2>. QED
    BY <2>5, <2>6, Ends
<1>12. ASSUME TakesFirstFragment
       PROVE  ItemsInv(p)'
  <2>1. /\ pipe[Responder] # <<>> /\ Only(Responder) /\ connected' = connected
        /\ SameSubscriber(Responder) /\ SamePublisher(Responder)
        /\ Head(pipe[Responder]).type = "REQUEST_CHANNEL" /\ Head(pipe[Responder]).follows
        /\ phase'[Responder] = "assembling"
        /\ inboundDone'[Responder] = inboundDone[Responder] /\ outboundDone'[Responder] = outboundDone[Responder]
    BY <1>12 DEF TakesFirstFragment, TakesFrame, Takes
  <2>2. /\ pipe'[Responder] = Tail(pipe[Responder]) /\ pipe'[Requester] = pipe[Requester]
    BY <1>0, <1>12, AfterNothing DEF TakesFirstFragment, TakesFrame, Takes
  <2>3. CASE p = Responder
    <3>1. phase[p] = "none"
      BY <2>1, <2>3, RequestArrives
    <3>2. Extra(p) = 1 /\ ~Finishes(Head(pipe[p]))
      BY <2>1, <2>3, <3>1 DEF Extra, Follows, Finishes
    <3>3. Extra(p)' = 1
      BY <2>1, <2>3 DEF Extra
    <3>. QED
      BY <1>0, <2>1, <2>2, <2>3, <3>1, <3>2, <3>3, ItemsTaken
         DEF q, Only, SameState, SameSubscriber, SamePublisher, BothDone
  <2>4. CASE p = Requester
    BY <1>0, <1>c, <2>1, <2>2, <2>4 DEF Only, SameState, SamePublisher
  <2>. QED
    BY <2>3, <2>4, Ends
<1>13. ASSUME Rejects
       PROVE  ItemsInv(p)'
  <2>1. /\ Only(Responder) /\ connected' = connected /\ SameSubscriber(Responder) /\ SamePublisher(Responder)
        /\ phase'[Responder] = "rejected"
        /\ outboundDone'[Responder] = outboundDone[Responder]
        /\ pipe'[Requester] = After(pipe[Requester], <<ErrorFrame>>)
    BY <1>13 DEF Rejects, Takes
  <2>2. CASE p = Responder
    BY <1>0, <2>1, <2>2, ItemsQuiet DEF q, Only, SameState, SameSubscriber, SamePublisher
  <2>3. CASE p = Requester
    <3>1. PICK t \in Seq(Frames) : t = <<ErrorFrame>> /\ Weigh(ItemWeight, t) = 0
      BY FramesType, FrameWeight
    <3>2. SameState(p) /\ signals'[p] = signals[p] /\ connected'[p] = connected[p]
      BY <1>0, <2>1, <2>3 DEF Only, SameSubscriber
    <3>. QED
      BY <1>0, <2>1, <2>3, <3>1, <3>2, ItemsSent DEF q, SamePublisher
  <2>. QED
    BY <2>2, <2>3, Ends
<1>14. ASSUME Returns
       PROVE  ItemsInv(p)'
  <2>1. /\ Only(Responder) /\ pipe' = pipe /\ connected' = connected /\ SamePublisher(Responder)
        /\ phase[Responder] = "handler" /\ phase'[Responder] = "ready"
        /\ inboundDone'[Responder] = inboundDone[Responder] /\ outboundDone'[Responder] = outboundDone[Responder]
        /\ Signalled(Responder, <<"error">>) \/ Signalled(Responder, <<>>)
    BY <1>14 DEF Returns
  <2>2. CASE p = Requester
    BY <1>0, <1>c, <2>1, <2>2 DEF Only, SamePublisher
  <2>3. CASE p = Responder
    BY <1>0, <2>1, <2>3, SameItems DEF q, Only, SameState, SamePublisher, BothDone
  <2>. QED
    BY <2>2, <2>3, Ends
<1>15. ASSUME NEW a \in Peers, Drops(a) \/ TakesFragment(a) \/ TakesPayload(a) \/ TakesDemand(a)
                                \/ TakesEnd(a) \/ (a = Requester /\ TakesCancel)
       PROVE  ItemsInv(p)'
  <2>1. CASE a = p
    BY <1>15, <1>7, <1>8, <1>9, <2>1, Zenon
  <2>2. CASE a = q
    <3>1. Receives(q)
      BY <1>0, <1>15, <2>2, FramesReceived, Zenon
    <3>2. SameSubscriber(p) /\ published'[q] = published[q]
      BY <1>0, <1>15, <2>2 DEF Drops, TakesFragment, TakesPayload, TakesDemand, TakesEnd, IsEnded, TakesCancel,
                                TakesFrame, Only, SamePublisher
    <3>. QED
      BY <1>0, <1>c, <3>1, <3>2 DEF Receives, Only, Progresses
  <2>. QED
    BY <1>0, <2>1, <2>2
<1>. QED
  BY <1>1, <1>2, <1>3, <1>4, <1>5, <1>6, <1>10, <1>11, <1>12, <1>13, <1>14, <1>15, Zenon DEF Effect
\* What frames weigh in demand.
LEMMA DemandOfFrames ==
  /\ \A n \in Nat \ {0} : Weigh(DemandWeight, <<RequestNFrame(n)>>) = n
  /\ \A n \in Nat \ {0}, complete, fragmented \in BOOLEAN :
       Weigh(DemandWeight, RequestFrames(n, complete, fragmented)) = n
  /\ \A complete, fragmented \in BOOLEAN : Weigh(DemandWeight, Payload(complete, fragmented)) = 0
  /\ Weigh(DemandWeight, <<PayloadFrame(FALSE, TRUE, FALSE)>>) = 0
  /\ Weigh(DemandWeight, <<CancelFrame>>) = 0 /\ Weigh(DemandWeight, <<ErrorFrame>>) = 0
  /\ Weigh(DemandWeight, <<>>) = 0
<1>0. DemandWeight \in [Frames -> Nat]
  BY WeightsOfFrames
<1>1. ASSUME NEW f \in Frames
      PROVE  Weigh(DemandWeight, <<f>>) = Demand(f)
  BY <1>0, <1>1, WeightsOfFrames, WeighSingle
<1>2. ASSUME NEW n \in Nat \ {0}
      PROVE  Weigh(DemandWeight, <<RequestNFrame(n)>>) = n
  <2>1. RequestNFrame(n) \in Frames /\ Demand(RequestNFrame(n)) = n
    BY DEF RequestNFrame, Frames, Demand
  <2>. QED
    BY <1>1, <2>1
<1>3. /\ PayloadFrame(FALSE, TRUE, FALSE) \in Frames /\ Demand(PayloadFrame(FALSE, TRUE, FALSE)) = 0
      /\ CancelFrame \in Frames /\ Demand(CancelFrame) = 0
      /\ ErrorFrame \in Frames /\ Demand(ErrorFrame) = 0
  BY DEF PayloadFrame, CancelFrame, ErrorFrame, Frames, Demand
<1>4. ASSUME NEW complete \in BOOLEAN, NEW fragmented \in BOOLEAN
      PROVE  Weigh(DemandWeight, Payload(complete, fragmented)) = 0
  <2>1. PICK t \in Seq(Frames) : t = Payload(complete, fragmented) /\ \A f \in Range(t) : f.type = "PAYLOAD"
    BY PayloadFacts DEF Sendable
  <2>2. ASSUME NEW f \in Range(t)
        PROVE  DemandWeight[f] = 0
    <3>1. f \in Frames /\ Demand(f) = 0
      BY <2>1 DEF Demand, Range
    <3>. QED
      BY <3>1, WeightsOfFrames
  <2>. QED
    BY <1>0, <2>1, <2>2, FramesWeighNothing
<1>5. ASSUME NEW n \in Nat \ {0}, NEW complete \in BOOLEAN, NEW fragmented \in BOOLEAN
      PROVE  Weigh(DemandWeight, RequestFrames(n, complete, fragmented)) = n
  <2>1. PICK h \in Frames : h = RequestFrame(n, FALSE, TRUE)
    BY DEF RequestFrame, Frames
  <2>2. PICK k \in Frames : k = RequestFrame(n, complete, FALSE)
    BY DEF RequestFrame, Frames
  <2>3. PICK g \in Frames : g = PayloadFrame(TRUE, complete, FALSE)
    BY DEF PayloadFrame, Frames
  <2>4. DemandWeight[h] = n /\ DemandWeight[g] = 0 /\ Demand(k) = n
    <3>1. Demand(h) = n /\ Demand(k) = n /\ Demand(g) = 0
      BY <2>1, <2>2, <2>3 DEF Demand, RequestFrame, PayloadFrame
    <3>. QED
      BY <3>1, WeightsOfFrames
  <2>5. CASE fragmented
    <3>1. RequestFrames(n, complete, fragmented) = <<h, g>>
      BY <2>1, <2>3, <2>5, Zenon DEF RequestFrames
    <3>2. Weigh(DemandWeight, <<h, g>>) = DemandWeight[h] + DemandWeight[g]
      BY <1>0, PairWeight
    <3>3. DemandWeight[h] + DemandWeight[g] = n
      BY <2>4
    <3>. QED
      BY ONLY <3>1, <3>2, <3>3, Zenon
  <2>6. CASE ~fragmented
    <3>1. RequestFrames(n, complete, fragmented) = <<k>>
      BY <2>2, <2>6, Zenon DEF RequestFrames
    <3>. QED
      BY <1>1, <2>4, <3>1
  <2>. QED
    BY <2>5, <2>6
<1>6. Weigh(DemandWeight, <<>>) = 0
  BY WeighEmpty
<1>. QED
  BY <1>1, <1>2, <1>3, <1>4, <1>5, <1>6

\* What is held for p's subscriber depends on the phases of the ends.
LEMMA HeldFacts ==
  ASSUME Typed, Typed', NEW p \in Peers, NEW q \in Peers, q = Other(p)
  PROVE  /\ Held(p) \in Nat /\ Held(p)' \in Nat
         /\ (phase'[p] = "new" <=> phase[p] = "new") /\ (phase'[q] = "assembling" <=> phase[q] = "assembling")
            /\ initialRequestN'[p] = initialRequestN[p] /\ initialRequestN'[q] = initialRequestN[q]
            => Held(p)' = Held(p)
         /\ p = Responder => Held(p) = 0 /\ Held(p)' = 0
         /\ phase[p] # "new" /\ phase[q] # "assembling" => Held(p) = 0
         /\ phase'[p] # "new" /\ phase'[q] # "assembling" => Held(p)' = 0
<1>1. /\ initialRequestN \in [Peers -> Nat]
      /\ phase[Requester] \in {"new", "ready", "rejected"}
      /\ phase[Responder] \in {"none", "assembling", "handler", "ready", "failed", "rejected"}
  BY Types
<1>2. /\ initialRequestN' \in [Peers -> Nat]
      /\ phase'[Requester] \in {"new", "ready", "rejected"}
      /\ phase'[Responder] \in {"none", "assembling", "handler", "ready", "failed", "rejected"}
  BY DEF Typed, TypeOK
<1>3. p = Responder => q = Requester
  BY Ends
<1>. QED
  BY <1>1, <1>2, <1>3 DEF Held

\* What was asked for moves from one place to another, or is lost when the
\* direction is done.
LEMMA DemandMoves ==
  ASSUME Typed, Typed', NEW p \in Peers, DemandInv(p), NEW q \in Peers, q = Other(p),
         NEW d \in Nat, demand'[p] = demand[p] + d,
         NEW c0 \in Nat, NEW w0 \in Nat, NEW h0 \in Nat, NEW c \in Nat, NEW w \in Nat, NEW h \in Nat,
         credit[q] = c0, Weigh(DemandWeight, pipe[q]) = w0, Held(p) = h0,
         credit'[q] = c, Weigh(DemandWeight, pipe'[q]) = w, Held(p)' = h,
         c + w + h <= c0 + w0 + h0 + d,
         IsOpen' /\ ~inboundDone'[p] /\ ~outboundDone'[q] /\ phase'[q] # "rejected" =>
           /\ IsOpen /\ ~inboundDone[p] /\ ~outboundDone[q] /\ phase[q] # "rejected"
           /\ c + w + h = c0 + w0 + h0 + d,
         phase'[p] \in {"none", "assembling"} => credit'[p] = 0
  PROVE  DemandInv(p)'
<1>1. PICK m \in Nat : m = demand[p]
  BY Types
<1>2. PICK live \in BOOLEAN : live <=> IsOpen' /\ ~inboundDone'[p] /\ ~outboundDone'[q] /\ phase'[q] # "rejected"
  OBVIOUS
<1>3. (c0 + w0) + h0 <= m /\ (live => (c0 + w0) + h0 = m)
  BY <1>1, <1>2, Zenon DEF DemandInv, Asked
<1>4. live => (c + w) + h = ((c0 + w0) + h0) + d
  BY <1>2
<1>5. (c + w) + h <= m + d /\ (live => (c + w) + h = m + d)
  BY <1>3, <1>4
<1>6. demand'[p] = m + d
  BY <1>1
<1>. QED
  BY <1>2, <1>5, <1>6, Zenon DEF DemandInv, Asked

\* What p's subscriber asked for stays where it is.
LEMMA DemandQuiet ==
  ASSUME Typed, Typed', NEW p \in Peers, DemandInv(p), NEW q \in Peers, q = Other(p),
         demand'[p] = demand[p], credit'[q] = credit[q],
         Weigh(DemandWeight, pipe'[q]) = Weigh(DemandWeight, pipe[q]), Held(p)' = Held(p),
         IsOpen' /\ ~inboundDone'[p] /\ ~outboundDone'[q] /\ phase'[q] # "rejected" =>
           IsOpen /\ ~inboundDone[p] /\ ~outboundDone[q] /\ phase[q] # "rejected",
         phase'[p] \in {"none", "assembling"} => credit'[p] = 0
  PROVE  DemandInv(p)'
<1>1. PICK c \in Nat : c = credit[q]
  BY Types
<1>2. PICK w \in Nat : w = Weigh(DemandWeight, pipe[q])
  BY Types, WeighType, WeightsOfFrames
<1>3. PICK h \in Nat : h = Held(p)
  BY Types, Ends DEF Held
<1>4. c + w + h = c + w + h + 0
  OBVIOUS
<1>5. demand'[p] = demand[p] + 0
  BY Types
<1>6. c + w + h <= c + w + h + 0
  OBVIOUS
<1>7. 0 \in Nat
  OBVIOUS
<1>8. IsOpen' /\ ~inboundDone'[p] /\ ~outboundDone'[q] /\ phase'[q] # "rejected" =>
           /\ IsOpen /\ ~inboundDone[p] /\ ~outboundDone[q] /\ phase[q] # "rejected"
           /\ c + w + h = c + w + h + 0
  BY <1>4
<1>9. /\ credit[q] = c /\ Weigh(DemandWeight, pipe[q]) = w /\ Held(p) = h
      /\ credit'[q] = c /\ Weigh(DemandWeight, pipe'[q]) = w /\ Held(p)' = h
  BY <1>1, <1>2, <1>3
<1>. QED
  BY <1>5, <1>6, <1>7, <1>8, <1>9, DemandMoves

\* Demand that was on its way is lost with a direction that is done.
LEMMA DemandLost ==
  ASSUME Typed, Typed', NEW p \in Peers, DemandInv(p), NEW q \in Peers, q = Other(p),
         demand'[p] = demand[p], credit'[q] = credit[q],
         Weigh(DemandWeight, pipe'[q]) <= Weigh(DemandWeight, pipe[q]), Held(p)' = Held(p) \/ Held(p)' = 0,
         ~(IsOpen' /\ ~inboundDone'[p] /\ ~outboundDone'[q] /\ phase'[q] # "rejected"),
         phase'[p] \in {"none", "assembling"} => credit'[p] = 0
  PROVE  DemandInv(p)'
<1>1. PICK c \in Nat : c = credit[q]
  BY Types
<1>2. PICK w0 \in Nat : w0 = Weigh(DemandWeight, pipe[q])
  BY Types, WeighType, WeightsOfFrames
<1>3. PICK w \in Nat : w = Weigh(DemandWeight, pipe'[q])
  <2>1. pipe'[q] \in Seq(Frames)
    BY DEF Typed, TypeOK
  <2>. QED
    BY <2>1, WeighType, WeightsOfFrames
<1>4. PICK h0 \in Nat : h0 = Held(p)
  BY Types, Ends DEF Held
<1>5. PICK h \in Nat : h = Held(p)' /\ (h = h0 \/ h = 0)
  BY <1>4
<1>6. PICK m \in Nat : m = demand[p]
  BY Types
<1>7. c + w0 + h0 <= m
  BY <1>1, <1>2, <1>4, <1>6, Zenon DEF DemandInv, Asked
<1>8. c + w + h <= m
  <2>1. w <= w0
    BY <1>2, <1>3
  <2>. QED
    BY <1>5, <1>7, <2>1
<1>9. demand'[p] = m /\ credit'[q] = c
  BY <1>1, <1>6
<1>. QED
  BY <1>3, <1>5, <1>8, <1>9, Zenon DEF DemandInv, Asked

\* p asks for d more, or sends what asks for nothing.
LEMMA DemandSent ==
  ASSUME Typed, Typed', NEW p \in Peers, DemandInv(p), NEW q \in Peers, q = Other(p),
         NEW t \in Seq(Frames), pipe'[q] = After(pipe[q], t), credit'[q] = credit[q],
         Held(p)' + Weigh(DemandWeight, t) + demand[p] = Held(p) + demand'[p], demand[p] <= demand'[p],
         IsOpen' /\ ~inboundDone'[p] /\ ~outboundDone'[q] /\ phase'[q] # "rejected" =>
           IsOpen /\ ~inboundDone[p] /\ ~outboundDone[q] /\ phase[q] # "rejected",
         phase'[p] \in {"none", "assembling"} => credit'[p] = 0
  PROVE  DemandInv(p)'
<1>1. PICK c \in Nat : c = credit[q]
  BY Types
<1>2. PICK s \in Seq(Frames) : s = pipe[q]
  BY Types
<1>3. PICK w0 \in Nat : w0 = Weigh(DemandWeight, s)
  BY WeighType, WeightsOfFrames
<1>4. PICK w : w = Weigh(DemandWeight, After(s, t))
  OBVIOUS
<1>a. PICK d \in Nat : d = Weigh(DemandWeight, t)
  BY WeighType, WeightsOfFrames
<1>b. PICK h0 \in Nat, h \in Nat : h0 = Held(p) /\ h = Held(p)'
  BY HeldFacts
<1>c. PICK x \in Nat, y \in Nat : x = demand[p] /\ y = demand'[p] /\ x <= y
  BY Types DEF Typed, TypeOK
<1>d. h + d + x = h0 + y
  BY <1>a, <1>b, <1>c, Zenon
<1>e. PICK m \in Nat : m = y - x
  BY <1>c
<1>f. y = x + m /\ h + d = h0 + m
  <2>1. y = x + m
    BY <1>e
  <2>2. h + d + x = h0 + (x + m)
    BY <1>d, <2>1
  <2>. QED
    BY ONLY <2>1, <2>2, h \in Nat, d \in Nat, x \in Nat, h0 \in Nat, m \in Nat
<1>g. demand'[p] = demand[p] + m
  BY <1>c, <1>f
<1>5. (IsOpen => w = w0 + d) /\ (~IsOpen => w = w0)
  BY <1>3, <1>4, <1>a, SentWeight, WeightsOfFrames, Zenon
<1>6. w \in Nat
  BY <1>5
<1>7. c + w + h <= c + w0 + h0 + m
  BY <1>5, <1>6, <1>f
<1>8. IsOpen => c + w + h = c + w0 + h0 + m
  BY <1>5, <1>6, <1>f
<1>9. /\ credit[q] = c /\ Weigh(DemandWeight, pipe[q]) = w0 /\ credit'[q] = c
      /\ Weigh(DemandWeight, pipe'[q]) = w /\ Held(p) = h0 /\ Held(p)' = h
  BY <1>b, <1>1, <1>2, <1>3, <1>4
<1>10. IsOpen' /\ ~inboundDone'[p] /\ ~outboundDone'[q] /\ phase'[q] # "rejected" =>
           /\ IsOpen /\ ~inboundDone[p] /\ ~outboundDone[q] /\ phase[q] # "rejected"
           /\ c + w + h = c + w0 + h0 + m
  BY <1>8
<1>. QED
  BY <1>g, <1>6, <1>7, <1>9, <1>10, DemandMoves

\* q takes a frame, and its publisher is asked for what the frame asks for, or
\* q holds it.
LEMMA DemandTaken ==
  ASSUME Typed, Typed', NEW p \in Peers, DemandInv(p), NEW q \in Peers, q = Other(p),
         pipe[q] # <<>>, pipe'[q] = Tail(pipe[q]), demand'[p] = demand[p],
         credit'[q] + Held(p)' = credit[q] + Held(p) + Demand(Head(pipe[q])),
         IsOpen' /\ ~inboundDone'[p] /\ ~outboundDone'[q] /\ phase'[q] # "rejected" =>
           IsOpen /\ ~inboundDone[p] /\ ~outboundDone[q] /\ phase[q] # "rejected",
         phase'[p] \in {"none", "assembling"} => credit'[p] = 0
  PROVE  DemandInv(p)'
<1>1. PICK s \in Seq(Frames) : s = pipe[q]
  BY Types
<1>2. PICK d \in Nat : d = Demand(Head(s)) /\ d = DemandWeight[Head(s)]
  BY <1>1, TailFacts, WeightsOfFrames
<1>3. PICK w \in Nat : w = Weigh(DemandWeight, Tail(s))
  BY <1>1, TakenWeight, WeightsOfFrames
<1>4. PICK w0 \in Nat : w0 = Weigh(DemandWeight, s)
  BY WeighType, WeightsOfFrames
<1>4a. w0 = d + w
  BY <1>1, <1>2, <1>3, <1>4, TakenWeight, WeightsOfFrames, Zenon
<1>a. PICK c0 \in Nat, c \in Nat : c0 = credit[q] /\ c = credit'[q]
  BY Types DEF Typed, TypeOK
<1>b. PICK h0 \in Nat, h \in Nat : h0 = Held(p) /\ h = Held(p)'
  BY HeldFacts
<1>5. c + w + h = c0 + w0 + h0 + 0
  <2>1. c + h = c0 + h0 + d
    BY <1>a, <1>b, <1>1, <1>2, Zenon
  <2>. QED
    BY ONLY <1>4a, <2>1, c \in Nat, h \in Nat, c0 \in Nat, h0 \in Nat, d \in Nat, w \in Nat, w0 \in Nat
<1>6. demand'[p] = demand[p] + 0 /\ 0 \in Nat
  BY Types
<1>7. /\ Weigh(DemandWeight, pipe[q]) = w0 /\ Weigh(DemandWeight, pipe'[q]) = w
      /\ credit[q] = c0 /\ credit'[q] = c /\ Held(p) = h0 /\ Held(p)' = h
  BY <1>a, <1>b, <1>1, <1>3, <1>4
<1>8. c + w + h <= c0 + w0 + h0 + 0
  BY <1>5
<1>9. IsOpen' /\ ~inboundDone'[p] /\ ~outboundDone'[q] /\ phase'[q] # "rejected" =>
           /\ IsOpen /\ ~inboundDone[p] /\ ~outboundDone[q] /\ phase[q] # "rejected"
           /\ c + w + h = c0 + w0 + h0 + 0
  BY <1>5
<1>. QED
  BY <1>6, <1>7, <1>8, <1>9, DemandMoves, ZenonT(40)
\* What a subscriber asks for reaches the publisher, or the direction is done.
LEMMA DemandStep ==
  ASSUME IInv, Typed', Effect, NEW p \in Peers
  PROVE  DemandInv(p)'
<1>. DEFINE q == Other(p)
<1>. USE BothEnds
<1>0. /\ Typed /\ DemandInv(p) /\ DemandInv(Other(p)) /\ PhaseInv /\ RequestInv
      /\ q \in Peers /\ p # q /\ Peers = {p, q} /\ Other(q) = p
      /\ (p = Responder <=> q = Requester) /\ (p = Requester <=> q = Responder)
      /\ phase[Requester] \in {"new", "ready", "rejected"}
      /\ phase[Responder] \in {"none", "assembling", "handler", "ready", "failed", "rejected"}
  BY Ends, Types DEF IInv
<1>a. /\ phase'[Requester] \in {"new", "ready", "rejected"}
      /\ phase'[Responder] \in {"none", "assembling", "handler", "ready", "failed", "rejected"}
      /\ credit[p] \in Nat /\ credit[q] \in Nat /\ demand[p] \in Nat /\ initialRequestN \in [Peers -> Nat]
      /\ phase[p] \in {"none", "assembling"} => credit[p] = 0
      /\ phase[q] \in {"none", "assembling"} => credit[q] = 0
      /\ pipe[p] \in Seq(Frames) /\ pipe[q] \in Seq(Frames)
  BY <1>0, Types DEF Typed, TypeOK, DemandInv
<1>. HIDE DEF q
<1>b. /\ Held(p) \in Nat /\ Held(p)' \in Nat
      /\ (phase'[p] = "new" <=> phase[p] = "new") /\ (phase'[q] = "assembling" <=> phase[q] = "assembling")
            /\ initialRequestN'[p] = initialRequestN[p] /\ initialRequestN'[q] = initialRequestN[q]
            => Held(p)' = Held(p)
      /\ p = Responder => Held(p) = 0 /\ Held(p)' = 0
      /\ phase[p] # "new" /\ phase[q] # "assembling" => Held(p) = 0
      /\ phase'[p] # "new" /\ phase'[q] # "assembling" => Held(p)' = 0
  BY <1>0, HeldFacts, Zenon DEF q
<1>. DEFINE live == IsOpen /\ ~inboundDone[p] /\ ~outboundDone[q] /\ phase[q] # "rejected"
            alive == IsOpen' /\ ~inboundDone'[p] /\ ~outboundDone'[q] /\ phase'[q] # "rejected"
            told == phase'[p] \in {"none", "assembling"} => credit'[p] = 0
<1>g. Typed /\ Typed' /\ DemandInv(p) /\ q \in Peers /\ q = Other(p)
  BY <1>0 DEF q
<1>c. ASSUME demand'[p] = demand[p], credit'[q] = credit[q], pipe'[q] = pipe[q], Held(p)' = Held(p),
             alive => live, told
      PROVE  DemandInv(p)'
  BY <1>0, <1>c, DemandQuiet DEF q
<1>d. ASSUME NEW t \in Seq(Frames), Weigh(DemandWeight, t) = 0, pipe'[q] = After(pipe[q], t),
             demand'[p] = demand[p], credit'[q] = credit[q], Held(p)' = Held(p), alive => live, told
      PROVE  DemandInv(p)'
  <2>1. PICK h \in Nat : h = Held(p)
    BY <1>b
  <2>2. Held(p)' + Weigh(DemandWeight, t) + demand[p] = Held(p) + demand'[p] /\ demand[p] <= demand'[p]
    BY <1>a, <1>d, <2>1
  <2>. QED
    BY <1>g, <1>d, <2>2, DemandSent
<1>1. ASSUME CompletesEarly \/ GivesUp \/ \E n \in Nat : WaitsForMore(n)
      PROVE  DemandInv(p)'
  <2>1. /\ Only(Requester) /\ pipe' = pipe /\ connected' = connected /\ phase[Requester] = "new"
        /\ inboundDone[Requester] => inboundDone'[Requester]
        /\ outboundDone[Requester] => outboundDone'[Requester]
        /\ credit'[Requester] = credit[Requester]
    BY <1>0, <1>1 DEF CompletesEarly, GivesUp, WaitsForMore, Waits, SameState, SameSubscriber
  <2>2. IsOpen' <=> IsOpen
    BY <2>1 DEF IsOpen
  <2>3. CASE p = Responder
    <3>1. demand'[p] = demand[p] /\ told /\ (alive => live)
      BY <1>0, <1>a, <2>1, <2>2, <2>3 DEF Only, SameSubscriber, SamePublisher, SameState
    <3>. QED
      BY <1>0, <1>b, <1>c, <2>1, <2>3, <3>1
  <2>4. CASE p = Requester
    <3>1. /\ credit'[q] = credit[q] /\ told /\ (alive => live) /\ phase[q] = "none" /\ phase'[q] = "none"
          /\ initialRequestN'[q] = initialRequestN[q]
      BY <1>0, <1>a, <2>1, <2>2, <2>4 DEF Only, SamePublisher, SameState, SameRequest, PhaseInv
    <3>2. ASSUME NEW n \in Nat, WaitsForMore(n)
          PROVE  DemandInv(p)'
      <4>1. /\ phase'[p] = phase[p] /\ initialRequestN'[p] = initialRequestN[p] + n
            /\ demand'[p] = demand[p] + n
        BY <2>4, <3>2 DEF WaitsForMore, SameState
      <4>2. PICK h \in Nat : h = Held(p) /\ h = initialRequestN[p]
        BY <1>a, <2>1, <2>4 DEF Held
      <4>3. Held(p)' = h + n
        BY <2>1, <2>4, <4>1, <4>2 DEF Held
      <4>4. PICK w \in Nat : w = Weigh(DemandWeight, pipe[q])
        BY <1>a, WeighType, WeightsOfFrames
      <4>5. PICK c \in Nat : c = credit[q]
        BY <1>a
      <4>6. PICK k \in Nat : k = h + n
        OBVIOUS
      <4>7. c + w + k = c + w + h + n /\ c + w + k <= c + w + h + n
        BY <4>6
      <4>8. /\ credit[q] = c /\ credit'[q] = c /\ Weigh(DemandWeight, pipe'[q]) = w /\ Held(p) = h /\ Held(p)' = k
        BY <2>1, <3>1, <4>2, <4>3, <4>4, <4>5, <4>6
      <4>. QED
        BY <1>0, <3>1, <4>1, <4>4, <4>7, <4>8, DemandMoves DEF q
    <3>3. ASSUME CompletesEarly \/ GivesUp
          PROVE  DemandInv(p)'
      <4>1. /\ initialRequestN'[p] = initialRequestN[p] /\ demand'[p] = demand[p]
            /\ phase'[p] = phase[p] \/ (phase'[p] = "rejected" /\ inboundDone'[p])
        BY <2>1, <2>4, <3>3 DEF CompletesEarly, GivesUp, SameRequest, SameState, SameSubscriber
      <4>2. CASE phase'[p] = phase[p]
        BY <1>b, <1>c, <2>1, <3>1, <4>1, <4>2
      <4>3. CASE phase'[p] = "rejected" /\ inboundDone'[p]
        <5>1. Held(p)' = 0
          BY <1>b, <3>1, <4>3
        <5>2. ~alive
          BY <4>3
        <5>3. Weigh(DemandWeight, pipe'[q]) <= Weigh(DemandWeight, pipe[q])
          <6>1. PICK w \in Nat : w = Weigh(DemandWeight, pipe[q])
            BY <1>a, WeighType, WeightsOfFrames
          <6>. QED
            BY <2>1, <6>1
        <5>. QED
          BY <1>0, <3>1, <4>1, <5>1, <5>2, <5>3, DemandLost DEF q
      <4>. QED
        BY <4>1, <4>2, <4>3
    <3>. QED
      BY <1>1, <3>2, <3>3
  <2>. QED
    BY <2>3, <2>4, Ends
<1>2. ASSUME NEW fragmented \in BOOLEAN, Asks(fragmented)
      PROVE  DemandInv(p)'
  <2>1. /\ phase[Requester] = "new" /\ phase'[Requester] = "ready" /\ Only(Requester) /\ connected' = connected
        /\ ~outboundDone[Requester]
        /\ inboundDone'[Requester] = inboundDone[Requester]
        /\ SameSubscriber(Requester) /\ SamePublisher(Requester) /\ SameRequest(Requester)
        /\ phase[Responder] = "none" /\ phase'[Responder] = "none"
    BY <1>0, <1>2 DEF Asks, PhaseInv, Only, SameState
  <2>2. IsOpen' <=> IsOpen
    BY <2>1 DEF IsOpen
  <2>3. CASE p = Responder
    <3>1. pipe'[q] = pipe[q]
      BY <1>0, <1>2, <2>3 DEF Asks, Sends
    <3>2. demand'[p] = demand[p] /\ told /\ credit'[q] = credit[q] /\ (alive => live)
      BY <1>0, <1>a, <2>1, <2>2, <2>3 DEF Only, SameSubscriber, SamePublisher, SameState
    <3>. QED
      BY <1>0, <1>b, <1>c, <2>3, <3>1, <3>2
  <2>4. CASE p = Requester
    <3>1. PICK n \in Nat \ {0}, complete \in BOOLEAN : n = initialRequestN[Requester] /\ complete = isComplete[Requester]
      BY SMTT(40), <1>0, Types DEF PhaseInv
    <3>2. PICK t \in Seq(Frames) : t = RequestFrames(n, complete, fragmented) /\ Weigh(DemandWeight, t) = n
      BY RequestFacts, DemandOfFrames, Zenon
    <3>3. pipe'[q] = After(pipe[q], t)
      BY <1>0, <1>2, <2>4, <3>1, <3>2 DEF Asks, Sends
    <3>4. Held(p) = n
      BY <2>1, <2>4, <3>1 DEF Held
    <3>5. Held(p)' = 0
      BY <1>0, <1>b, <2>1, <2>4
    <3>6. demand'[p] = demand[p] + 0 /\ told /\ credit'[q] = credit[q] /\ (alive => live)
      BY <1>0, <1>a, <2>1, <2>2, <2>4 DEF Only, SameSubscriber, SamePublisher, SameState
    <3>7. Held(p)' + Weigh(DemandWeight, t) + demand[p] = Held(p) + demand'[p] /\ demand[p] <= demand'[p]
      BY <1>a, <3>2, <3>4, <3>5, <3>6
    <3>. QED
      BY <1>g, <3>2, <3>3, <3>6, <3>7, DemandSent
  <2>. QED
    BY <2>3, <2>4, Ends
<1>e. ASSUME Uses(q), SameSubscriber(p), credit'[q] = credit[q]
      PROVE  DemandInv(p)'
  <2>1. /\ pipe'[q] = pipe[q] /\ demand'[p] = demand[p] /\ SameState(p) /\ SamePublisher(p) /\ connected' = connected
        /\ (outboundDone[q] => outboundDone'[q]) /\ phase[q] \in {"handler", "ready"}
        /\ phase'[q] = phase[q] \/ phase'[q] = "failed"
        /\ SameRequest(p) /\ SameRequest(q)
    BY <1>0, <1>e DEF Uses, Only, Progresses, SameSubscriber, HasStream
  <2>2. Held(p)' = Held(p) /\ told /\ (alive => live)
    <3>1. (IsOpen' <=> IsOpen)
      BY <2>1 DEF IsOpen
    <3>. QED
      BY <1>a, <1>b, <2>1, <3>1 DEF SameState, SamePublisher, SameRequest
  <2>. QED
    BY <1>c, <1>e, <2>1, <2>2
<1>f. ASSUME Uses(p), phase'[p] = phase[p] \/ phase'[p] = "failed"
      PROVE  /\ credit'[q] = credit[q] /\ (alive => live) /\ Held(p)' = Held(p) /\ told
  <2>1. /\ SameState(q) /\ SameRequest(q) /\ SameRequest(p) /\ SamePublisher(q) /\ connected' = connected
        /\ (inboundDone[p] => inboundDone'[p]) /\ phase[p] \in {"handler", "ready"}
    BY <1>0, <1>f DEF Uses, Only, Progresses, HasStream
  <2>2. (IsOpen' <=> IsOpen)
    BY <2>1 DEF IsOpen
  <2>. QED
    BY <1>a, <1>b, <1>f, <2>1, <2>2 DEF SameState, SameRequest, SamePublisher
<1>3. ASSUME NEW a \in Peers, NEW n \in Nat \ {0}, AsksMore(a, n)
      PROVE  DemandInv(p)'
  <2>1. Uses(a) /\ SamePublisher(a)
    BY <1>0, <1>3, CallsUse DEF AsksMore
  <2>2. CASE a = q
    BY <1>0, <1>3, <1>e, <2>1, <2>2 DEF AsksMore, Only, SamePublisher
  <2>3. CASE a = p
    <3>1. PICK t \in Seq(Frames) : t = <<RequestNFrame(n)>> /\ Weigh(DemandWeight, t) = n
      BY FramesType, DemandOfFrames
    <3>2. /\ demand'[p] = demand[p] + n /\ phase'[p] = phase[p] /\ pipe'[q] = After(pipe[q], t)
      BY <1>0, <1>3, <2>3, <3>1 DEF AsksMore, Sends, SameState, q
    <3>3. /\ credit'[q] = credit[q] /\ (alive => live) /\ Held(p)' = Held(p) /\ told
      BY <1>f, <2>1, <2>3, <3>2
    <3>4. Held(p)' + Weigh(DemandWeight, t) + demand[p] = Held(p) + demand'[p] /\ demand[p] <= demand'[p]
      BY <1>a, <1>b, <3>1, <3>2, <3>3
    <3>. QED
      BY <1>g, <3>1, <3>2, <3>3, <3>4, DemandSent
  <2>. QED
    BY <1>0, <2>2, <2>3
<1>4. ASSUME NEW a \in Peers, NEW items \in {0, 1}, NEW complete \in BOOLEAN, NEW frames \in Seq(Frames),
             Publishes(a, items, complete, frames)
      PROVE  DemandInv(p)'
  <2>1. Uses(a)
    BY <1>0, <1>4, CallsUse
  <2>2. CASE a = q
    BY <1>0, <1>4, <1>e, <2>1, <2>2 DEF Publishes, Only
  <2>3. CASE a = p
    <3>1. Weigh(DemandWeight, frames) = 0
      BY <1>4, DemandOfFrames DEF Publishes
    <3>2. /\ demand'[p] = demand[p] /\ phase'[p] = phase[p] /\ pipe'[q] = After(pipe[q], frames)
      BY <1>0, <1>4, <2>3 DEF Publishes, Sends, SameSubscriber, q
    <3>3. /\ credit'[q] = credit[q] /\ (alive => live) /\ Held(p)' = Held(p) /\ told
      BY <1>f, <2>1, <2>3, <3>2
    <3>. QED
      BY <1>d, <3>1, <3>2, <3>3
  <2>. QED
    BY <1>0, <2>2, <2>3
<1>5. ASSUME NEW a \in Peers, NEW frames \in Seq(Frames), Leaves(a, frames)
      PROVE  DemandInv(p)'
  <2>1. Uses(a)
    BY <1>0, <1>5, CallsUse
  <2>2. CASE a = q
    BY <1>0, <1>5, <1>e, <2>1, <2>2 DEF Leaves, Only
  <2>3. CASE a = p
    <3>1. Weigh(DemandWeight, frames) = 0
      BY <1>5, DemandOfFrames DEF Leaves
    <3>3. demand'[p] = demand[p]
      BY <1>5, <2>3 DEF Leaves
    <3>4. phase'[p] = phase[p] \/ phase'[p] = "failed"
      BY <1>5, <2>3 DEF Leaves
    <3>5. /\ credit'[q] = credit[q] /\ (alive => live) /\ Held(p)' = Held(p) /\ told
      BY <1>f, <2>1, <2>3, <3>4
    <3>. QED
      BY <1>0, <1>5, <1>d, <2>3, <3>1, <3>3, <3>5 DEF Leaves, Sends, q
  <2>. QED
    BY <1>0, <2>2, <2>3
<1>6. ASSUME CancelsInbound
      PROVE  DemandInv(p)'
  <2>1. Uses(Responder)
    BY <1>0, <1>6, CallsUse
  <2>2. CASE q = Responder
    BY <1>0, <1>6, <1>e, <2>1, <2>2 DEF CancelsInbound, Only, SamePublisher
  <2>3. CASE p = Responder
    <3>1. PICK t \in Seq(Frames) : t = <<CancelFrame>> /\ Weigh(DemandWeight, t) = 0
      BY FramesType, DemandOfFrames
    <3>2. /\ demand'[p] = demand[p] /\ phase'[p] = phase[p] /\ pipe'[q] = After(pipe[q], t)
      BY <1>0, <1>6, <2>3, <3>1 DEF CancelsInbound, Sends, q
    <3>3. /\ credit'[q] = credit[q] /\ (alive => live) /\ Held(p)' = Held(p) /\ told
      BY <1>f, <2>1, <2>3, <3>2
    <3>. QED
      BY <1>d, <3>1, <3>2, <3>3
  <2>. QED
    BY <1>0, <2>2, <2>3, Ends
<1>7. ASSUME Drops(p) \/ TakesFragment(p) \/ TakesPayload(p) \/ TakesDemand(p) \/ TakesEnd(p)
             \/ (p = Requester /\ TakesCancel)
      PROVE  DemandInv(p)'
  <2>1. Receives(p)
    BY <1>7, FramesReceived, Zenon
  <2>2. demand'[p] = demand[p] /\ (phase[p] \in {"none", "assembling"} => credit'[p] = credit[p])
    BY <1>0, <1>7 DEF Drops, TakesFragment, TakesPayload, TakesDemand, TakesEnd, IsEnded, TakesCancel,
                      SameSubscriber, SamePublisher, HasReceiver
  <2>3. /\ SameState(q) /\ SameRequest(q) /\ SameRequest(p) /\ SamePublisher(q) /\ connected' = connected
        /\ (inboundDone[p] => inboundDone'[p]) /\ phase'[p] = phase[p] /\ pipe'[q] = pipe[q]
    BY <1>0, <2>1 DEF Receives, Only, Progresses
  <2>4. (IsOpen' <=> IsOpen)
    BY <2>3 DEF IsOpen
  <2>5. /\ credit'[q] = credit[q] /\ (alive => live) /\ Held(p)' = Held(p) /\ told
    BY <1>a, <1>b, <2>2, <2>3, <2>4 DEF SameState, SameRequest, SamePublisher
  <2>. QED
    BY <1>c, <2>2, <2>3, <2>5
<1>8. ASSUME Drops(q) \/ TakesFragment(q) \/ TakesPayload(q) \/ TakesDemand(q) \/ TakesEnd(q)
             \/ (q = Requester /\ TakesCancel)
      PROVE  DemandInv(p)'
  <2>1. Receives(q)
    BY <1>0, <1>8, FramesReceived, Zenon
  <2>2. demand'[p] = demand[p] /\ SamePublisher(p)
    BY <1>0, <2>1, <1>8 DEF Drops, TakesFragment, TakesPayload, TakesDemand, TakesEnd, TakesCancel,
                            TakesFrame, Only, SameSubscriber
  <2>3. /\ SameState(p) /\ SameRequest(q) /\ SameRequest(p) /\ connected' = connected
        /\ (outboundDone[q] => outboundDone'[q]) /\ phase'[q] = phase[q] /\ pipe[q] # <<>> /\ pipe'[q] = Tail(pipe[q])
    BY <1>0, <2>1 DEF Receives, Only, Progresses
  <2>4. (IsOpen' <=> IsOpen)
    BY <2>3 DEF IsOpen
  <2>5. /\ (alive => live) /\ Held(p)' = Held(p) /\ told
    BY <1>a, <1>b, <2>2, <2>3, <2>4 DEF SameState, SameRequest, SamePublisher
  <2>6. PICK h \in Nat, c \in Nat : h = Held(p) /\ c = credit[q]
    BY <1>a, <1>b
  <2>7. PICK d \in Nat : d = Demand(Head(pipe[q]))
    <3>1. Head(pipe[q]) \in Frames
      BY <1>a, <2>3, TailFacts
    <3>. QED
      BY <3>1, WeightsOfFrames
  <2>8. CASE credit'[q] = c + d
    <3>1. credit'[q] + Held(p)' = credit[q] + Held(p) + Demand(Head(pipe[q]))
      BY <2>5, <2>6, <2>7, <2>8
    <3>. QED
      BY <1>g, <2>2, <2>3, <2>5, <3>1, DemandTaken
  <2>9. CASE credit'[q] = c /\ ~alive
    <3>1. Weigh(DemandWeight, pipe'[q]) <= Weigh(DemandWeight, pipe[q])
      <4>1. PICK s \in Seq(Frames) : s = pipe[q] /\ s # <<>>
        BY <1>a, <2>3
      <4>2. PICK x \in Nat, y \in Nat : x = DemandWeight[Head(s)] /\ y = Weigh(DemandWeight, Tail(s))
        BY <4>1, TakenWeight, WeightsOfFrames
      <4>3. Weigh(DemandWeight, s) = x + y
        BY <4>1, <4>2, TakenWeight, WeightsOfFrames, Zenon
      <4>4. y <= x + y
        OBVIOUS
      <4>. QED
        BY <2>3, <4>1, <4>2, <4>3, <4>4, Zenon
    <3>. QED
      BY <1>0, <2>2, <2>5, <2>6, <2>9, <3>1, DemandLost, Zenon DEF q
  <2>10. CASE Drops(q)
    <3>1. ~registered[q] /\ SameState(q) /\ SamePublisher(q) /\ Head(pipe[q]).type # "REQUEST_CHANNEL"
      BY <2>10 DEF Drops
    <3>2. BothDone(q) \/ phase[q] \in {"new", "none", "rejected"}
      BY <1>0, <2>3, <3>1, Arriving
    <3>3. phase[q] # "new" /\ phase[q] # "none"
      BY <1>0, <2>3, <3>1, Types, Ends DEF PhaseInv, RequestInv
    <3>4. ~alive
      BY <2>5, <3>2, <3>3 DEF BothDone
    <3>. QED
      BY <2>6, <2>9, <3>1, <3>4 DEF SamePublisher
  <2>11. CASE TakesDemand(q)
    <3>1. d = Head(pipe[q]).requestN
      BY <2>7, <2>11 DEF TakesDemand, Demand
    <3>2. CASE q = Requester /\ outboundDone[q]
      <4>1. credit'[q] = c /\ ~alive
        BY <2>6, <2>11, <2>5, <3>2 DEF TakesDemand
      <4>. QED
        BY <2>9, <4>1
    <3>3. CASE ~(q = Requester /\ outboundDone[q])
      <4>1. credit'[q] = c + d
        BY <2>6, <2>11, <3>1, <3>3 DEF TakesDemand
      <4>. QED
        BY <2>8, <4>1
    <3>. QED
      BY <3>2, <3>3
  <2>12. CASE TakesFragment(q) \/ TakesPayload(q) \/ TakesEnd(q) \/ (q = Requester /\ TakesCancel)
    <3>1. d = 0 /\ credit'[q] = c
      BY <1>0, <2>6, <2>7, <2>12 DEF TakesFragment, TakesPayload, TakesEnd, IsEnded, TakesCancel, SamePublisher, Demand
    <3>. QED
      BY <2>8, <3>1
  <2>. QED
    BY <1>8, <2>10, <2>11, <2>12
<1>9. ASSUME NEW a \in Peers, Closes(a)
      PROVE  DemandInv(p)'
  <2>1. ~IsOpen'
    BY <1>0, <1>9, Ends DEF Closes, IsOpen
  <2>2. /\ credit'[q] = credit[q] /\ credit'[p] = credit[p] /\ demand'[p] = demand[p]
        /\ phase'[p] = phase[p] /\ phase'[q] = phase[q]
        /\ initialRequestN'[p] = initialRequestN[p] /\ initialRequestN'[q] = initialRequestN[q]
        /\ pipe'[q] = <<>> \/ pipe'[q] = pipe[q]
    <3>1. CASE a = p
      BY <1>0, <1>9, <3>1 DEF Closes, IsEnded, Only, SameState, SameRequest, SameSubscriber, SamePublisher
    <3>2. CASE a = q
      BY <1>0, <1>9, <3>2 DEF Closes, IsEnded, Only, SameState, SameRequest, SameSubscriber, SamePublisher
    <3>. QED
      BY <1>0, <3>1, <3>2
  <2>3. Held(p)' = Held(p) /\ told
    BY <1>a, <1>b, <2>2
  <2>4. Weigh(DemandWeight, pipe'[q]) <= Weigh(DemandWeight, pipe[q])
    <3>1. PICK w \in Nat : w = Weigh(DemandWeight, pipe[q])
      BY <1>a, WeighType, WeightsOfFrames
    <3>. QED
      BY <2>2, <3>1, DemandOfFrames
  <2>. QED
    BY <1>g, <2>1, <2>2, <2>3, <2>4, DemandLost
<1>10. ASSUME NEW n \in Nat, NEW complete \in BOOLEAN, CallsHandler(n, complete)
       PROVE  DemandInv(p)'
  <2>1. PICK h : h = Head(pipe[Responder])
    OBVIOUS
  <2>2. /\ pipe[Responder] # <<>> /\ Only(Responder) /\ connected' = connected /\ SameRequest(Responder)
        /\ \/ h.type = "REQUEST_CHANNEL" /\ n = h.requestN
           \/ h.type = "PAYLOAD" /\ phase[Responder] = "assembling" /\ n = initialRequestN[Responder]
        /\ phase'[Responder] = "handler"
        /\ outboundDone'[Responder] = outboundDone[Responder]
        /\ demand'[Responder] = demand[Responder] /\ credit'[Responder] = n
    BY <1>10, <2>1 DEF CallsHandler, TakesFrame, Takes
  <2>3. /\ phase[Requester] = "ready" /\ ~inboundDone[Responder]
        /\ h.type = "REQUEST_CHANNEL" => phase[Responder] = "none"
        /\ phase[Responder] \in {"none", "assembling"}
    BY <2>1, <2>2, RequestArrives
  <2>4. /\ pipe'[Responder] = Tail(pipe[Responder]) /\ pipe'[Requester] = pipe[Requester]
    BY <1>0, <1>10, AfterNothing DEF CallsHandler, TakesFrame, Takes
  <2>5. (IsOpen' <=> IsOpen)
    BY <2>2 DEF IsOpen
  <2>6. CASE p = Responder
    <3>1. demand'[p] = demand[p] /\ told /\ credit'[q] = credit[q] /\ (alive => live) /\ pipe'[q] = pipe[q]
      BY <1>0, <2>2, <2>3, <2>4, <2>5, <2>6 DEF Only, SamePublisher, SameState
    <3>. QED
      BY <1>b, <1>c, <2>6, <3>1
  <2>7. CASE p = Requester
    <3>1. /\ demand'[p] = demand[p] /\ told /\ (alive => live) /\ phase'[p] = "ready" /\ credit[q] = 0
          /\ pipe[q] # <<>> /\ pipe'[q] = Tail(pipe[q]) /\ credit'[q] = n
      BY <1>0, <1>a, <2>2, <2>3, <2>4, <2>5, <2>7 DEF Only, SameSubscriber, SameState
    <3>2. Held(p)' = 0
      BY <1>0, <1>b, <2>2, <2>7, <3>1
    <3>3. Held(p) + Demand(h) = n
      <4>1. CASE h.type = "REQUEST_CHANNEL"
        <5>1. Held(p) = 0
          BY <1>0, <1>b, <2>3, <2>7, <4>1
        <5>2. Demand(h) = n
          BY <2>2, <4>1 DEF Demand
        <5>. QED
          BY <5>1, <5>2
      <4>2. CASE h.type = "PAYLOAD" /\ phase[Responder] = "assembling" /\ n = initialRequestN[Responder]
        <5>1. Held(p) = n
          BY <1>0, <2>3, <2>7, <4>2 DEF Held
        <5>2. Demand(h) = 0
          BY <4>2 DEF Demand
        <5>. QED
          BY <5>1, <5>2
      <4>. QED
        BY <2>2, <4>1, <4>2
    <3>4. h = Head(pipe[q])
      BY <1>0, <2>1, <2>7
    <3>5. PICK x \in Nat : x = Held(p)
      BY <1>b
    <3>6. PICK d \in Nat : d = Demand(h)
      <4>1. h \in Frames
        BY <1>a, <3>1, <3>4, TailFacts
      <4>. QED
        BY <4>1, WeightsOfFrames
    <3>7. credit'[q] + Held(p)' = credit[q] + Held(p) + Demand(Head(pipe[q]))
      <4>1. n + 0 = 0 + x + d
        BY <3>3, <3>5, <3>6
      <4>. QED
        BY <3>1, <3>2, <3>4, <3>5, <3>6, <4>1, Zenon
    <3>. QED
      BY <1>g, <3>1, <3>7, DemandTaken
  <2>. QED
    BY <2>6, <2>7, Ends
<1>11. ASSUME TakesFirstFragment
       PROVE  DemandInv(p)'
  <2>1. PICK h : h = Head(pipe[Responder])
    OBVIOUS
  <2>2. /\ pipe[Responder] # <<>> /\ Only(Responder) /\ connected' = connected
        /\ SameSubscriber(Responder) /\ SamePublisher(Responder)
        /\ h.type = "REQUEST_CHANNEL" /\ phase'[Responder] = "assembling"
        /\ initialRequestN'[Responder] = h.requestN
        /\ inboundDone'[Responder] = inboundDone[Responder] /\ outboundDone'[Responder] = outboundDone[Responder]
    BY <1>11, <2>1 DEF TakesFirstFragment, TakesFrame, Takes
  <2>3. phase[Requester] = "ready" /\ phase[Responder] = "none"
    BY <2>1, <2>2, RequestArrives
  <2>4. /\ pipe'[Responder] = Tail(pipe[Responder]) /\ pipe'[Requester] = pipe[Requester]
    BY <1>0, <1>11, AfterNothing DEF TakesFirstFragment, TakesFrame, Takes
  <2>5. (IsOpen' <=> IsOpen)
    BY <2>2 DEF IsOpen
  <2>6. CASE p = Responder
    <3>1. demand'[p] = demand[p] /\ told /\ credit'[q] = credit[q] /\ (alive => live) /\ pipe'[q] = pipe[q]
      BY <1>0, <1>a, <2>2, <2>3, <2>4, <2>5, <2>6 DEF Only, SameSubscriber, SamePublisher, SameState
    <3>. QED
      BY <1>b, <1>c, <2>6, <3>1
  <2>7. CASE p = Requester
    <3>1. /\ demand'[p] = demand[p] /\ told /\ (alive => live) /\ phase'[p] = "ready"
          /\ pipe[q] # <<>> /\ pipe'[q] = Tail(pipe[q]) /\ credit'[q] = credit[q]
      BY <1>0, <2>2, <2>3, <2>4, <2>5, <2>7 DEF Only, SameSubscriber, SamePublisher, SameState
    <3>2. Held(p) = 0
      BY <1>0, <1>b, <2>3, <2>7
    <3>3. h = Head(pipe[q])
      BY <1>0, <2>1, <2>7
    <3>4. PICK d \in Nat : d = Demand(h)
      <4>1. h \in Frames
        BY <1>a, <3>1, <3>3, TailFacts
      <4>. QED
        BY <4>1, WeightsOfFrames
    <3>5. Held(p)' = d
      <4>1. d = h.requestN
        BY <2>2, <3>4 DEF Demand
      <4>. QED
        BY <1>0, <2>2, <2>7, <3>1, <4>1 DEF Held
    <3>6. credit'[q] + Held(p)' = credit[q] + Held(p) + Demand(Head(pipe[q]))
      <4>1. credit[q] + d = credit[q] + 0 + d
        BY <1>a
      <4>. QED
        BY <3>1, <3>2, <3>3, <3>4, <3>5, <4>1, Zenon
    <3>. QED
      BY <1>g, <3>1, <3>6, DemandTaken
  <2>. QED
    BY <2>6, <2>7, Ends
<1>12. ASSUME Rejects
       PROVE  DemandInv(p)'
  <2>1. /\ Only(Responder) /\ connected' = connected /\ SameSubscriber(Responder) /\ SamePublisher(Responder)
        /\ SameRequest(Responder)
        /\ phase'[Responder] = "rejected" /\ pipe[Responder] # <<>> /\ Head(pipe[Responder]).type = "REQUEST_CHANNEL"
        /\ inboundDone'[Responder] = inboundDone[Responder]
        /\ outboundDone'[Responder] = outboundDone[Responder]
        /\ pipe'[Responder] = Tail(pipe[Responder])
        /\ pipe'[Requester] = After(pipe[Requester], <<ErrorFrame>>)
    BY <1>12 DEF Rejects, Takes
  <2>2. phase[Responder] = "none"
    BY <2>1, RequestArrives
  <2>3. (IsOpen' <=> IsOpen)
    BY <2>1 DEF IsOpen
  <2>4. CASE p = Responder
    <3>1. PICK t \in Seq(Frames) : t = <<ErrorFrame>> /\ Weigh(DemandWeight, t) = 0
      BY FramesType, DemandOfFrames
    <3>2. /\ demand'[p] = demand[p] /\ told /\ credit'[q] = credit[q] /\ (alive => live)
          /\ pipe'[q] = After(pipe[q], t)
      BY <1>0, <2>1, <2>3, <2>4, <3>1 DEF Only, SameSubscriber, SamePublisher, SameState
    <3>3. Held(p)' = Held(p)
      BY <1>b, <2>4
    <3>. QED
      BY <1>d, <3>1, <3>2, <3>3
  <2>5. CASE p = Requester
    <3>1. /\ demand'[p] = demand[p] /\ told /\ credit'[q] = credit[q] /\ ~alive /\ Held(p)' = Held(p)
          /\ pipe[q] # <<>> /\ pipe'[q] = Tail(pipe[q])
      BY <1>0, <1>b, <2>1, <2>2, <2>5 DEF Only, SameSubscriber, SamePublisher, SameState, SameRequest
    <3>2. Weigh(DemandWeight, pipe'[q]) <= Weigh(DemandWeight, pipe[q])
      <4>1. PICK s \in Seq(Frames) : s = pipe[q] /\ s # <<>>
        BY <1>a, <3>1
      <4>2. PICK x \in Nat, y \in Nat : x = DemandWeight[Head(s)] /\ y = Weigh(DemandWeight, Tail(s))
        BY <4>1, TakenWeight, WeightsOfFrames
      <4>3. Weigh(DemandWeight, s) = x + y
        BY <4>1, <4>2, TakenWeight, WeightsOfFrames, Zenon
      <4>4. y <= x + y
        OBVIOUS
      <4>. QED
        BY <3>1, <4>1, <4>2, <4>3, <4>4, Zenon
    <3>. QED
      BY <1>g, <3>1, <3>2, DemandLost
  <2>. QED
    BY <2>4, <2>5, Ends
<1>13. ASSUME Returns
       PROVE  DemandInv(p)'
  <2>1. /\ Only(Responder) /\ pipe' = pipe /\ connected' = connected /\ SamePublisher(Responder)
        /\ phase[Responder] = "handler" /\ phase'[Responder] = "ready" /\ SameRequest(Responder)
        /\ inboundDone'[Responder] = inboundDone[Responder] /\ outboundDone'[Responder] = outboundDone[Responder]
        /\ demand'[Responder] = demand[Responder]
    BY <1>13 DEF Returns
  <2>2. (IsOpen' <=> IsOpen)
    BY <2>1 DEF IsOpen
  <2>3. CASE p = Responder
    BY <1>0, <1>b, <1>c, <2>1, <2>2, <2>3 DEF Only, SamePublisher, SameState
  <2>4. CASE p = Requester
    BY <1>0, <1>b, <1>c, <2>1, <2>2, <2>4 DEF Only, SamePublisher, SameState, SameRequest, SameSubscriber
  <2>. QED
    BY <2>3, <2>4, Ends
<1>14. ASSUME NEW a \in Peers, Drops(a) \/ TakesFragment(a) \/ TakesPayload(a) \/ TakesDemand(a)
                                \/ TakesEnd(a) \/ (a = Requester /\ TakesCancel)
       PROVE  DemandInv(p)'
  <2>1. CASE a = p
    BY <1>14, <1>7, <2>1, Zenon
  <2>2. CASE a = q
    BY <1>14, <1>8, <2>2, Zenon
  <2>. QED
    BY <1>0, <2>1, <2>2
<1>. QED
  BY <1>1, <1>2, <1>3, <1>4, <1>5, <1>6, <1>9, <1>10, <1>11, <1>12, <1>13, <1>14, Zenon DEF Effect
\* A subscriber that was told s was told of a completion or of an error.
LEMMA ToldOccurs ==
  ASSUME NEW s \in Seq(Signals), Told(s)
  PROVE  Occurrences(s, "complete") + Occurrences(s, "error") > 0
<1>1. PICK m \in Nat : m = Len(s) /\ DOMAIN s = 1 .. m
  BY LenProperties
<1>2. m # 0 /\ m \in DOMAIN s /\ s[m] \in Signals /\ s[m] # "next"
  <2>1. m # 0
    BY <1>1, EmptySeq DEF Told
  <2>2. m \in DOMAIN s
    BY <1>1, <2>1
  <2>. QED
    BY <1>1, <2>1, <2>2, ElementOfSeq DEF Told
<1>3. ASSUME NEW x, s[m] = x
      PROVE  Occurrences(s, x) # 0
  <2>1. PICK I : I = {i \in DOMAIN s : s[i] = x}
    OBVIOUS
  <2>2. IsFiniteSet(I) /\ m \in I
    BY <1>2, <1>3, <2>1, OccurrencesType
  <2>3. Cardinality(I) # 0
    BY <2>2, FS_EmptySet
  <2>. QED
    BY <2>1, <2>3 DEF Occurrences
<1>4. PICK a \in Nat, b \in Nat : a = Occurrences(s, "complete") /\ b = Occurrences(s, "error")
  BY OccurrencesType
<1>5. a # 0 \/ b # 0
  <2>1. s[m] = "complete" \/ s[m] = "error"
    BY <1>2 DEF Signals
  <2>. QED
    BY <1>3, <1>4, <2>1
<1>6. a + b > 0
  BY <1>5
<1>. QED
  BY <1>4, <1>6, Zenon

\* A channel begins with nothing on its way and nothing said.
LEMMA InitInv == Init => IInv
<1>1. SUFFICES ASSUME Init PROVE IInv
  OBVIOUS
<1>. USE BothEnds
<1>2. PICK n \in Nat \ {0} :
        initialRequestN = [p \in Peers |-> IF p = Requester THEN n ELSE 0]
  <2>1. 1 .. MaxDemand[Requester] \subseteq Nat \ {0}
    BY ChannelAssumption
  <2>. QED
    BY <1>1, <2>1 DEF Init
<1>3. PICK complete \in BOOLEAN : isComplete = [p \in Peers |-> p = Requester /\ complete]
  BY <1>1 DEF Init
<1>4. /\ phase = [p \in Peers |-> IF p = Requester THEN "new" ELSE "none"]
      /\ registered = [p \in Peers |-> FALSE] /\ inboundDone = [p \in Peers |-> FALSE]
      /\ outboundDone = [p \in Peers |-> FALSE] /\ hasFragments = [p \in Peers |-> FALSE]
      /\ assembled = FALSE /\ deferredError = FALSE /\ connected = [p \in Peers |-> TRUE]
      /\ pipe = [p \in Peers |-> <<>>] /\ signals = [p \in Peers |-> <<>>]
      /\ demand = initialRequestN /\ cancelled = [p \in Peers |-> FALSE]
      /\ credit = [p \in Peers |-> 0] /\ published = [p \in Peers |-> 0]
      /\ ended = isComplete /\ cancels = [p \in Peers |-> 0]
  BY <1>1 DEF Init
<1>5. Typed
  <2>1. <<>> \in Seq(Frames) /\ <<>> \in Seq(Signals) /\ 0 \in Nat
    OBVIOUS
  <2>2. pipe \in [Peers -> Seq(Frames)] /\ signals \in [Peers -> Seq(Signals)]
    BY <1>4, <2>1
  <2>3. initialRequestN \in [Peers -> Nat] /\ isComplete \in [Peers -> BOOLEAN]
    BY <1>2, <1>3
  <2>4. phase \in [Peers -> Phases] /\ phase[Requester] = "new" /\ phase[Responder] = "none"
    BY <1>4 DEF Phases
  <2>. QED
    BY <1>4, <2>2, <2>3, <2>4, Types
<1>6. ASSUME NEW p \in Peers
      PROVE  /\ pipe[p] = <<>> /\ signals[p] = <<>> /\ connected[p] /\ ~registered[p]
             /\ ~inboundDone[p] /\ ~outboundDone[p] /\ ~hasFragments[p] /\ ~cancelled[p]
             /\ credit[p] = 0 /\ published[p] = 0 /\ cancels[p] = 0 /\ ended[p] = isComplete[p]
             /\ demand[p] = initialRequestN[p]
  BY <1>2, <1>3, <1>4
<1>7. /\ phase[Requester] = "new" /\ phase[Responder] = "none" /\ ~isComplete[Responder]
      /\ initialRequestN[Requester] = n /\ initialRequestN[Responder] = 0
  BY <1>2, <1>3, <1>4
<1>8. PhaseInv /\ RegisteredWhileOpen /\ DeferredInv
  BY <1>4, <1>6, <1>7 DEF PhaseInv, RegisteredWhileOpen, BothDone, DeferredInv
<1>9. Range(<<>>) = {} /\ Len(<<>>) = 0
  BY SingleFacts
<1>10. RequestInv
  BY <1>6, <1>7, <1>9 DEF RequestInv
<1>11. ASSUME NEW p \in Peers
       PROVE  FragmentsInv(p) /\ EndsInv(p) /\ SignalsInv(p) /\ PublisherInv(p)
  <2>1. Paired(<<>>) /\ Ordered(p, <<>>) /\ ~Told(<<>>) /\ Given(<<>>)
    <3>1. Sendable(<<>>)
      BY SingleFrames
    <3>. QED
      BY <3>1, GivenSignals DEF Sendable
  <2>2. FragmentsInv(p)
    BY <1>6, <1>7, <2>1 DEF FragmentsInv
  <2>3. Other(p) \in Peers
    BY Ends
  <2>4. EndsInv(p)
    BY <1>6, <1>7, <1>9, <2>3 DEF EndsInv
  <2>5. SignalsInv(p)
    BY <1>6, <2>1 DEF SignalsInv, Given
  <2>6. PublisherInv(p)
    BY <1>6, <1>7, Ends DEF PublisherInv
  <2>. QED
    BY <2>2, <2>4, <2>5, <2>6
<1>12. ASSUME NEW p \in Peers
       PROVE  ItemsInv(p) /\ DemandInv(p)
  <2>1. Weigh(ItemWeight, <<>>) = 0 /\ Weigh(DemandWeight, <<>>) = 0
    BY WeighEmpty
  <2>2. Other(p) \in Peers /\ pipe[p] = <<>> /\ pipe[Other(p)] = <<>>
    BY <1>6, Ends
  <2>3. Count(p, "next") = 0 /\ Count(p, "complete") = 0
    <3>1. PICK s \in Seq(Signals) : s = <<>> /\ Len(s) = 0
      BY SignalsType, <1>9
    <3>2. \A i \in 1 .. Len(s) : s[i] # "next" /\ s[i] # "complete"
      BY <3>1
    <3>3. Occurrences(s, "next") = 0 /\ Occurrences(s, "complete") = 0
      BY <3>2, OccurrencesNone
    <3>4. signals[p] = s
      BY <1>6, <3>1
    <3>. QED
      BY <3>3, <3>4, Zenon DEF Count
  <2>4. Extra(p) = 0
    BY <1>7, <2>2, Ends DEF Extra
  <2>5. ItemsInv(p)
    BY <1>6, <2>1, <2>2, <2>3, <2>4 DEF ItemsInv
  <2>6. Held(p) = demand[p] /\ demand[p] \in Nat
    BY <1>2, <1>6, <1>7, Ends DEF Held
  <2>7. Asked(p) = demand[p]
    <3>1. credit[Other(p)] = 0 /\ Weigh(DemandWeight, pipe[Other(p)]) = 0
      BY <1>6, <2>1, <2>2
    <3>. QED
      BY <2>6, <3>1 DEF Asked
  <2>. QED
    BY <1>6, <2>5, <2>6, <2>7 DEF DemandInv
<1>. QED
  BY <1>5, <1>8, <1>10, <1>11, <1>12 DEF IInv

\* Every step keeps the invariant.
LEMMA NextInv == IInv /\ [Next]_vars => IInv'
<1>1. ASSUME IInv, Next PROVE IInv'
  <2>1. Typed' /\ Effect
    BY <1>1, StepEffect DEF IInv, PhaseInv
  <2>2. PhaseInv' /\ RegisteredWhileOpen' /\ RequestInv' /\ DeferredInv'
    BY <1>1, <2>1, PhaseStep, RequestStep, DeferredStep
  <2>3. ASSUME NEW p \in Peers
        PROVE  FragmentsInv(p)' /\ EndsInv(p)' /\ SignalsInv(p)' /\ PublisherInv(p)' /\ ItemsInv(p)' /\ DemandInv(p)'
    BY <1>1, <2>1, FragmentsStep, EndsStep, SignalsStep, PublisherStep, ItemsStep, DemandStep
  <2>. QED
    BY <2>1, <2>2, <2>3 DEF IInv
<1>2. ASSUME IInv, UNCHANGED vars PROVE IInv'
  <2>1. /\ phase' = phase /\ assembled' = assembled /\ deferredError' = deferredError
        /\ registered' = registered /\ inboundDone' = inboundDone /\ outboundDone' = outboundDone
        /\ initialRequestN' = initialRequestN /\ isComplete' = isComplete /\ hasFragments' = hasFragments
        /\ connected' = connected /\ pipe' = pipe /\ signals' = signals /\ demand' = demand
        /\ cancelled' = cancelled /\ credit' = credit /\ published' = published /\ ended' = ended
        /\ cancels' = cancels
    BY <1>2 DEF vars, phaseVars, doneVars, requestVars, subscriberVars, publisherVars
  <2>2. Typed'
    BY <1>2, <2>1 DEF IInv, Typed, TypeOK
  <2>3. PhaseInv' /\ RegisteredWhileOpen' /\ DeferredInv'
    BY <1>2, <2>1 DEF IInv, PhaseInv, RegisteredWhileOpen, DeferredInv, BothDone
  <2>4. RequestInv'
    BY <1>2, <2>1 DEF IInv, RequestInv, IsOpen
  <2>5. ASSUME NEW p \in Peers
        PROVE  FragmentsInv(p)' /\ SignalsInv(p)' /\ PublisherInv(p)'
    BY <1>2, <2>1 DEF IInv, FragmentsInv, SignalsInv, PublisherInv, BothDone
  <2>6. ASSUME NEW p \in Peers
        PROVE  EndsInv(p)'
    BY <1>2, <2>1 DEF IInv, EndsInv, BothDone, IsOpen
  <2>7. ASSUME NEW p \in Peers
        PROVE  ItemsInv(p)' /\ DemandInv(p)'
    BY <1>2, <2>1 DEF IInv, ItemsInv, DemandInv, Asked, Held, Extra, Count, BothDone, IsOpen
  <2>. QED
    BY <2>2, <2>3, <2>4, <2>5, <2>6, <2>7 DEF IInv
<1>. QED
  BY <1>1, <1>2

\* The invariant holds in every state of every behaviour.
LEMMA Invariant == Spec => []IInv
BY InitInv, NextInv, PTL DEF Spec

-----------------------------------------------------------------------------
(* What the invariant says. *)

\* Every variable keeps its type, whatever frames and calls cross.
THEOREM ChannelTypeCorrect == Spec => []TypeOK
<1>1. IInv => TypeOK
  BY DEF IInv, Typed
<1>. QED
  BY <1>1, Invariant, PTL

\* While its connection is up, the multiplexer of an end holds the stream in
\* its registry exactly while a direction of it is open; and when nothing is
\* on its way the two ends agree on which directions are.
THEOREM RegistryAgreesCorrect == Spec => []RegistryAgrees
<1>1. IInv => RegistryAgrees
  <2>1. SUFFICES ASSUME IInv PROVE RegistryAgrees
    OBVIOUS
  <2>2. ASSUME \A p \in Peers : HasReceiver(p) /\ connected[p] /\ pipe[p] = <<>>
        PROVE  \A p \in Peers : inboundDone[p] = outboundDone[Other(p)]
    <3>1. SUFFICES ASSUME NEW p \in Peers
                   PROVE  inboundDone[p] = outboundDone[Other(p)]
      OBVIOUS
    <3>2. PICK q \in Peers : q = Other(p) /\ Other(q) = p
      BY Ends
    <3>3. IsOpen /\ phase[Requester] = "ready" /\ phase[Responder] = "ready"
      BY <2>2, BothEnds DEF IsOpen, HasReceiver
    <3>4. Range(pipe[p]) = {} /\ Range(pipe[q]) = {}
      BY <2>2, SingleFacts
    <3>5. outboundDone[q] => inboundDone[p]
      BY <2>1, <3>2, <3>3, <3>4 DEF IInv, EndsInv
    <3>6. inboundDone[p] => outboundDone[q]
      BY <2>1, <3>2, <3>3, <3>4 DEF IInv, EndsInv
    <3>7. inboundDone[p] \in BOOLEAN /\ outboundDone[q] \in BOOLEAN
      BY <2>1, Types DEF IInv
    <3>. QED
      BY <3>2, <3>5, <3>6, <3>7
  <2>. QED
    BY <2>1, <2>2 DEF IInv, RegistryAgrees, EndsAgree
<1>. QED
  BY <1>1, Invariant, PTL

\* A subscriber is given every item in its place and then one terminal signal,
\* of which it is told unless it cancelled; a publisher is cancelled at most
\* once, and never after it ended.
THEOREM ApplicationContractCorrect == Spec => []ApplicationContract
<1>1. IInv => ApplicationContract
  <2>1. SUFFICES ASSUME IInv PROVE ApplicationContract
    OBVIOUS
  <2>2. NothingAfterTerminal
    BY <2>1 DEF IInv, SignalsInv, NothingAfterTerminal
  <2>3. CompleteMeansAll
    BY <2>1, Zenon DEF IInv, ItemsInv, CompleteMeansAll
  <2>4. DoneIsSignalled
    <3>1. SUFFICES ASSUME NEW p \in Peers, inboundDone[p], HasReceiver(p), ~cancelled[p],
                          ~(p = Responder /\ assembled /\ deferredError)
                   PROVE  Terminated(p)
      BY DEF DoneIsSignalled
    <3>2. Told(signals[p])
      BY <2>1, <3>1 DEF IInv, SignalsInv, HasReceiver
    <3>3. PICK s \in Seq(Signals) : s = signals[p]
      BY <2>1, Types DEF IInv
    <3>4. Occurrences(s, "complete") + Occurrences(s, "error") > 0
      BY <3>2, <3>3, ToldOccurs
    <3>. QED
      BY <3>3, <3>4 DEF Terminated, Count
  <2>5. CancelledOnce
    BY <2>1 DEF IInv, PublisherInv, CancelledOnce
  <2>. QED
    BY <2>2, <2>3, <2>4, <2>5 DEF ApplicationContract
<1>. QED
  BY <1>1, Invariant, PTL

\* What a publisher was asked for, with what is on its way and what waits to be
\* sent or reassembled, is what the subscriber of the other end asked for while
\* the direction is open, and never more; and REQUEST_N finds a stream that
\* can take it.
THEOREM DemandConservedCorrect == Spec => []DemandConserved
<1>1. IInv => DemandConserved
  <2>1. SUFFICES ASSUME IInv PROVE DemandConserved
    OBVIOUS
  <2>2. ASSUME NEW p \in Peers
        PROVE  credit[Other(p)] + InFlight(Other(p)) + Held(p) = Asked(p)
    <3>1. PICK q \in Peers : q = Other(p)
      BY Ends
    <3>2. PICK s \in Seq(Frames) : s = pipe[q]
      BY <2>1, Types DEF IInv
    <3>3. \A i \in DOMAIN s : s[i] \in Frames
      BY ElementOfSeq, LenProperties
    <3>4. [i \in DOMAIN s |-> Demand(s[i])] = [i \in DOMAIN s |-> DemandWeight[s[i]]]
      BY <3>3 DEF DemandWeight
    <3>5. InFlight(q) = Weigh(DemandWeight, pipe[q])
      BY <3>2, <3>4 DEF InFlight, Weigh
    <3>. QED
      BY <3>1, <3>5, Zenon DEF Asked
  <2>3. DemandInFlightConserved
    <3>1. ASSUME NEW p \in Peers
          PROVE  /\ Asked(p) <= demand[p]
                 /\ connected[p] /\ connected[Other(p)] /\ ~inboundDone[p] /\ ~outboundDone[Other(p)]
                      /\ phase[Other(p)] # "rejected" => Asked(p) = demand[p]
      <4>1. connected[p] /\ connected[Other(p)] => IsOpen
        BY Ends DEF IsOpen
      <4>. QED
        BY <2>1, <4>1, Zenon DEF IInv, DemandInv
    <3>. QED
      BY <2>2, <3>1, Zenon DEF DemandInFlightConserved
  <2>4. NoUnexpectedFrame
    <3>1. SUFFICES ASSUME NEW p \in Peers, Routed(p, "REQUEST_N")
                   PROVE  HasReceiver(p) /\ ~hasFragments[p]
      BY DEF NoUnexpectedFrame
    <3>2. pipe[p] # <<>> /\ phase[p] # "handler" /\ registered[p] /\ Head(pipe[p]).type = "REQUEST_N"
      BY <3>1 DEF Routed, Received
    <3>3. connected[p]
      BY <2>1, <3>2 DEF IInv, PhaseInv
    <3>4. phase[p] \in {"ready", "assembling", "failed"} /\ ~BothDone(p)
      BY <2>1, <3>2, <3>3 DEF IInv, RegisteredWhileOpen
    <3>5. ~hasFragments[p]
      BY <2>1, <3>2, <3>3, <3>4 DEF IInv, FragmentsInv, Finishes
    <3>6. phase[p] # "assembling"
      BY <2>1, <3>3, <3>5 DEF IInv, FragmentsInv
    <3>7. phase[p] # "failed"
      BY <2>1, <3>4, Ends, Types DEF IInv, PhaseInv
    <3>. QED
      BY <3>4, <3>5, <3>6, <3>7 DEF HasReceiver
  <2>. QED
    BY <2>3, <2>4 DEF DemandConserved
<1>. QED
  BY <1>1, Invariant, PTL
=============================================================================
