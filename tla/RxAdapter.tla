----------------------------- MODULE RxAdapter -----------------------------
(***************************************************************************)
(* rsocket-adapter-rxjs between two peers: a source on one end, buffered   *)
(* until there is demand, and an observable with a prefetch on the other;  *)
(* for a channel both on each end.  The streams of the core are taken down *)
(* to what they tell the adapter, and frames stay in order.  Requests fit  *)
(* a frame; a handler subscribes to what it is given at once.              *)
(***************************************************************************)
EXTENDS Integers, Sequences, Sums

CONSTANT Cases   \* [kind, prefetch, items], items[p] the most the source of p emits

Requester == "requester"
Responder == "responder"
Peers == {Requester, Responder}
Other(p) == IF p = Requester THEN Responder ELSE Requester

ASSUME RxAdapterAssumption ==
  \A c \in Cases : /\ c.kind \in {"response", "stream", "channel"}
                   /\ c.prefetch \in Nat \ {0} /\ c.items \in [Peers -> Nat]

VARIABLES case, ends, net
vars == <<case, ends, net>>

\* The payloads after which a subscriber asks for as many again.
Limit == case.prefetch - (case.prefetch \div 4)

-----------------------------------------------------------------------------
\* An end: its source, the subscriber that buffers for it (Buffering), the
\* observable on the way in with its tasks (Prefetching), which directions of
\* the core's stream are open, and the frames it sends in this step.
Idle == [at |-> "idle", missed |-> 0, requested |-> 0, delivered |-> 0]

End(role, source, initialRequestN, in, out) ==
  [role |-> role, source |-> source, emitted |-> 0, ended |-> "no", waited |-> FALSE,
   requested |-> initialRequestN, buffer |-> <<>>, wip |-> 0, closed |-> FALSE, drain |-> Idle,
   observer |-> IF in THEN "open" ELSE "none", received |-> 0, items |-> <<>>, tasks |-> <<>>,
   in |-> in, out |-> out, sent |-> <<>>]

Absent == End(Responder, "none", 0, FALSE, FALSE)

Frame(type, n, complete) == [type |-> type, n |-> n, complete |-> complete]
Send(e, frame) == [e EXCEPT !.sent = Append(@, frame)]

\* A call of drain(): the first one starts the loop, one from inside only counts.
drain(e) ==
  IF e.wip > 0 THEN [e EXCEPT !.wip = @ + 1]
  ELSE [e EXCEPT !.wip = 1, !.drain = [at |-> "loop", missed |-> 1,
                                       requested |-> e.requested, delivered |-> 0]]

-----------------------------------------------------------------------------
\* What the core's stream does when the adapter calls it.  A requester that
\* cancels cancels both directions; only the stream of a channel has two.
coreCancel(e) ==
  IF e.role = Responder
  THEN IF e.in THEN Send([e EXCEPT !.in = FALSE], Frame("CANCEL", 0, FALSE)) ELSE e
  ELSE IF ~e.in /\ ~e.out THEN e
  ELSE LET shut == [e EXCEPT !.in = FALSE, !.out = FALSE]
           told == IF e.out /\ e.ended = "no" THEN drain(shut) ELSE shut
       IN Send(told, Frame(IF e.in THEN "CANCEL" ELSE "ERROR", 0, FALSE))

coreRequest(e, n) == IF e.in THEN Send(e, Frame("REQUEST_N", n, FALSE)) ELSE e

corePayload(e, item, complete) ==
  IF e.out THEN Send([e EXCEPT !.out = ~complete], Frame("PAYLOAD", item, complete)) ELSE e

\* An observer that ends is torn down: the observable cancels.
Ends(e, how) == IF e.observer = "open" THEN coreCancel([e EXCEPT !.observer = how]) ELSE e

coreError(e) ==
  IF ~e.out THEN e
  ELSE LET shut == Send([e EXCEPT !.in = FALSE, !.out = FALSE], Frame("ERROR", 0, FALSE))
       IN IF e.in THEN Ends(shut, "error") ELSE shut

-----------------------------------------------------------------------------
\* Buffering: what the core calls.
requestForgets(e, n) == drain([e EXCEPT !.requested = n])

requestWaits(e, n) ==
  LET more == [e EXCEPT !.requested = @ + n]
  IN IF e.wip = 0 /\ e.requested >= 0 THEN more ELSE drain(more)

request(e, n) ==
  LET more == [e EXCEPT !.requested = @ + n]
  IN IF e.wip = 0 /\ e.requested > 0 THEN more ELSE drain(more)

\* A subscriber of its own is a subscription of the source.  That of a channel
\* is none: its unsubscribe() cancels the other direction, and it never closes.
cancel(e) ==
  IF e.closed \/ e.ended # "no" THEN e
  ELSE IF case.kind = "channel" THEN drain(coreCancel(e))
  ELSE LET torn == [e EXCEPT !.closed = TRUE, !.source = "torn"]
       IN IF case.kind = "stream" THEN drain(torn) ELSE torn

\* One turn of the loop in drain(): an item, a terminal signal, or the end of a
\* round, after which the loop goes on if there were calls meanwhile.
EndOfRound(e) ==
  LET left == e.requested - e.drain.delivered
  IN IF e.drain.missed = e.wip
     THEN [e EXCEPT !.requested = left, !.wip = 0, !.drain = Idle]
     ELSE [e EXCEPT !.requested = left,
                    !.drain = [at |-> "loop", missed |-> e.wip, requested |-> left,
                               delivered |-> 0]]

Terminate(e) ==
  LET told == IF e.ended = "error" THEN coreError(e) ELSE corePayload(e, 0, TRUE)
  IN [told EXCEPT !.drain = Idle]

Turn(e) ==
  IF e.drain.delivered >= e.drain.requested THEN EndOfRound(e)
  ELSE IF e.buffer # <<>>
  THEN LET isTerminated == Len(e.buffer) = 1 /\ e.ended # "no"
           told == corePayload([e EXCEPT !.buffer = Tail(@)], Head(e.buffer), isTerminated)
       IN IF isTerminated THEN [told EXCEPT !.drain = Idle]
          ELSE [told EXCEPT !.drain.delivered = @ + 1, !.drain.at = "callback"]
  ELSE IF e.ended # "no" THEN Terminate(e)
  ELSE IF e.closed THEN [e EXCEPT !.drain = Idle]
  ELSE EndOfRound(e)

\* Buffering: what the source calls.  A response is passed on at once.
next(e) ==
  LET more == [e EXCEPT !.emitted = @ + 1]
  IN IF case.kind = "response"
     THEN corePayload([more EXCEPT !.source = "torn", !.ended = "complete"], more.emitted, TRUE)
     ELSE drain([more EXCEPT !.buffer = Append(@, more.emitted)])

endDropsBuffer(e, how) == drain([e EXCEPT !.ended = how, !.source = "ended", !.buffer = <<>>])

end(e, how) ==
  LET ended == [e EXCEPT !.ended = how, !.source = "ended", !.waited = e.buffer # <<>>]
  IN IF case.kind # "response" THEN drain(ended)
     ELSE IF how = "error" THEN coreError(ended) ELSE corePayload(ended, 0, TRUE)

-----------------------------------------------------------------------------
\* Prefetching: a payload, after which more is asked for in a task.
onNext(e, item, isComplete) ==
  LET got == [e EXCEPT !.received = @ + 1,
                       !.items = IF e.observer = "open" THEN Append(@, item) ELSE @]
  IN IF isComplete \/ case.kind = "response" THEN Ends(got, "complete")
     ELSE IF got.received % Limit = 0 THEN [got EXCEPT !.tasks = Append(@, Limit)]
     ELSE got

\* The core's stream handles a frame, as long as one direction is open.
handle(e, f) ==
  LET shut == [e EXCEPT !.in = FALSE, !.out = FALSE]
      cancelled == IF e.out THEN cancel(shut) ELSE shut
  IN IF ~e.in /\ ~e.out THEN e
     ELSE CASE f.type = "PAYLOAD" ->
                 LET heard == [e EXCEPT !.in = @ /\ ~f.complete]
                 IN IF f.n = 0 THEN Ends(heard, "complete") ELSE onNext(heard, f.n, f.complete)
            [] f.type = "REQUEST_N" ->
                 IF e.out \/ e.role = Responder THEN request(e, f.n) ELSE e
            [] f.type = "CANCEL" /\ e.role = Requester ->
                 IF e.out THEN cancel([e EXCEPT !.out = FALSE]) ELSE e
            [] OTHER -> IF e.in \/ e.role = Requester THEN Ends(cancelled, "error") ELSE cancelled

\* The handler of the responder subscribes: the first payload of a channel is
\* there, and one less is asked for.
accept ==
  LET e == End(Responder, "on", IF case.kind = "response" THEN 0 ELSE case.prefetch,
               case.kind = "channel", TRUE)
      first == onNext(e, 1, FALSE)
  IN IF case.kind = "channel" THEN [first EXCEPT !.tasks = Append(@, case.prefetch - 1)] ELSE e

-----------------------------------------------------------------------------
Init ==
  /\ case \in Cases
  /\ ends = [p \in Peers |->
       IF p = Responder THEN Absent
       ELSE LET e == End(Requester, IF case.kind = "channel" THEN "on" ELSE "none", 0, TRUE,
                         case.kind = "channel")
            IN IF case.kind = "channel" THEN [e EXCEPT !.emitted = 1] ELSE e]
  /\ net = [p \in Peers |-> IF p = Responder THEN <<Frame("REQUEST", 0, FALSE)>> ELSE <<>>]

\* An end has made a step, which may have taken the oldest frame on its way to it.
Becomes(p, e, inbox) ==
  /\ ends' = [ends EXCEPT ![p] = [e EXCEPT !.sent = <<>>]]
  /\ net' = [net EXCEPT ![p] = inbox, ![Other(p)] = @ \o e.sent]
  /\ UNCHANGED case

\* Between two tasks of the event loop, or inside a call of onNext().
Quiet(p) == ends[p].drain.at = "idle"
Callable(p) == ends[p].drain.at \in {"idle", "callback"}

SourceNext(p) ==
  /\ Callable(p) /\ ends[p].source = "on" /\ ends[p].emitted < case.items[p]
  /\ Becomes(p, next(ends[p]), net[p])

SourceEnds(p, how) ==
  /\ Callable(p) /\ ends[p].source = "on"
  /\ Becomes(p, end(ends[p], how), net[p])

Drain(p) ==
  /\ ends[p].drain.at # "idle"
  /\ Becomes(p, Turn(ends[p]), net[p])

Handle(p) ==
  /\ Quiet(p) /\ net[p] # <<>>
  /\ LET f == Head(net[p])
     IN Becomes(p, IF f.type = "REQUEST" THEN accept ELSE handle(ends[p], f), Tail(net[p]))

\* The scheduler runs the oldest task.
Task(p) ==
  /\ Quiet(p) /\ ends[p].tasks # <<>>
  /\ Becomes(p, coreRequest([ends[p] EXCEPT !.tasks = Tail(@)], Head(ends[p].tasks)), net[p])

Unsubscribe(p) ==
  /\ Callable(p) /\ ends[p].observer = "open"
  /\ Becomes(p, Ends(ends[p], "gone"), net[p])

Next ==
  \E p \in Peers : \/ SourceNext(p)
                   \/ \E how \in {"complete", "error"} : SourceEnds(p, how)
                   \/ Drain(p) \/ Handle(p) \/ Task(p) \/ Unsubscribe(p)

\* An event loop runs its tasks and handles what arrives; what a source or an
\* application does is up to it.
Spec ==
  /\ Init /\ [][Next]_vars
  /\ \A p \in Peers : WF_vars(Drain(p)) /\ WF_vars(Handle(p)) /\ WF_vars(Task(p))

-----------------------------------------------------------------------------
\* An observer gets what the source emitted, in order and once.  It completes
\* only after the last item of a source that completed, or of one that failed
\* with items still waiting, whose error the code drops (README); and it fails
\* only when one end failed or the other end has ended.
RxDelivery ==
  \A p \in Peers :
    LET from == ends[p]  to == ends[Other(p)]
    IN /\ \A i \in DOMAIN to.items : to.items[i] = i
       /\ Len(to.items) <= from.emitted
       /\ to.observer = "complete" =>
            /\ Len(to.items) = from.emitted
            /\ from.ended = "complete" \/ (from.ended = "error" /\ from.waited)
       /\ to.observer = "error" =>
            "error" \in {from.ended, to.ended} \/ from.observer \in {"complete", "error", "gone"}

\* What was asked for and not yet received is neither lost nor made up: as long
\* as a direction is open the demand at the source, in frames, in tasks and in
\* items on their way is the prefetch less what came since the last request.
\* So it never exceeds the prefetch, and is never nothing.
IsItem(frame) == frame.type = "PAYLOAD" /\ frame.n > 0
Asks(frame) == IF frame.type = "REQUEST_N" THEN frame.n ELSE 0
Items(frames) == Total([i \in DOMAIN frames |-> IF IsItem(frames[i]) THEN 1 ELSE 0])
Demand(frames) == Total([i \in DOMAIN frames |-> Asks(frames[i])])

DemandConserved ==
  \A p \in Peers :
    LET from == ends[p]  to == ends[Other(p)]
    IN from.out /\ to.in /\ case.kind # "response" /\ ends[Responder].source # "none" =>
         /\ from.requested - from.drain.delivered + Items(net[Other(p)])
              + Demand(net[p]) + Total(to.tasks)
              = case.prefetch - (to.received % Limit)
         /\ from.drain.delivered <= from.requested

\* When a source has ended its observer ends, unless the responder has left the
\* other direction of a channel, which silences this one as well (README).
Settles ==
  \A p \in Peers :
    ends[p].ended # "no" ~> \/ ends[Other(p)].observer \notin {"open", "none"}
                            \/ ends[Responder].observer = "gone"
=============================================================================
