--------------------------- MODULE RxAdapterProofs ---------------------------
(***************************************************************************)
(* What the rxjs adapter owes an observer and a source, proved for every   *)
(* prefetch and every number of items, for responses, streams and          *)
(* channels.                                                               *)
(*                                                                         *)
(* One end is a long record, but a step has one of sixteen effects on it,  *)
(* in terms of its source, its observer, the open directions and its       *)
(* demand.  The first part shows that (StepEffect); the second that each   *)
(* effect keeps each part of the invariant, IInv.                          *)
(***************************************************************************)
EXTENDS RxAdapter, SumsProofs

-----------------------------------------------------------------------------
(* The invariant. *)

FrameTypes == {"REQUEST", "PAYLOAD", "REQUEST_N", "CANCEL", "ERROR"}
Frames == [type : FrameTypes, n : Nat, complete : BOOLEAN]
Loops == [at : {"idle", "loop", "callback"}, missed : Nat, requested : Nat, delivered : Nat]
Flags == BOOLEAN
Numbers == Nat
NumberSeqs == Seq(Nat)
FrameSeqs == Seq(Frames)
Sources == {"none", "on", "ended", "torn"}
Outcomes == {"no", "complete", "error"}
Observers == {"none", "open", "complete", "error", "gone"}
EndType ==
  [role : Peers, source : Sources, emitted : Numbers, ended : Outcomes, waited : Flags,
   requested : Numbers, buffer : NumberSeqs, wip : Numbers, closed : Flags, drain : Loops,
   observer : Observers, received : Numbers, items : NumberSeqs, tasks : NumberSeqs,
   in : Flags, out : Flags, sent : FrameSeqs]

Typed ==
  /\ case \in Cases /\ ends \in [Peers -> EndType] /\ net \in [Peers -> Seq(Frames)]
  /\ \A p \in Peers : ends[p].role = p /\ ends[p].sent = <<>>

\* The responder has not seen the request.
Unborn == ends[Responder].source = "none"

\* The loop counts what it delivered against the demand it began with, which
\* nothing changes while it runs; a subscription is closed after its direction.
LoopInv(e) ==
  /\ IF e.drain.at = "idle" THEN e.drain.delivered = 0
     ELSE e.wip > 0 /\ e.drain.requested = e.requested /\ e.drain.delivered <= e.requested
  /\ e.closed => ~e.out

\* The demand at a source.
Owed(e) == e.requested - e.drain.delivered

\* An end at which nothing has happened yet.
Untouched(e) ==
  /\ e.emitted = 0 /\ e.ended = "no" /\ e.buffer = <<>> /\ ~e.in /\ ~e.out
  /\ e.observer = "none" /\ e.items = <<>> /\ e.tasks = <<>>

\* Nothing but the end of its directions reaches a responder before the request.
UnbornInv ==
  /\ Unborn =>
       /\ Untouched(ends[Responder]) /\ net[Requester] = <<>>
       /\ net[Responder] # <<>> /\ Head(net[Responder]).type = "REQUEST"
       /\ \A i \in 1 .. Len(net[Responder]) : net[Responder][i].type \notin {"PAYLOAD", "REQUEST_N"}
       /\ ends[Requester].received = 0 /\ ends[Requester].tasks = <<>>
       /\ ends[Requester].requested = 0 /\ ends[Requester].items = <<>>
  /\ \A p \in Peers : \A i \in 1 .. Len(net[p]) :
       net[p][i].type = "REQUEST" => Unborn /\ p = Responder /\ i = 1
  /\ case.kind # "channel" => ends[Requester].source = "none" /\ ~ends[Requester].out

\* A source that has ended emits no more, and if there is still something to
\* pass on there was when it ended.
SourceInv(e) ==
  /\ e.ended # "no" => e.source # "on"
  /\ e.ended # "no" /\ e.buffer # <<>> => e.waited
  /\ case.kind = "response" => e.buffer = <<>>
  /\ \A i \in 1 .. Len(e.buffer) : e.buffer[i] > 0

\* An observer whose direction is closed under it is deaf to both.
OpenInv(e) == e.observer = "open" /\ ~e.in => ~e.out

\* A source whose observer may complete.
Completed(e) == e.source # "on" /\ (e.ended = "complete" \/ (e.ended = "error" /\ e.waited))

\* The numbers of the items in frames are those from k + 1 to m, in order.
InOrder(frames, k, m) ==
  /\ \A i \in 1 .. Len(frames) : IsItem(frames[i]) => k < frames[i].n /\ frames[i].n <= m
  /\ \A i, j \in 1 .. Len(frames) : i < j /\ IsItem(frames[i]) /\ IsItem(frames[j]) => frames[i].n < frames[j].n
  /\ \A x \in Nat : k < x /\ x <= m => \E i \in 1 .. Len(frames) : IsItem(frames[i]) /\ frames[i].n = x

\* The items in buffer follow m.
Following(buffer, m) == \A i \in 1 .. Len(buffer) : buffer[i] = m + i

\* No item follows the frame that completes, which comes from a source that has
\* emitted m items.
CompletesLast(frames, e, m) ==
  \A i \in 1 .. Len(frames) : frames[i].type = "PAYLOAD" /\ frames[i].complete =>
    /\ Completed(e) /\ ~e.out /\ m = e.emitted
    /\ \A j \in 1 .. Len(frames) : i < j => ~IsItem(frames[j])

\* The request of a channel brings the first item.
Given(q) == IF q = Responder /\ Unborn /\ case.kind = "channel" THEN 1 ELSE Len(ends[q].items)
Listens(q) == (q = Responder /\ Unborn) \/ (ends[q].observer = "open" /\ ends[q].in)

\* The items on their way to an observer are those after the ones it got, and
\* the buffer those after them.
FlowInv(q) ==
  LET from == ends[Other(q)]  to == ends[q] IN
  /\ \A i \in 1 .. Len(to.items) : to.items[i] = i
  /\ Given(q) <= from.emitted
  /\ Listens(q) => \E m \in Nat :
       /\ Given(q) <= m /\ m <= from.emitted
       /\ InOrder(net[q], Given(q), m) /\ CompletesLast(net[q], from, m)
       /\ from.out => m + Len(from.buffer) = from.emitted /\ Following(from.buffer, m)
  /\ \A i \in 1 .. Len(net[q]) : net[q][i].type = "PAYLOAD" /\ (net[q][i].n = 0 \/ case.kind = "response") =>
       net[q][i].complete
  /\ to.observer = "complete" => Len(to.items) = from.emitted /\ Completed(from)

\* Why an observer may fail.
Excused(from, to) == "error" \in {from.ended, to.ended} \/ from.observer \in {"complete", "error", "gone"}

FailureInv(q) ==
  LET from == ends[Other(q)]  to == ends[q] IN
  /\ to.observer = "error" => Excused(from, to)
  /\ \A i \in 1 .. Len(net[q]) :
       /\ net[q][i].type = "ERROR" \/ (net[q][i].type = "CANCEL" /\ q = Responder) =>
            Excused(from, to) \/ (q = Responder /\ ~Unborn /\ ~to.in)
       /\ net[q][i].type = "CANCEL" /\ q = Requester => ~from.in

ItemWeight == [f \in Frames |-> IF IsItem(f) THEN 1 ELSE 0]
DemandWeight == [f \in Frames |-> Asks(f)]

\* The demand of q's observer, wherever it is.
DemandInv(q) ==
  LET from == ends[Other(q)]  to == ends[q] IN
  from.out /\ to.in /\ case.kind # "response" /\ ~Unborn =>
    Owed(from) + Weigh(ItemWeight, net[q]) + Weigh(DemandWeight, net[Other(q)]) + Total(to.tasks)
      = case.prefetch - (to.received % Limit)

IInv ==
  /\ Typed /\ UnbornInv
  /\ \A p \in Peers :
       /\ LoopInv(ends[p]) /\ SourceInv(ends[p]) /\ OpenInv(ends[p])
       /\ FlowInv(p) /\ FailureInv(p) /\ DemandInv(p)

-----------------------------------------------------------------------------
(* The effects of the steps, on an end e that becomes f. *)

SameSource(e, f) ==
  /\ f.source = e.source /\ f.emitted = e.emitted /\ f.ended = e.ended /\ f.waited = e.waited
  /\ f.buffer = e.buffer
SameGot(e, f) == f.items = e.items /\ f.received = e.received /\ f.tasks = e.tasks
SameSink(e, f) == f.observer = e.observer /\ SameGot(e, f)
SameOpen(e, f) == f.in = e.in /\ f.out = e.out
SameDemand(e, f) == f.requested = e.requested /\ f.drain.delivered = e.drain.delivered

\* The source has ended by itself, or was left.
SourceDone(e, f) ==
  /\ e.source = "on" /\ f.source = "ended" /\ f.ended \in {"complete", "error"}
  /\ f.emitted = e.emitted /\ f.buffer = e.buffer /\ f.waited = (e.buffer # <<>>)
SourceLeft(e, f) ==
  /\ f.emitted = e.emitted /\ f.ended = e.ended /\ f.waited = e.waited /\ f.buffer = e.buffer
  /\ f.source = e.source \/ (f.source = "torn" /\ case.kind # "channel")

\* What a cancelling end sends.
CancelFrames(e) ==
  IF e.in THEN <<Frame("CANCEL", 0, FALSE)>>
  ELSE IF e.out /\ e.role = Requester THEN <<Frame("ERROR", 0, FALSE)>> ELSE <<>>

\* p sends frames, and may have taken the oldest one on its way to it.
Sends(p, frames) ==
  /\ ends'[Other(p)] = ends[Other(p)]
  /\ net'[p] = net[p] /\ net'[Other(p)] = net[Other(p)] \o frames
Takes(p, frames) ==
  /\ ends'[Other(p)] = ends[Other(p)] /\ net[p] # <<>>
  /\ net'[p] = Tail(net[p]) /\ net'[Other(p)] = net[Other(p)] \o frames

\* The loop ends a round or stops.
Turns(p, e, f) ==
  /\ Sends(p, <<>>) /\ SameSource(e, f) /\ SameSink(e, f) /\ SameOpen(e, f)
  /\ e.out => Owed(f) = Owed(e)
  /\ f.requested <= e.requested

\* The loop passes on an item; the last one completes.
SendsItem(p, e, f) ==
  LET last == Len(e.buffer) = 1 /\ e.ended # "no" IN
  /\ e.buffer # <<>> /\ e.requested > 0
  /\ Sends(p, IF e.out THEN <<Frame("PAYLOAD", Head(e.buffer), last)>> ELSE <<>>)
  /\ f.source = e.source /\ f.emitted = e.emitted /\ f.ended = e.ended /\ f.waited = e.waited
  /\ f.buffer = Tail(e.buffer)
  /\ SameSink(e, f) /\ f.in = e.in /\ (f.out <=> e.out /\ ~last)
  /\ f.out => Owed(f) = Owed(e) - 1
  /\ f.requested <= e.requested

\* The source's end is passed on, from the loop or at once.
Completes(p, e, f) ==
  /\ e.buffer = <<>> /\ (SameSource(e, f) \/ SourceDone(e, f)) /\ f.ended = "complete"
  /\ e.requested > 0 \/ case.kind = "response"
  /\ Sends(p, IF e.out THEN <<Frame("PAYLOAD", 0, TRUE)>> ELSE <<>>)
  /\ SameSink(e, f) /\ f.in = e.in /\ ~f.out /\ f.requested <= e.requested

Fails(p, e, f) ==
  /\ SameSource(e, f) \/ SourceDone(e, f)
  /\ f.ended = "error" /\ SameGot(e, f) /\ f.requested <= e.requested
  /\ IF e.out
     THEN /\ Sends(p, <<Frame("ERROR", 0, FALSE)>>) /\ ~f.in /\ ~f.out
          /\ f.observer = IF e.in /\ e.observer = "open" THEN "error" ELSE e.observer
     ELSE Sends(p, <<>>) /\ SameSink(e, f) /\ SameOpen(e, f)

Emits(p, e, f) ==
  /\ Sends(p, <<>>) /\ case.kind # "response" /\ e.source = "on"
  /\ f.emitted = e.emitted + 1 /\ f.buffer = Append(e.buffer, e.emitted + 1)
  /\ f.source = e.source /\ f.ended = e.ended /\ f.waited = e.waited
  /\ SameSink(e, f) /\ SameOpen(e, f) /\ SameDemand(e, f)

Responds(p, e, f) ==
  /\ case.kind = "response" /\ e.source = "on"
  /\ Sends(p, IF e.out THEN <<Frame("PAYLOAD", e.emitted + 1, TRUE)>> ELSE <<>>)
  /\ f.emitted = e.emitted + 1 /\ f.source = "torn" /\ f.ended = "complete"
  /\ f.waited = e.waited /\ f.buffer = e.buffer
  /\ SameSink(e, f) /\ f.in = e.in /\ ~f.out /\ SameDemand(e, f)

Finishes(p, e, f) ==
  /\ Sends(p, <<>>) /\ case.kind # "response" /\ SourceDone(e, f)
  /\ SameSink(e, f) /\ SameOpen(e, f) /\ SameDemand(e, f)

RunsTask(p, e, f) ==
  /\ e.tasks # <<>> /\ Sends(p, IF e.in THEN <<Frame("REQUEST_N", Head(e.tasks), FALSE)>> ELSE <<>>)
  /\ f.tasks = Tail(e.tasks) /\ f.observer = e.observer /\ f.items = e.items /\ f.received = e.received
  /\ SameSource(e, f) /\ SameOpen(e, f) /\ SameDemand(e, f)

Leaves(p, e, f) ==
  /\ e.observer = "open" /\ Sends(p, CancelFrames(e))
  /\ f.observer = "gone" /\ SameGot(e, f)
  /\ SameSource(e, f) /\ ~f.in /\ (f.out <=> e.out /\ p = Responder) /\ SameDemand(e, f)

\* A frame for directions that are closed.
Ignores(p, e, f) ==
  /\ Takes(p, <<>>) /\ Head(net[p]).type # "REQUEST"
  /\ \/ ~e.in /\ ~e.out
     \/ ~e.out /\ p = Requester /\ Head(net[p]).type \in {"REQUEST_N", "CANCEL"}
  /\ SameSource(e, f) /\ SameSink(e, f) /\ SameOpen(e, f) /\ SameDemand(e, f)

TakesItem(p, e, f) ==
  LET frame == Head(net[p]) IN
  /\ Takes(p, <<>>) /\ IsItem(frame) /\ ~frame.complete /\ case.kind # "response" /\ (e.in \/ e.out)
  /\ f.received = e.received + 1 /\ f.observer = e.observer
  /\ f.items = IF e.observer = "open" THEN Append(e.items, frame.n) ELSE e.items
  /\ f.tasks = IF f.received % Limit = 0 THEN Append(e.tasks, Limit) ELSE e.tasks
  /\ SameSource(e, f) /\ SameOpen(e, f) /\ SameDemand(e, f)

\* The frame that completes ends the observer, which cancels what is left.
TakesEnd(p, e, f) ==
  LET frame == Head(net[p]) IN
  /\ net[p] # <<>> /\ frame.type = "PAYLOAD" /\ frame.complete /\ (e.in \/ e.out)
  /\ Takes(p, IF e.observer = "open" /\ e.out /\ p = Requester THEN <<Frame("ERROR", 0, FALSE)>> ELSE <<>>)
  /\ f.observer = IF e.observer = "open" THEN "complete" ELSE e.observer
  /\ f.items = IF e.observer = "open" /\ frame.n > 0 THEN Append(e.items, frame.n) ELSE e.items
  /\ f.tasks = e.tasks /\ ~f.in /\ (f.out <=> e.out /\ (e.observer = "open" => p = Responder))
  /\ SameSource(e, f) /\ SameDemand(e, f)

TakesDemand(p, e, f) ==
  /\ Takes(p, <<>>) /\ Head(net[p]).type = "REQUEST_N"
  /\ Owed(f) = Owed(e) + Head(net[p]).n
  /\ SameSource(e, f) /\ SameSink(e, f) /\ SameOpen(e, f)

\* A requester stops sending, and if its source is still there receiving.
TakesCancel(p, e, f) ==
  /\ p = Requester /\ net[p] # <<>> /\ Head(net[p]).type = "CANCEL" /\ e.out
  /\ \/ f.in = e.in /\ Takes(p, <<>>)
     \/ ~f.in /\ Takes(p, IF e.in THEN <<Frame("CANCEL", 0, FALSE)>> ELSE <<>>)
  /\ SourceLeft(e, f) /\ SameSink(e, f) /\ ~f.out /\ SameDemand(e, f)

TakesStop(p, e, f) ==
  /\ Takes(p, <<>>) /\ (e.in \/ e.out)
  /\ Head(net[p]).type = "ERROR" \/ (Head(net[p]).type = "CANCEL" /\ p = Responder)
  /\ ~f.in /\ ~f.out
  /\ SourceLeft(e, f) /\ (~e.out => f.source = e.source) /\ SameGot(e, f) /\ SameDemand(e, f)
  /\ f.observer = IF e.observer = "open" /\ (e.in \/ p = Requester) THEN "error" ELSE e.observer

Accepts(p, e, f) ==
  /\ p = Responder /\ Unborn /\ Takes(p, <<>>)
  /\ f.source = "on" /\ f.emitted = 0 /\ f.ended = "no" /\ f.buffer = <<>> /\ f.drain.delivered = 0
  /\ f.out /\ (f.in <=> case.kind = "channel")
  /\ f.requested = IF case.kind = "response" THEN 0 ELSE case.prefetch
  /\ IF case.kind = "channel"
     THEN /\ f.observer = "open" /\ f.items = <<1>> /\ f.received = 1
          /\ f.tasks = IF 1 % Limit = 0 THEN <<Limit, case.prefetch - 1>> ELSE <<case.prefetch - 1>>
     ELSE f.observer = "none" /\ f.items = <<>>

EffectOn(p, e, f) ==
  \/ Turns(p, e, f) \/ SendsItem(p, e, f) \/ Completes(p, e, f) \/ Fails(p, e, f)
  \/ Emits(p, e, f) \/ Responds(p, e, f) \/ Finishes(p, e, f) \/ RunsTask(p, e, f) \/ Leaves(p, e, f)
  \/ Ignores(p, e, f) \/ TakesItem(p, e, f) \/ TakesEnd(p, e, f) \/ TakesDemand(p, e, f)
  \/ TakesCancel(p, e, f) \/ TakesStop(p, e, f) \/ Accepts(p, e, f)

-----------------------------------------------------------------------------
(* What the calls do to an end. *)

\* An end in its type, whose loop counts right.
Sound(e) == e \in EndType /\ LoopInv(e)

\* A step that leaves the source, the observer and their demand as they are.
Keeps(e, f) ==
  /\ Sound(f) /\ SameSource(e, f) /\ SameSink(e, f) /\ SameDemand(e, f)
  /\ f.role = e.role /\ f.closed = e.closed

SameLoop(e, f) == f.drain = e.drain /\ f.wip = e.wip

\* Two such steps are one.
LEMMA KeepsTwice ==
  ASSUME NEW e, NEW f, NEW g, Keeps(e, f), Keeps(f, g)
  PROVE  Keeps(e, g)
BY DEF Keeps, SameSource, SameSink, SameGot, SameDemand

\* The fields of an end have their types.
LEMMA Fields ==
  ASSUME NEW e \in EndType
  PROVE  /\ e.role \in Peers /\ e.source \in Sources /\ e.emitted \in Nat /\ e.ended \in Outcomes
         /\ e.waited \in BOOLEAN /\ e.requested \in Nat /\ e.buffer \in Seq(Nat) /\ e.wip \in Nat
         /\ e.closed \in BOOLEAN /\ e.drain \in Loops /\ e.observer \in Observers /\ e.received \in Nat
         /\ e.items \in Seq(Nat) /\ e.tasks \in Seq(Nat) /\ e.in \in BOOLEAN /\ e.out \in BOOLEAN
         /\ e.sent \in Seq(Frames)
         /\ e.drain.at \in {"idle", "loop", "callback"} /\ e.drain.missed \in Nat
         /\ e.drain.requested \in Nat /\ e.drain.delivered \in Nat
<1>1. e.drain \in Loops
  BY DEF EndType
<1>2. /\ e.drain.at \in {"idle", "loop", "callback"} /\ e.drain.missed \in Nat
      /\ e.drain.requested \in Nat /\ e.drain.delivered \in Nat
  BY <1>1 DEF Loops
<1>3. /\ e.role \in Peers /\ e.source \in Sources /\ e.emitted \in Numbers /\ e.ended \in Outcomes
      /\ e.waited \in Flags /\ e.requested \in Numbers /\ e.buffer \in NumberSeqs /\ e.wip \in Numbers
      /\ e.closed \in Flags /\ e.drain \in Loops /\ e.observer \in Observers /\ e.received \in Numbers
      /\ e.items \in NumberSeqs /\ e.tasks \in NumberSeqs /\ e.in \in Flags /\ e.out \in Flags
      /\ e.sent \in FrameSeqs
  BY DEF EndType
<1>. QED
  BY <1>2, <1>3, Zenon DEF Numbers, Flags, NumberSeqs, FrameSeqs

\* A call of drain() may start the loop.
LEMMA DrainFacts ==
  ASSUME NEW e, Sound(e), NEW f, f = drain(e)
  PROVE  Keeps(e, f) /\ SameOpen(e, f) /\ f.sent = e.sent
<1>0. e \in EndType /\ e.wip \in Nat /\ e.requested \in Nat
  BY Fields DEF Sound
<1>1. CASE e.wip > 0
  <2>1. f = [e EXCEPT !.wip = e.wip + 1]
    BY <1>0, <1>1 DEF drain, EndType
  <2>1a. PICK w \in Numbers : w = e.wip + 1 /\ w > 0
    BY <1>0 DEF Numbers
  <2>2. /\ f \in EndType /\ f.wip = w /\ f.drain = e.drain /\ SameSource(e, f) /\ SameSink(e, f)
        /\ SameOpen(e, f) /\ f.requested = e.requested /\ f.role = e.role /\ f.sent = e.sent /\ f.closed = e.closed
    BY <1>0, <2>1, <2>1a DEF EndType, SameSource, SameSink, SameGot, SameOpen
  <2>. QED
    BY <1>1, <2>1a, <2>2 DEF Sound, LoopInv, Keeps, SameOpen, SameDemand
<1>2. CASE ~(e.wip > 0)
  <2>1. PICK l : l = [at |-> "loop", missed |-> 1, requested |-> e.requested, delivered |-> 0]
    OBVIOUS
  <2>2. l \in Loops /\ e.drain.delivered = 0 /\ l.at = "loop" /\ l.requested = e.requested /\ l.delivered = 0
    BY <1>0, <1>2, <2>1 DEF Loops, Sound, LoopInv
  <2>2a. PICK w \in Numbers : w = 1 /\ w > 0
    BY DEF Numbers
  <2>3. PICK g : g = [e EXCEPT !.wip = w]
    OBVIOUS
  <2>3a. f = [g EXCEPT !.drain = l]
    BY <1>2, <2>1, <2>2a, <2>3 DEF drain
  <2>3b. /\ g \in EndType /\ g.wip = w /\ SameSource(e, g) /\ SameSink(e, g)
         /\ SameOpen(e, g) /\ g.requested = e.requested /\ g.role = e.role /\ g.sent = e.sent /\ g.closed = e.closed
    BY <1>0, <2>3 DEF EndType, SameSource, SameSink, SameGot, SameOpen
  <2>4. /\ f \in EndType /\ f.wip = w /\ f.drain = l /\ SameSource(g, f) /\ SameSink(g, f)
        /\ SameOpen(g, f) /\ f.requested = g.requested /\ f.role = g.role /\ f.sent = g.sent /\ f.closed = g.closed
    BY <2>2, <2>3a, <2>3b DEF EndType, SameSource, SameSink, SameGot, SameOpen
  <2>. QED
    BY <1>0, <2>2, <2>2a, <2>3b, <2>4 DEF Sound, LoopInv, Keeps, SameSource, SameSink, SameGot, SameOpen, SameDemand
<1>. QED
  BY <1>1, <1>2

\* A direction opens or closes.
LEMMA InFacts ==
  ASSUME NEW e, Sound(e), NEW b \in BOOLEAN, NEW f, f = [e EXCEPT !.in = b]
  PROVE  Keeps(e, f) /\ f.in = b /\ f.out = e.out /\ f.sent = e.sent
<1>1. b \in Flags /\ e \in EndType
  BY DEF Flags, Sound
<1>2. /\ f \in EndType /\ SameSource(e, f) /\ SameSink(e, f) /\ f.in = b /\ f.out = e.out
      /\ f.role = e.role /\ f.sent = e.sent /\ f.closed = e.closed /\ f.wip = e.wip /\ f.drain = e.drain
      /\ f.requested = e.requested
  BY <1>1 DEF EndType, SameSource, SameSink, SameGot
<1>. QED
  BY <1>2 DEF Sound, LoopInv, SameDemand, Keeps

\* The same of the other direction.
LEMMA OutFacts ==
  ASSUME NEW e, Sound(e), NEW b \in BOOLEAN, b => e.out, NEW f, f = [e EXCEPT !.out = b]
  PROVE  Keeps(e, f) /\ f.in = e.in /\ f.out = b /\ f.sent = e.sent /\ SameLoop(e, f)
<1>1. b \in Flags /\ e \in EndType
  BY DEF Flags, Sound
<1>2. /\ f \in EndType /\ SameSource(e, f) /\ SameSink(e, f) /\ f.in = e.in /\ f.out = b
      /\ f.role = e.role /\ f.sent = e.sent /\ f.closed = e.closed /\ f.wip = e.wip /\ f.drain = e.drain
      /\ f.requested = e.requested
  BY <1>1 DEF EndType, SameSource, SameSink, SameGot
<1>. QED
  BY <1>2 DEF Sound, LoopInv, SameDemand, Keeps, SameLoop

\* Both directions are closed.
LEMMA ShutFacts ==
  ASSUME NEW e, Sound(e), NEW f, f = [e EXCEPT !.in = FALSE, !.out = FALSE]
  PROVE  Keeps(e, f) /\ ~f.in /\ ~f.out /\ f.sent = e.sent
<1>1. PICK g : g = [e EXCEPT !.in = FALSE]
  OBVIOUS
<1>2. f = [g EXCEPT !.out = FALSE]
  BY <1>1
<1>3. Keeps(e, g) /\ g.in = FALSE /\ g.sent = e.sent
  BY <1>1, InFacts, Zenon
<1>4. Sound(g)
  BY <1>3 DEF Keeps
<1>5. Keeps(g, f) /\ f.in = g.in /\ f.out = FALSE /\ f.sent = g.sent
  BY <1>2, <1>4, OutFacts, Zenon
<1>. QED
  BY <1>3, <1>5, KeepsTwice, Zenon

\* The frames the core sends.
LEMMA FrameFacts ==
  /\ \A n \in Nat : Frame("REQUEST_N", n, FALSE) \in Frames
  /\ \A n \in Nat, b \in BOOLEAN : Frame("PAYLOAD", n, b) \in Frames
  /\ Frame("CANCEL", 0, FALSE) \in Frames /\ Frame("ERROR", 0, FALSE) \in Frames
  /\ Frame("REQUEST", 0, FALSE) \in Frames
  /\ \A t, n, b : Frame(t, n, b).type = t /\ Frame(t, n, b).n = n /\ Frame(t, n, b).complete = b
BY DEF Frame, Frames, FrameTypes

\* A frame is sent; a step sends one at most.
LEMMA SendFacts ==
  ASSUME NEW e, Sound(e), e.sent = <<>>, NEW x \in Frames, NEW f, f = Send(e, x)
  PROVE  Keeps(e, f) /\ SameOpen(e, f) /\ f.sent = <<x>> /\ SameLoop(e, f)
<1>1. PICK s : s = <<x>>
  OBVIOUS
<1>2. s \in FrameSeqs /\ e \in EndType
  BY <1>1 DEF FrameSeqs, Sound
<1>3. f = [e EXCEPT !.sent = s]
  <2>1. Append(<<>>, x) = <<x>>
    OBVIOUS
  <2>2. f = [e EXCEPT !.sent = Append(e.sent, x)]
    BY <1>2 DEF Send, EndType
  <2>. QED
    BY <1>1, <2>1, <2>2
<1>4. /\ f \in EndType /\ SameSource(e, f) /\ SameSink(e, f) /\ f.in = e.in /\ f.out = e.out
      /\ f.role = e.role /\ f.sent = s /\ f.closed = e.closed /\ f.wip = e.wip /\ f.drain = e.drain
      /\ f.requested = e.requested
  BY <1>2, <1>3 DEF EndType, SameSource, SameSink, SameGot
<1>. QED
  BY <1>1, <1>4 DEF Sound, LoopInv, SameDemand, SameOpen, Keeps, SameLoop

\* An end that nothing happens to keeps all.
LEMMA KeepsSelf ==
  ASSUME NEW e, Sound(e)
  PROVE  Keeps(e, e) /\ SameOpen(e, e)
BY DEF Keeps, SameSource, SameSink, SameGot, SameDemand, SameOpen

\* The core's stream is cancelled: a responder's in one direction.
LEMMA CoreCancelFacts ==
  ASSUME NEW e, Sound(e), e.sent = <<>>, NEW f, f = coreCancel(e)
  PROVE  Keeps(e, f) /\ ~f.in /\ (f.out <=> e.out /\ e.role = Responder) /\ f.sent = CancelFrames(e)
<1>0. /\ e \in EndType /\ e.in \in BOOLEAN /\ e.out \in BOOLEAN
      /\ (e.role = Responder \/ e.role = Requester) /\ Responder # Requester
  BY Fields DEF Sound, Peers, Requester, Responder
<1>2. CASE e.role = Responder /\ e.in
  <2>1. PICK g : g = [e EXCEPT !.in = FALSE]
    OBVIOUS
  <2>1a. PICK x : x = Frame("CANCEL", 0, FALSE)
    OBVIOUS
  <2>2. f = Send(g, x)
    BY <1>2, <2>1, <2>1a DEF coreCancel
  <2>3. Keeps(e, g) /\ g.in = FALSE /\ g.out = e.out /\ g.sent = e.sent
    BY <2>1, InFacts, Zenon
  <2>3a. Sound(g) /\ g.sent = <<>> /\ x \in Frames
    BY <2>1a, <2>3, FrameFacts, Zenon DEF Keeps
  <2>4. Keeps(g, f) /\ SameOpen(g, f) /\ f.sent = <<x>>
    BY <2>2, <2>3a, SendFacts, Zenon
  <2>5. Keeps(e, f)
    BY <2>3, <2>4, KeepsTwice, Zenon
  <2>. QED
    BY <1>0, <1>2, <2>1a, <2>3, <2>4, <2>5 DEF SameOpen, CancelFrames
<1>3. CASE (e.role = Responder /\ ~e.in) \/ (e.role = Requester /\ ~e.in /\ ~e.out)
  <2>1. f = e
    BY <1>0, <1>3 DEF coreCancel
  <2>. QED
    BY <1>0, <1>3, <2>1, KeepsSelf DEF CancelFrames
<1>5. CASE e.role = Requester /\ (e.in \/ e.out)
  <2>1. PICK g : g = [e EXCEPT !.in = FALSE, !.out = FALSE]
    OBVIOUS
  <2>2. PICK h : h = IF e.out /\ e.ended = "no" THEN drain(g) ELSE g
    OBVIOUS
  <2>2a. PICK x : x = Frame(IF e.in THEN "CANCEL" ELSE "ERROR", 0, FALSE)
    OBVIOUS
  <2>3. f = Send(h, x)
    BY <1>0, <1>5, <2>1, <2>2, <2>2a DEF coreCancel
  <2>4. Keeps(e, g) /\ ~g.in /\ ~g.out /\ g.sent = e.sent
    BY <2>1, ShutFacts, Zenon
  <2>4a. Sound(g)
    BY <2>4 DEF Keeps
  <2>5. Keeps(g, h) /\ SameOpen(g, h) /\ h.sent = g.sent
    <3>1. CASE h = drain(g)
      BY <2>4a, <3>1, DrainFacts, Zenon
    <3>2. CASE h = g
      BY <2>4a, <3>2, KeepsSelf, Zenon
    <3>. QED
      BY <2>2, <3>1, <3>2
  <2>6. x \in Frames
    BY <2>2a, FrameFacts
  <2>6a. Sound(h) /\ h.sent = <<>>
    BY <2>4, <2>5 DEF Keeps
  <2>7. Keeps(h, f) /\ SameOpen(h, f) /\ f.sent = <<x>>
    BY <2>3, <2>6, <2>6a, SendFacts, Zenon
  <2>8. f.sent = CancelFrames(e)
    BY <1>0, <1>5, <2>2a, <2>7, Zenon DEF CancelFrames
  <2>9. Keeps(e, f)
    BY <2>4, <2>5, <2>7, KeepsTwice, Zenon
  <2>. QED
    BY <1>0, <1>5, <2>4, <2>5, <2>7, <2>8, <2>9 DEF SameOpen
<1>6. \/ e.role = Responder /\ e.in
      \/ (e.role = Responder /\ ~e.in) \/ (e.role = Requester /\ ~e.in /\ ~e.out)
      \/ e.role = Requester /\ (e.in \/ e.out)
  BY <1>0
<1>. QED
  BY <1>2, <1>3, <1>5, <1>6

\* Nothing is cancelled once both directions are closed.
LEMMA CoreCancelNothing ==
  ASSUME NEW e, ~e.in, ~e.out
  PROVE  coreCancel(e) = e
BY DEF coreCancel

\* A step that leaves the source, its demand and what the observer got as they are.
KeepsItems(e, f) ==
  /\ Sound(f) /\ SameSource(e, f) /\ SameDemand(e, f) /\ SameGot(e, f)
  /\ f.role = e.role /\ f.closed = e.closed

\* An observer is told of the end.
LEMMA ObserverFacts ==
  ASSUME NEW e, Sound(e), NEW how \in Observers, NEW f, f = [e EXCEPT !.observer = how]
  PROVE  KeepsItems(e, f) /\ f.observer = how /\ SameOpen(e, f) /\ f.sent = e.sent
<1>1. e \in EndType
  BY DEF Sound
<1>2. /\ f \in EndType /\ SameSource(e, f) /\ SameOpen(e, f) /\ f.observer = how
      /\ f.role = e.role /\ f.sent = e.sent /\ f.closed = e.closed /\ f.wip = e.wip /\ f.drain = e.drain
      /\ f.requested = e.requested /\ f.items = e.items /\ f.received = e.received /\ f.tasks = e.tasks
  BY <1>1 DEF EndType, SameSource, SameOpen
<1>. QED
  BY <1>2 DEF Sound, LoopInv, SameDemand, KeepsItems, SameGot, SameOpen

\* An observer ends, and cancels what it came from.
LEMMA EndsFacts ==
  ASSUME NEW e, Sound(e), e.sent = <<>>, NEW how \in Observers, NEW f, f = Ends(e, how)
  PROVE  /\ e.observer # "open" => f = e
         /\ e.observer = "open" =>
              /\ KeepsItems(e, f) /\ f.observer = how
              /\ ~f.in /\ (f.out <=> e.out /\ e.role = Responder) /\ f.sent = CancelFrames(e)
<1>1. CASE e.observer # "open"
  BY <1>1 DEF Ends
<1>2. CASE e.observer = "open"
  <2>1. PICK g : g = [e EXCEPT !.observer = how]
    OBVIOUS
  <2>2. f = coreCancel(g)
    BY <1>2, <2>1 DEF Ends
  <2>3. KeepsItems(e, g) /\ g.observer = how /\ SameOpen(e, g) /\ g.sent = <<>>
    BY <2>1, ObserverFacts
  <2>4. Sound(g)
    BY <2>3 DEF KeepsItems, SameGot
  <2>5. Keeps(g, f) /\ ~f.in /\ (f.out <=> g.out /\ g.role = Responder) /\ f.sent = CancelFrames(g)
    BY <2>2, <2>3, <2>4, CoreCancelFacts, Zenon
  <2>6. g.in = e.in /\ g.out = e.out /\ g.role = e.role
    BY <2>3 DEF KeepsItems, SameGot, SameOpen
  <2>7. CancelFrames(g) = CancelFrames(e)
    BY <2>6, Zenon DEF CancelFrames
  <2>8. KeepsItems(e, f) /\ f.observer = how
    BY <2>3, <2>5 DEF KeepsItems, Keeps, SameSource, SameSink, SameGot, SameDemand
  <2>. QED
    BY <1>2, <2>5, <2>6, <2>7, <2>8, Zenon
<1>. QED
  BY <1>1, <1>2

\* The core's stream is given a payload.
LEMMA CorePayloadFacts ==
  ASSUME NEW e, Sound(e), e.sent = <<>>, NEW n \in Nat, NEW b \in BOOLEAN, NEW f, f = corePayload(e, n, b)
  PROVE  /\ ~e.out => f = e
         /\ e.out => /\ Keeps(e, f) /\ SameLoop(e, f) /\ f.in = e.in /\ (f.out <=> ~b)
                     /\ f.sent = <<Frame("PAYLOAD", n, b)>>
<1>1. CASE ~e.out
  BY <1>1 DEF corePayload
<1>2. CASE e.out
  <2>1. PICK c \in BOOLEAN : c = (~b)
    OBVIOUS
  <2>2. PICK g : g = [e EXCEPT !.out = c]
    OBVIOUS
  <2>3. PICK x : x = Frame("PAYLOAD", n, b)
    OBVIOUS
  <2>4. f = Send(g, x)
    BY <1>2, <2>1, <2>2, <2>3 DEF corePayload
  <2>5. Keeps(e, g) /\ SameLoop(e, g) /\ g.in = e.in /\ g.out = c /\ g.sent = e.sent
    BY <1>2, <2>2, OutFacts, Zenon
  <2>6. Sound(g) /\ g.sent = <<>> /\ x \in Frames
    BY <2>3, <2>5, FrameFacts, Zenon DEF Keeps
  <2>7. Keeps(g, f) /\ SameLoop(g, f) /\ SameOpen(g, f) /\ f.sent = <<x>>
    BY <2>4, <2>6, SendFacts, Zenon
  <2>8. Keeps(e, f)
    BY <2>5, <2>7, KeepsTwice, Zenon
  <2>. QED
    BY <1>2, <2>1, <2>3, <2>5, <2>7, <2>8 DEF SameOpen, SameLoop
<1>. QED
  BY <1>1, <1>2

\* The core's stream is told of an error.
LEMMA CoreErrorFacts ==
  ASSUME NEW e, Sound(e), e.sent = <<>>, NEW f, f = coreError(e)
  PROVE  /\ ~e.out => f = e
         /\ e.out => /\ KeepsItems(e, f) /\ ~f.in /\ ~f.out /\ f.sent = <<Frame("ERROR", 0, FALSE)>>
                     /\ f.observer = IF e.in /\ e.observer = "open" THEN "error" ELSE e.observer
<1>1. CASE ~e.out
  BY <1>1 DEF coreError
<1>2. CASE e.out
  <2>1. PICK g : g = [e EXCEPT !.in = FALSE, !.out = FALSE]
    OBVIOUS
  <2>2. PICK x : x = Frame("ERROR", 0, FALSE)
    OBVIOUS
  <2>3. PICK h : h = Send(g, x)
    OBVIOUS
  <2>4. f = IF e.in THEN Ends(h, "error") ELSE h
    BY <1>2, <2>1, <2>2, <2>3 DEF coreError
  <2>5. Keeps(e, g) /\ ~g.in /\ ~g.out /\ g.sent = e.sent
    BY <2>1, ShutFacts, Zenon
  <2>6. Sound(g) /\ g.sent = <<>> /\ x \in Frames
    BY <2>2, <2>5, FrameFacts, Zenon DEF Keeps
  <2>7. Keeps(g, h) /\ SameOpen(g, h) /\ h.sent = <<x>>
    BY <2>3, <2>6, SendFacts, Zenon
  <2>8. Keeps(e, h) /\ ~h.in /\ ~h.out
    BY <2>5, <2>7, KeepsTwice, Zenon DEF SameOpen
  <2>9. Sound(h) /\ h.observer = e.observer /\ KeepsItems(e, h)
    BY <2>8 DEF Keeps, SameSink, SameGot, KeepsItems, SameGot
  <2>10. CASE e.in /\ e.observer = "open"
    <3>1. PICK k : k = [h EXCEPT !.observer = "error"]
      OBVIOUS
    <3>2. KeepsItems(h, k) /\ k.observer = "error" /\ SameOpen(h, k) /\ k.sent = h.sent
      BY <2>9, <3>1, ObserverFacts DEF Observers
    <3>3. ~k.in /\ ~k.out
      BY <2>8, <3>2 DEF SameOpen
    <3>4. f = k
      BY <2>4, <2>9, <2>10, <3>1, <3>3, CoreCancelNothing DEF Ends
    <3>5. KeepsItems(e, k)
      BY <2>9, <3>2 DEF KeepsItems, SameGot, SameSource, SameDemand
    <3>. QED
      BY <1>2, <2>2, <2>7, <2>10, <3>2, <3>3, <3>4, <3>5, Zenon
  <2>11. CASE ~(e.in /\ e.observer = "open")
    <3>1. f = h
      BY <2>4, <2>9, <2>11, Zenon DEF Ends
    <3>. QED
      BY <1>2, <2>2, <2>7, <2>8, <2>9, <2>11, <3>1, Zenon
  <2>. QED
    BY <2>10, <2>11
<1>. QED
  BY <1>1, <1>2

\* The core's stream is asked for more.
LEMMA CoreRequestFacts ==
  ASSUME NEW e, Sound(e), e.sent = <<>>, NEW n \in Nat, NEW f, f = coreRequest(e, n)
  PROVE  /\ Keeps(e, f) /\ SameOpen(e, f)
         /\ f.sent = IF e.in THEN <<Frame("REQUEST_N", n, FALSE)>> ELSE <<>>
<1>1. CASE ~e.in
  BY <1>1, KeepsSelf DEF coreRequest
<1>2. CASE e.in
  <2>1. PICK x : x = Frame("REQUEST_N", n, FALSE)
    OBVIOUS
  <2>2. f = Send(e, x) /\ x \in Frames
    BY <1>2, <2>1, FrameFacts DEF coreRequest
  <2>. QED
    BY <1>2, <2>1, <2>2, SendFacts, Zenon
<1>. QED
  BY <1>1, <1>2

\* More is asked for, between two tasks.
LEMMA RequestFacts ==
  ASSUME NEW e, Sound(e), e.drain.at = "idle", NEW n \in Nat, NEW f, f = request(e, n)
  PROVE  /\ Sound(f) /\ SameSource(e, f) /\ SameSink(e, f) /\ SameOpen(e, f)
         /\ f.requested = e.requested + n /\ e.drain.delivered = 0 /\ f.drain.delivered = 0
         /\ f.role = e.role /\ f.closed = e.closed /\ f.sent = e.sent
<1>0. e \in EndType /\ e.requested \in Nat
  BY Fields DEF Sound
<1>1. PICK r \in Numbers : r = e.requested + n
  BY <1>0 DEF Numbers
<1>2. PICK g : g = [e EXCEPT !.requested = r]
  OBVIOUS
<1>3. g = [e EXCEPT !.requested = @ + n]
  BY <1>0, <1>1, <1>2 DEF EndType
<1>4. /\ g \in EndType /\ SameSource(e, g) /\ SameSink(e, g) /\ SameOpen(e, g) /\ g.requested = r
      /\ g.role = e.role /\ g.sent = e.sent /\ g.closed = e.closed /\ g.wip = e.wip /\ g.drain = e.drain
  BY <1>0, <1>2 DEF EndType, SameSource, SameSink, SameGot, SameOpen
<1>5. Sound(g) /\ g.drain.delivered = 0 /\ e.drain.delivered = 0
  BY <1>4 DEF Sound, LoopInv, SameOpen
<1>6. f = drain(g) \/ f = g
  BY <1>3 DEF request
<1>7. Keeps(g, f) /\ SameOpen(g, f) /\ f.sent = g.sent
  <2>1. CASE f = drain(g)
    BY <1>5, <2>1, DrainFacts, Zenon
  <2>2. CASE f = g
    BY <1>5, <2>2, KeepsSelf, Zenon
  <2>. QED
    BY <1>6, <2>1, <2>2
<1>. QED
  BY <1>1, <1>4, <1>5, <1>7 DEF Keeps, SameSource, SameSink, SameGot, SameOpen, SameDemand

\* The subscriber of a source whose direction is closed cancels.
LEMMA CancelFacts ==
  ASSUME NEW e, Sound(e), e.sent = <<>>, ~e.out, NEW f, f = cancel(e)
  PROVE  /\ Sound(f) /\ SourceLeft(e, f) /\ SameSink(e, f) /\ SameDemand(e, f) /\ f.role = e.role /\ ~f.out
         /\ (f.in = e.in /\ f.sent = <<>>) \/ (~f.in /\ f.sent = CancelFrames(e))
         /\ ~e.in => ~f.in /\ f.sent = <<>>
<1>0. e \in EndType
  BY DEF Sound
<1>1. CASE e.closed \/ e.ended # "no"
  <2>1. f = e
    BY <1>1 DEF cancel
  <2>. QED
    BY <2>1 DEF SourceLeft, SameSink, SameGot, SameDemand
<1>2. CASE ~(e.closed \/ e.ended # "no") /\ case.kind = "channel"
  <2>1. PICK g : g = coreCancel(e)
    OBVIOUS
  <2>2. f = drain(g)
    BY <1>2, <2>1 DEF cancel
  <2>3. Keeps(e, g) /\ ~g.in /\ (g.out <=> e.out /\ e.role = Responder) /\ g.sent = CancelFrames(e)
    BY <2>1, CoreCancelFacts, Zenon
  <2>4. Sound(g) /\ ~g.out
    BY <2>3 DEF Keeps
  <2>5. Keeps(g, f) /\ SameOpen(g, f) /\ f.sent = g.sent
    BY <2>2, <2>4, DrainFacts, Zenon
  <2>6. Keeps(e, f)
    BY <2>3, <2>5, KeepsTwice, Zenon
  <2>7. ~e.in => CancelFrames(e) = <<>>
    BY Zenon DEF CancelFrames
  <2>. QED
    BY <2>3, <2>4, <2>5, <2>6, <2>7 DEF Keeps, SameSource, SameOpen, SourceLeft
<1>3. CASE ~(e.closed \/ e.ended # "no") /\ case.kind # "channel"
  <2>1. PICK g : g = [e EXCEPT !.closed = TRUE]
    OBVIOUS
  <2>2. PICK h : h = [g EXCEPT !.source = "torn"]
    OBVIOUS
  <2>3. TRUE \in Flags /\ "torn" \in Sources
    BY DEF Flags, Sources
  <2>4. /\ g \in EndType /\ SameSource(e, g) /\ SameSink(e, g) /\ SameOpen(e, g) /\ g.requested = e.requested
        /\ g.role = e.role /\ g.sent = e.sent /\ g.wip = e.wip /\ g.drain = e.drain
    BY <1>0, <2>1, <2>3 DEF EndType, SameSource, SameSink, SameGot, SameOpen
  <2>5. /\ h \in EndType /\ h.emitted = g.emitted /\ h.ended = g.ended /\ h.waited = g.waited /\ h.buffer = g.buffer
        /\ h.source = "torn" /\ SameSink(g, h) /\ SameOpen(g, h) /\ h.requested = g.requested
        /\ h.role = g.role /\ h.sent = g.sent /\ h.wip = g.wip /\ h.drain = g.drain
    BY <2>2, <2>3, <2>4 DEF EndType, SameSink, SameGot, SameOpen
  <2>6. Sound(h)
    BY <2>4, <2>5 DEF Sound, LoopInv, SameOpen
  <2>7. h = [e EXCEPT !.closed = TRUE, !.source = "torn"]
    BY <2>1, <2>2
  <2>8. f = drain(h) \/ f = h
    BY <1>3, <2>7, Zenon DEF cancel
  <2>9. Keeps(h, f) /\ SameOpen(h, f) /\ f.sent = h.sent
    <3>1. CASE f = drain(h)
      BY <2>6, <3>1, DrainFacts, Zenon
    <3>2. CASE f = h
      BY <2>6, <3>2, KeepsSelf, Zenon
    <3>. QED
      BY <2>8, <3>1, <3>2
  <2>10. SourceLeft(e, f)
    BY <1>3, <2>4, <2>5, <2>9 DEF SourceLeft, Keeps, SameSource
  <2>. QED
    BY <2>4, <2>5, <2>9, <2>10 DEF Keeps, SameSink, SameGot, SameOpen, SameDemand
<1>. QED
  BY <1>1, <1>2, <1>3

-----------------------------------------------------------------------------
(* Every step has one of the effects. *)

\* The two ends.
LEMMA TwoEnds ==
  ASSUME NEW p \in Peers
  PROVE  /\ Other(p) \in Peers /\ Other(p) # p /\ Other(Other(p)) = p /\ Peers = {p, Other(p)}
         /\ Requester \in Peers /\ Responder \in Peers /\ Requester # Responder
         /\ Other(Requester) = Responder /\ Other(Responder) = Requester
         /\ (p = Requester \/ p = Responder) /\ Peers = {Requester, Responder}
BY DEF Peers, Other, Requester, Responder

\* What a step of p leaves in order, and its effect.
Steps(p) ==
  /\ Typed' /\ case' = case /\ (\A x \in Peers : LoopInv(ends'[x]))
  /\ EffectOn(p, ends[p], ends'[p])

\* An end that has made a step: what it sent is on its way.
LEMMA BecomesFacts ==
  ASSUME Typed, NEW p \in Peers, LoopInv(ends[Other(p)]), NEW g, Sound(g), g.role = p,
         NEW inbox \in Seq(Frames), Becomes(p, g, inbox)
  PROVE  /\ Typed' /\ case' = case /\ (\A x \in Peers : LoopInv(ends'[x]))
         /\ Keeps(g, ends'[p]) /\ SameOpen(g, ends'[p])
         /\ ends'[Other(p)] = ends[Other(p)] /\ net'[p] = inbox /\ net'[Other(p)] = net[Other(p)] \o g.sent
<1>1. PICK q \in Peers : q = Other(p) /\ q # p /\ Peers = {p, q}
  BY TwoEnds
<1>2. PICK h : h = [g EXCEPT !.sent = <<>>]
  OBVIOUS
<1>3. g \in EndType /\ <<>> \in FrameSeqs /\ g.sent \in Seq(Frames)
  BY Fields DEF FrameSeqs, Sound
<1>4. /\ h \in EndType /\ SameSource(g, h) /\ SameSink(g, h) /\ SameOpen(g, h) /\ h.sent = <<>>
      /\ h.role = g.role /\ h.closed = g.closed /\ h.wip = g.wip /\ h.drain = g.drain /\ h.requested = g.requested
  BY <1>2, <1>3 DEF EndType, SameSource, SameSink, SameGot, SameOpen
<1>5. Keeps(g, h)
  BY <1>4 DEF Keeps, Sound, LoopInv, SameDemand, SameOpen
<1>6. ends \in [Peers -> EndType] /\ net \in [Peers -> Seq(Frames)]
  BY DEF Typed
<1>7. ends' = [ends EXCEPT ![p] = h] /\ case' = case
  BY <1>2 DEF Becomes
<1>8. ends' \in [Peers -> EndType] /\ ends'[p] = h /\ ends'[q] = ends[q]
  BY <1>1, <1>4, <1>6, <1>7
<1>9. PICK u \in Seq(Frames), v \in Seq(Frames) : u = net[q] /\ v = u \o g.sent
  <2>1. PICK u \in Seq(Frames) : u = net[q]
    BY <1>1, <1>6
  <2>2. u \o g.sent \in Seq(Frames)
    BY <1>3, ConcatProperties, Zenon
  <2>. QED
    BY <2>1, <2>2
<1>10. net' = [net EXCEPT ![p] = inbox, ![q] = v]
  <2>1. net' = [net EXCEPT ![p] = inbox, ![q] = net[q] \o g.sent]
    BY <1>1, <1>6 DEF Becomes
  <2>. QED
    BY <1>9, <2>1
<1>11. net' \in [Peers -> Seq(Frames)] /\ net'[p] = inbox /\ net'[q] = v
  BY ONLY <1>1, <1>6, <1>9, <1>10, inbox \in Seq(Frames), p \in Peers
<1>12. Typed'
  <2>1. case' \in Cases
    BY <1>7 DEF Typed
  <2>2. \A x \in Peers : ends'[x].role = x /\ ends'[x].sent = <<>>
    BY <1>1, <1>4, <1>8 DEF Typed
  <2>. QED
    BY <1>8, <1>11, <2>1, <2>2 DEF Typed
<1>13. \A x \in Peers : LoopInv(ends'[x])
  BY <1>1, <1>5, <1>8, Zenon DEF Keeps, Sound
<1>. QED
  BY <1>1, <1>4, <1>5, <1>7, <1>8, <1>9, <1>11, <1>12, <1>13, Zenon

\* A loop with a new count.
LEMMA CountFacts ==
  ASSUME NEW e \in EndType, NEW l \in Loops, NEW f, f = [e EXCEPT !.drain = l]
  PROVE  /\ f \in EndType /\ f.drain = l /\ SameSource(e, f) /\ SameSink(e, f) /\ SameOpen(e, f)
         /\ f.requested = e.requested /\ f.wip = e.wip /\ f.role = e.role /\ f.closed = e.closed
         /\ f.sent = e.sent
BY DEF EndType, SameSource, SameSink, SameGot, SameOpen

\* A loop that is over counts from nothing.
LEMMA IdleLoop == Idle \in Loops /\ Idle.at = "idle" /\ Idle.delivered = 0
BY DEF Idle, Loops

\* The end of a round takes what was delivered off what was asked for.
LEMMA EndOfRoundFacts ==
  ASSUME NEW e, Sound(e), e.drain.at # "idle", NEW f, f = EndOfRound(e)
  PROVE  /\ Sound(f) /\ SameSource(e, f) /\ SameSink(e, f) /\ SameOpen(e, f)
         /\ Owed(f) = Owed(e) /\ f.requested <= e.requested
         /\ f.role = e.role /\ f.closed = e.closed /\ f.sent = e.sent
<1>0. /\ e \in EndType /\ e.requested \in Nat /\ e.wip \in Nat /\ e.drain.delivered \in Nat
      /\ e.wip > 0 /\ e.drain.delivered <= e.requested
  BY Fields DEF Sound, LoopInv
<1>1. PICK left \in Numbers : left = e.requested - e.drain.delivered /\ left <= e.requested
  BY <1>0 DEF Numbers
<1>2. PICK g : g = [e EXCEPT !.requested = left]
  OBVIOUS
<1>3. /\ g \in EndType /\ SameSource(e, g) /\ SameSink(e, g) /\ SameOpen(e, g) /\ g.requested = left
      /\ g.wip = e.wip /\ g.role = e.role /\ g.closed = e.closed /\ g.sent = e.sent /\ g.drain = e.drain
  BY <1>0, <1>2 DEF EndType, SameSource, SameSink, SameGot, SameOpen
<1>4. CASE e.drain.missed = e.wip
  <2>1. PICK z \in Numbers : z = 0
    BY DEF Numbers
  <2>2. PICK h : h = [g EXCEPT !.wip = z]
    OBVIOUS
  <2>3. f = [h EXCEPT !.drain = Idle]
    BY <1>1, <1>2, <1>4, <2>1, <2>2 DEF EndOfRound
  <2>4. /\ h \in EndType /\ SameSource(g, h) /\ SameSink(g, h) /\ SameOpen(g, h) /\ h.requested = left
        /\ h.role = g.role /\ h.closed = g.closed /\ h.sent = g.sent
    BY <1>3, <2>2 DEF EndType, SameSource, SameSink, SameGot, SameOpen
  <2>5. /\ f \in EndType /\ f.drain = Idle /\ SameSource(h, f) /\ SameSink(h, f) /\ SameOpen(h, f)
        /\ f.requested = h.requested /\ f.role = h.role /\ f.closed = h.closed /\ f.sent = h.sent
    BY <2>3, <2>4, IdleLoop, CountFacts
  <2>6. SameSource(e, f) /\ SameSink(e, f) /\ SameOpen(e, f)
    BY <1>3, <2>4, <2>5 DEF SameSource, SameSink, SameGot, SameOpen
  <2>7. Owed(f) = Owed(e)
    BY <1>0, <1>1, <2>4, <2>5, IdleLoop DEF Owed, Numbers
  <2>8. LoopInv(f)
    BY <1>3, <2>4, <2>5, <2>6, IdleLoop DEF LoopInv, Sound, SameOpen
  <2>. QED
    BY <1>1, <1>3, <2>4, <2>5, <2>6, <2>7, <2>8 DEF Sound
<1>5. CASE e.drain.missed # e.wip
  <2>1. PICK l : l = [at |-> "loop", missed |-> e.wip, requested |-> left, delivered |-> 0]
    OBVIOUS
  <2>2. l \in Loops /\ l.at = "loop" /\ l.requested = left /\ l.delivered = 0 /\ left \in Nat
    BY <1>0, <2>1 DEF Loops, Numbers
  <2>3. f = [g EXCEPT !.drain = l]
    BY <1>1, <1>2, <1>5, <2>1 DEF EndOfRound
  <2>5. /\ f \in EndType /\ f.drain = l /\ SameSource(g, f) /\ SameSink(g, f) /\ SameOpen(g, f)
        /\ f.requested = g.requested /\ f.wip = g.wip /\ f.role = g.role /\ f.closed = g.closed /\ f.sent = g.sent
    BY <1>3, <2>2, <2>3, CountFacts
  <2>6. SameSource(e, f) /\ SameSink(e, f) /\ SameOpen(e, f)
    BY <1>3, <2>5 DEF SameSource, SameSink, SameGot, SameOpen
  <2>7. Owed(f) = Owed(e)
    BY <1>0, <1>1, <1>3, <2>2, <2>5 DEF Owed
  <2>8. LoopInv(f)
    BY <1>0, <1>3, <2>2, <2>5, <2>6 DEF LoopInv, Sound, SameOpen
  <2>. QED
    BY <1>1, <1>3, <2>5, <2>6, <2>7, <2>8 DEF Sound
<1>. QED
  BY <1>4, <1>5

\* One turn of the loop.
LEMMA DrainStep ==
  ASSUME IInv, NEW p \in Peers, Drain(p)
  PROVE  Steps(p)
<1>1. PICK e : e = ends[p]
  OBVIOUS
<1>2. PICK f : f = Turn(e)
  OBVIOUS
<1>3. PICK q \in Peers : q = Other(p)
  BY TwoEnds
<1>4. /\ Typed /\ e \in EndType /\ e.role = p /\ e.sent = <<>> /\ Sound(e) /\ SourceInv(e)
      /\ LoopInv(ends[Other(p)])
  BY <1>1, TwoEnds DEF IInv, Typed, Sound
<1>5. e.drain.at # "idle" /\ Becomes(p, f, net[p]) /\ net[p] \in Seq(Frames)
  BY <1>1, <1>2, <1>4 DEF Drain, Typed
<1>6. /\ e.requested \in Nat /\ e.wip \in Nat /\ e.drain.delivered \in Nat /\ e.buffer \in Seq(Nat)
      /\ e.ended \in Outcomes /\ e.in \in BOOLEAN /\ e.out \in BOOLEAN
      /\ e.wip > 0 /\ e.drain.delivered <= e.requested /\ e.drain.requested = e.requested
  BY <1>4, <1>5, Fields DEF Sound, LoopInv
<1>7. ASSUME Sound(f), f.role = p
      PROVE  /\ Typed' /\ case' = case /\ (\A x \in Peers : LoopInv(ends'[x]))
             /\ Keeps(f, ends'[p]) /\ SameOpen(f, ends'[p]) /\ Sends(p, f.sent)
  BY <1>4, <1>5, <1>7, BecomesFacts DEF Sends
<1>8. ASSUME Sound(f), f.role = p, f.sent = <<>>, SameSource(e, f), SameSink(e, f), SameOpen(e, f),
             e.out => Owed(f) = Owed(e), f.requested <= e.requested
      PROVE  Steps(p)
  <2>1. /\ Typed' /\ case' = case /\ (\A x \in Peers : LoopInv(ends'[x]))
        /\ Keeps(f, ends'[p]) /\ SameOpen(f, ends'[p]) /\ Sends(p, <<>>)
    BY <1>7, <1>8
  <2>2. PICK g : g = ends'[p]
    OBVIOUS
  <2>3. /\ SameSource(e, g) /\ SameSink(e, g) /\ SameOpen(e, g) /\ (e.out => Owed(g) = Owed(e))
        /\ g.requested <= e.requested
    BY <1>8, <2>1, <2>2 DEF Keeps, SameSource, SameSink, SameGot, SameOpen, SameDemand, Owed
  <2>4. Turns(p, ends[p], ends'[p])
    BY <1>1, <2>1, <2>2, <2>3 DEF Turns
  <2>. QED
    BY <2>1, <2>4 DEF Steps, EffectOn
<1>9. CASE f = EndOfRound(e)
  BY <1>4, <1>5, <1>8, <1>9, EndOfRoundFacts
<1>10. CASE ~(e.drain.delivered >= e.drain.requested) /\ e.buffer # <<>>
  <2>1. PICK last \in BOOLEAN : last = (Len(e.buffer) = 1 /\ e.ended # "no")
    OBVIOUS
  <2>2. PICK s \in Seq(Nat), n \in Nat : s = Tail(e.buffer) /\ n = Head(e.buffer)
    BY <1>6, <1>10, HeadTailProperties
  <2>3. PICK g : g = [e EXCEPT !.buffer = s]
    OBVIOUS
  <2>4. g = [e EXCEPT !.buffer = Tail(@)]
    BY <1>4, <2>2, <2>3 DEF EndType
  <2>5. /\ g \in EndType /\ g.source = e.source /\ g.emitted = e.emitted /\ g.ended = e.ended /\ g.waited = e.waited
        /\ g.buffer = s /\ SameSink(e, g) /\ SameOpen(e, g) /\ g.requested = e.requested /\ g.wip = e.wip
        /\ g.drain = e.drain /\ g.closed = e.closed /\ g.role = e.role /\ g.sent = e.sent
    <3>1. s \in NumberSeqs
      BY DEF NumberSeqs
    <3>. QED
      BY <1>4, <2>3, <3>1 DEF EndType, SameSink, SameGot, SameOpen
  <2>6. Sound(g)
    BY <1>4, <2>5 DEF Sound, LoopInv, SameOpen
  <2>7. PICK h : h = corePayload(g, n, last)
    OBVIOUS
  <2>8. f = IF last THEN [h EXCEPT !.drain = Idle]
            ELSE [h EXCEPT !.drain.delivered = @ + 1, !.drain.at = "callback"]
    BY <1>2, <1>10, <2>1, <2>2, <2>4, <2>7, Zenon DEF Turn
  <2>9. PICK t : t = IF e.out THEN <<Frame("PAYLOAD", n, last)>> ELSE <<>>
    OBVIOUS
  <2>10. Keeps(g, h) /\ SameLoop(g, h) /\ h.in = g.in /\ (h.out <=> g.out /\ ~last) /\ h.sent = t
    <3>1. CASE ~g.out
      BY <1>4, <2>5, <2>6, <2>7, <2>9, <3>1, CorePayloadFacts, KeepsSelf DEF SameOpen, SameLoop
    <3>2. CASE g.out
      BY <1>4, <2>5, <2>6, <2>7, <2>9, <3>2, CorePayloadFacts DEF SameOpen
    <3>. QED
      BY <3>1, <3>2
  <2>11. h \in EndType /\ Sound(h) /\ h.drain = e.drain /\ h.wip = e.wip /\ h.requested = e.requested
    BY <2>5, <2>10 DEF Keeps, Sound, SameLoop, SameDemand
  <2>12. PICK l \in Loops : /\ f = [h EXCEPT !.drain = l]
                            /\ IF last THEN l.at = "idle" /\ l.delivered = 0
                               ELSE /\ l.at = "callback" /\ l.delivered = e.drain.delivered + 1
                                    /\ l.requested = e.drain.requested
    <3>1. CASE last
      BY <2>8, <3>1, IdleLoop
    <3>2. CASE ~last
      <4>1. PICK d : d = e.drain /\ d = h.drain
        BY <2>11
      <4>2. PICK l : l = [d EXCEPT !.delivered = @ + 1, !.at = "callback"]
        OBVIOUS
      <4>3. d \in Loops
        BY <1>4, <4>1, Fields
      <4>4. l \in Loops /\ l.at = "callback" /\ l.delivered = d.delivered + 1 /\ l.requested = d.requested
        <5>1. PICK w : w = d.delivered + 1
          OBVIOUS
        <5>2. w \in Nat
          BY <1>6, <4>1, <5>1
        <5>3. l = [d EXCEPT !.delivered = w, !.at = "callback"]
          BY <4>2, <4>3, <5>1 DEF Loops
        <5>. QED
          BY <4>3, <5>1, <5>2, <5>3 DEF Loops
      <4>5. f = [h EXCEPT !.drain = l]
        BY <2>8, <2>11, <3>2, <4>1, <4>2, <4>3 DEF Loops, EndType
      <4>. QED
        BY <3>2, <4>1, <4>4, <4>5
    <3>. QED
      BY <3>1, <3>2
  <2>13. /\ f \in EndType /\ f.drain = l /\ SameSource(h, f) /\ SameSink(h, f) /\ SameOpen(h, f)
         /\ f.requested = h.requested /\ f.wip = h.wip /\ f.role = h.role /\ f.closed = h.closed
         /\ f.sent = h.sent
    BY <2>11, <2>12, CountFacts
  <2>14. Sound(f)
    <3>1. f.closed => ~f.out
      BY <2>11, <2>13 DEF Sound, LoopInv, SameOpen
    <3>2. CASE last
      BY <2>12, <2>13, <3>1, <3>2 DEF Sound, LoopInv
    <3>3. CASE ~last
      <4>1. e.drain.delivered < e.requested
        BY <1>6, <1>10
      <4>. QED
        BY <1>6, <2>11, <2>12, <2>13, <3>1, <3>3, <4>1 DEF Sound, LoopInv
    <3>. QED
      BY <3>2, <3>3
  <2>15. f.role = p /\ f.sent = t
    BY <1>4, <2>5, <2>10, <2>13 DEF Keeps
  <2>16. /\ Typed' /\ case' = case /\ (\A x \in Peers : LoopInv(ends'[x]))
         /\ Keeps(f, ends'[p]) /\ SameOpen(f, ends'[p]) /\ Sends(p, t)
    BY <1>7, <2>14, <2>15
  <2>17. PICK z : z = ends'[p]
    OBVIOUS
  <2>18. /\ z.source = e.source /\ z.emitted = e.emitted /\ z.ended = e.ended /\ z.waited = e.waited
         /\ z.buffer = s /\ SameSink(e, z) /\ z.in = e.in /\ (z.out <=> e.out /\ ~last)
         /\ z.requested = e.requested /\ z.drain.delivered = l.delivered
    BY <2>5, <2>10, <2>11, <2>13, <2>16, <2>17 DEF Keeps, SameSource, SameSink, SameGot, SameOpen, SameDemand
  <2>19. z.out => Owed(z) = Owed(e) - 1
    <3>1. ASSUME z.out PROVE l.delivered = e.drain.delivered + 1
      BY <2>12, <2>18, <3>1
    <3>. QED
      BY <1>6, <2>18, <3>1 DEF Owed
  <2>20. SendsItem(p, e, z)
    <3>1. e.requested > 0 /\ z.requested <= e.requested
      BY <1>6, <1>10, <2>18
    <3>. QED
      BY <1>10, <2>1, <2>2, <2>9, <2>16, <2>18, <2>19, <3>1 DEF SendsItem
  <2>. QED
    BY <1>1, <2>16, <2>17, <2>20 DEF Steps, EffectOn
<1>11. ASSUME NEW h, h \in EndType, h.closed => ~h.out, f = [h EXCEPT !.drain = Idle], h.role = p
       PROVE  /\ Sound(f) /\ f.role = p /\ f.sent = h.sent
              /\ Typed' /\ case' = case /\ (\A x \in Peers : LoopInv(ends'[x])) /\ Sends(p, h.sent)
              /\ SameSource(h, ends'[p]) /\ SameSink(h, ends'[p]) /\ SameOpen(h, ends'[p])
              /\ ends'[p].requested = h.requested /\ ends'[p].drain.delivered = 0
  <2>1. /\ f \in EndType /\ f.drain = Idle /\ SameSource(h, f) /\ SameSink(h, f) /\ SameOpen(h, f)
        /\ f.requested = h.requested /\ f.role = h.role /\ f.closed = h.closed /\ f.sent = h.sent
    BY <1>11, IdleLoop, CountFacts
  <2>2. Sound(f)
    BY <1>11, <2>1, IdleLoop DEF Sound, LoopInv, SameOpen
  <2>3. /\ Typed' /\ case' = case /\ (\A x \in Peers : LoopInv(ends'[x]))
        /\ Keeps(f, ends'[p]) /\ SameOpen(f, ends'[p]) /\ Sends(p, h.sent)
    BY <1>7, <1>11, <2>1, <2>2
  <2>. QED
    BY <1>11, <2>1, <2>2, <2>3, IdleLoop DEF Keeps, SameSource, SameSink, SameGot, SameOpen, SameDemand
<1>12. CASE ~(e.drain.delivered >= e.drain.requested) /\ e.buffer = <<>> /\ e.ended = "error"
  <2>1. PICK h : h = coreError(e)
    OBVIOUS
  <2>2. f = [h EXCEPT !.drain = Idle]
    BY <1>2, <1>12, <2>1 DEF Turn, Terminate
  <2>3. CASE ~e.out
    <3>1. h = e
      BY <1>4, <2>1, <2>3, CoreErrorFacts
    <3>2. e.closed => ~e.out
      BY <2>3
    <3>3. Fails(p, e, ends'[p]) /\ Typed' /\ case' = case /\ (\A x \in Peers : LoopInv(ends'[x]))
      BY <1>4, <1>6, <1>11, <1>12, <2>2, <2>3, <3>1, <3>2 DEF Fails, SameSource, SameSink
    <3>. QED
      BY <1>1, <3>3 DEF Steps, EffectOn
  <2>4. CASE e.out
    <3>1. /\ KeepsItems(e, h) /\ ~h.in /\ ~h.out /\ h.sent = <<Frame("ERROR", 0, FALSE)>>
          /\ h.observer = IF e.in /\ e.observer = "open" THEN "error" ELSE e.observer
      BY <1>4, <2>1, <2>4, CoreErrorFacts
    <3>2. h \in EndType /\ (h.closed => ~h.out) /\ h.role = p
      BY <1>4, <3>1 DEF KeepsItems, Sound
    <3>3. Fails(p, e, ends'[p]) /\ Typed' /\ case' = case /\ (\A x \in Peers : LoopInv(ends'[x]))
      <4>1. /\ Typed' /\ case' = case /\ (\A x \in Peers : LoopInv(ends'[x])) /\ Sends(p, h.sent)
            /\ SameSource(h, ends'[p]) /\ SameSink(h, ends'[p]) /\ SameOpen(h, ends'[p])
            /\ ends'[p].requested = h.requested
        BY <1>11, <2>2, <3>2
      <4>2. /\ SameSource(e, ends'[p]) /\ SameGot(e, ends'[p]) /\ ends'[p].requested = e.requested
            /\ ends'[p].observer = h.observer /\ ~ends'[p].in /\ ~ends'[p].out /\ ends'[p].ended = "error"
        BY <1>12, <3>1, <4>1 DEF KeepsItems, SameSource, SameSink, SameGot, SameOpen, SameDemand
      <4>. QED
        BY <1>6, <2>4, <3>1, <4>1, <4>2 DEF Fails
    <3>. QED
      BY <1>1, <3>3 DEF Steps, EffectOn
  <2>. QED
    BY <2>3, <2>4
<1>13. CASE ~(e.drain.delivered >= e.drain.requested) /\ e.buffer = <<>> /\ e.ended = "complete"
  <2>1. PICK h : h = corePayload(e, 0, TRUE)
    OBVIOUS
  <2>2. f = [h EXCEPT !.drain = Idle]
    BY <1>2, <1>13, <2>1 DEF Turn, Terminate
  <2>3. /\ Keeps(e, h) /\ h.in = e.in /\ ~h.out
        /\ h.sent = IF e.out THEN <<Frame("PAYLOAD", 0, TRUE)>> ELSE <<>>
    <3>1. CASE ~e.out
      <4>1. h = e
        BY <1>4, <2>1, <3>1, CorePayloadFacts, Zenon
      <4>. QED
        BY <1>4, <3>1, <4>1, KeepsSelf
    <3>2. CASE e.out
      BY <1>4, <2>1, <3>2, CorePayloadFacts
    <3>. QED
      BY <3>1, <3>2
  <2>4. h \in EndType /\ (h.closed => ~h.out) /\ h.role = p
    BY <1>4, <2>3 DEF Keeps, Sound
  <2>5. /\ Typed' /\ case' = case /\ (\A x \in Peers : LoopInv(ends'[x])) /\ Sends(p, h.sent)
        /\ SameSource(h, ends'[p]) /\ SameSink(h, ends'[p]) /\ SameOpen(h, ends'[p])
        /\ ends'[p].requested = h.requested
    BY <1>11, <2>2, <2>4
  <2>6. /\ SameSource(e, ends'[p]) /\ SameSink(e, ends'[p]) /\ ends'[p].requested = e.requested
        /\ ends'[p].in = e.in /\ ~ends'[p].out /\ ends'[p].ended = "complete"
    BY <1>13, <2>3, <2>5 DEF Keeps, SameSource, SameSink, SameGot, SameOpen, SameDemand
  <2>7. e.requested > 0
    BY <1>6, <1>13
  <2>8. Completes(p, e, ends'[p])
    BY <1>6, <1>13, <2>3, <2>5, <2>6, <2>7 DEF Completes
  <2>. QED
    BY <1>1, <2>5, <2>8 DEF Steps, EffectOn
<1>14. CASE ~(e.drain.delivered >= e.drain.requested) /\ e.buffer = <<>> /\ e.ended = "no" /\ e.closed
  <2>1. f = [e EXCEPT !.drain = Idle]
    BY <1>2, <1>14 DEF Turn
  <2>2. ~e.out
    BY <1>4, <1>14 DEF Sound, LoopInv
  <2>3. /\ Typed' /\ case' = case /\ (\A x \in Peers : LoopInv(ends'[x])) /\ Sends(p, <<>>)
        /\ SameSource(e, ends'[p]) /\ SameSink(e, ends'[p]) /\ SameOpen(e, ends'[p])
        /\ ends'[p].requested = e.requested
    BY <1>4, <1>11, <2>1, <2>2
  <2>4. Turns(p, e, ends'[p])
    BY <1>6, <2>2, <2>3 DEF Turns
  <2>. QED
    BY <1>1, <2>3, <2>4 DEF Steps, EffectOn
<1>15. \/ f = EndOfRound(e)
       \/ ~(e.drain.delivered >= e.drain.requested) /\ e.buffer # <<>>
       \/ ~(e.drain.delivered >= e.drain.requested) /\ e.buffer = <<>> /\ e.ended = "error"
       \/ ~(e.drain.delivered >= e.drain.requested) /\ e.buffer = <<>> /\ e.ended = "complete"
       \/ ~(e.drain.delivered >= e.drain.requested) /\ e.buffer = <<>> /\ e.ended = "no" /\ e.closed
  BY <1>2, <1>6 DEF Turn, Outcomes
<1>. QED
  BY <1>9, <1>10, <1>12, <1>13, <1>14, <1>15

\* The end that makes a step, before it.
LEMMA HereFacts ==
  ASSUME IInv, NEW p \in Peers, NEW e, e = ends[p]
  PROVE  /\ Typed /\ Sound(e) /\ e \in EndType /\ e.role = p /\ e.sent = <<>> /\ SourceInv(e)
         /\ LoopInv(ends[Other(p)]) /\ net[p] \in Seq(Frames)
BY TwoEnds DEF IInv, Typed, Sound

\* A step of p that takes no frame: what p sends.
LEMMA SendingFacts ==
  ASSUME IInv, NEW p \in Peers, NEW g, Sound(g), g.role = p, Becomes(p, g, net[p])
  PROVE  /\ Typed' /\ case' = case /\ (\A x \in Peers : LoopInv(ends'[x]))
         /\ Keeps(g, ends'[p]) /\ SameOpen(g, ends'[p]) /\ Sends(p, g.sent)
<1>1. Typed /\ LoopInv(ends[Other(p)]) /\ net[p] \in Seq(Frames)
  BY HereFacts
<1>. QED
  BY <1>1, BecomesFacts DEF Sends

\* A step of p that takes a frame.
LEMMA TakingFacts ==
  ASSUME IInv, NEW p \in Peers, net[p] # <<>>, NEW g, Sound(g), g.role = p, Becomes(p, g, Tail(net[p]))
  PROVE  /\ Typed' /\ case' = case /\ (\A x \in Peers : LoopInv(ends'[x]))
         /\ Keeps(g, ends'[p]) /\ SameOpen(g, ends'[p]) /\ Takes(p, g.sent)
<1>1. Typed /\ LoopInv(ends[Other(p)]) /\ net[p] \in Seq(Frames)
  BY HereFacts
<1>2. Tail(net[p]) \in Seq(Frames)
  BY <1>1, HeadTailProperties
<1>. QED
  BY <1>1, <1>2, BecomesFacts DEF Takes

\* The source emits an item.
LEMMA SourceNextStep ==
  ASSUME IInv, NEW p \in Peers, SourceNext(p)
  PROVE  Steps(p)
<1>1. PICK e : e = ends[p]
  OBVIOUS
<1>2. PICK f : f = next(e)
  OBVIOUS
<1>3. Sound(e) /\ e \in EndType /\ e.role = p /\ e.sent = <<>>
  BY <1>1, HereFacts
<1>4. e.source = "on" /\ Becomes(p, f, net[p]) /\ e.emitted \in Nat /\ e.buffer \in Seq(Nat)
  BY <1>1, <1>2, <1>3, Fields DEF SourceNext
<1>5. PICK n \in Numbers : n = e.emitted + 1 /\ n \in Nat
  BY <1>4 DEF Numbers
<1>6. PICK g : g = [e EXCEPT !.emitted = n]
  OBVIOUS
<1>7. g = [e EXCEPT !.emitted = @ + 1]
  BY <1>3, <1>5, <1>6 DEF EndType
<1>8. /\ g \in EndType /\ g.source = e.source /\ g.emitted = n /\ g.ended = e.ended /\ g.waited = e.waited
      /\ g.buffer = e.buffer /\ SameSink(e, g) /\ SameOpen(e, g) /\ g.requested = e.requested /\ g.wip = e.wip
      /\ g.drain = e.drain /\ g.closed = e.closed /\ g.role = e.role /\ g.sent = e.sent
  BY <1>3, <1>6 DEF EndType, SameSink, SameGot, SameOpen
<1>9. CASE case.kind = "response"
  <2>1. PICK h : h = [g EXCEPT !.source = "torn", !.ended = "complete"]
    OBVIOUS
  <2>2. f = corePayload(h, n, TRUE)
    BY <1>2, <1>7, <1>8, <1>9, <2>1, Zenon DEF next
  <2>3. "torn" \in Sources /\ "complete" \in Outcomes
    BY DEF Sources, Outcomes
  <2>4. /\ h \in EndType /\ h.source = "torn" /\ h.emitted = n /\ h.ended = "complete" /\ h.waited = e.waited
        /\ h.buffer = e.buffer /\ SameSink(g, h) /\ SameOpen(g, h) /\ h.requested = e.requested /\ h.wip = e.wip
        /\ h.drain = e.drain /\ h.closed = e.closed /\ h.role = e.role /\ h.sent = e.sent
    BY <1>8, <2>1, <2>3 DEF EndType, SameSink, SameGot, SameOpen
  <2>5. SameSink(e, h) /\ SameOpen(e, h) /\ SameDemand(e, h)
    BY <1>8, <2>4 DEF SameSink, SameGot, SameOpen, SameDemand
  <2>6. Sound(h) /\ h.sent = <<>> /\ h.role = p
    BY <1>3, <2>4, <2>5 DEF Sound, LoopInv, SameOpen
  <2>7. PICK t : t = IF e.out THEN <<Frame("PAYLOAD", n, TRUE)>> ELSE <<>>
    OBVIOUS
  <2>8. Keeps(h, f) /\ f.in = h.in /\ ~f.out /\ f.sent = t
    <3>1. CASE ~h.out
      <4>1. f = h
        BY <1>5, <2>2, <2>6, <3>1, CorePayloadFacts, Zenon
      <4>. QED
        BY <2>5, <2>6, <2>7, <3>1, <4>1, KeepsSelf DEF SameOpen
    <3>2. CASE h.out
      BY <1>5, <2>2, <2>5, <2>6, <2>7, <3>2, CorePayloadFacts, ZenonT(40) DEF SameOpen
    <3>. QED
      BY <3>1, <3>2
  <2>9. /\ Typed' /\ case' = case /\ (\A x \in Peers : LoopInv(ends'[x]))
        /\ Keeps(f, ends'[p]) /\ SameOpen(f, ends'[p]) /\ Sends(p, t)
    <3>1. Sound(f) /\ f.role = p
      BY <2>6, <2>8 DEF Keeps
    <3>. QED
      BY <1>4, <2>8, <3>1, SendingFacts, Zenon
  <2>10. Keeps(h, ends'[p])
    BY <2>8, <2>9, KeepsTwice, Zenon
  <2>11. Responds(p, e, ends'[p])
    BY <1>4, <1>5, <1>9, <2>4, <2>5, <2>7, <2>8, <2>9, <2>10
       DEF Responds, Keeps, SameSource, SameSink, SameGot, SameOpen, SameDemand
  <2>. QED
    BY <1>1, <2>9, <2>11, Zenon DEF Steps, EffectOn
<1>10. CASE case.kind # "response"
  <2>0. PICK s \in NumberSeqs : s = Append(e.buffer, n)
    BY <1>4, <1>5, AppendProperties DEF NumberSeqs
  <2>1. PICK h : h = [g EXCEPT !.buffer = s]
    OBVIOUS
  <2>2. f = drain(h)
    <3>1. h = [g EXCEPT !.buffer = Append(@, g.emitted)]
      BY <1>8, <2>0, <2>1 DEF EndType
    <3>. QED
      BY <1>2, <1>7, <1>10, <3>1, Zenon DEF next
  <2>4. /\ h \in EndType /\ h.source = e.source /\ h.emitted = n /\ h.ended = e.ended /\ h.waited = e.waited
        /\ h.buffer = s /\ SameSink(g, h) /\ SameOpen(g, h) /\ h.requested = e.requested /\ h.wip = e.wip
        /\ h.drain = e.drain /\ h.closed = e.closed /\ h.role = e.role /\ h.sent = e.sent
    BY <1>8, <2>1 DEF EndType, SameSink, SameGot, SameOpen
  <2>5. SameSink(e, h) /\ SameOpen(e, h) /\ SameDemand(e, h)
    BY <1>8, <2>4 DEF SameSink, SameGot, SameOpen, SameDemand
  <2>6. Sound(h) /\ h.sent = <<>> /\ h.role = p
    BY <1>3, <2>4, <2>5 DEF Sound, LoopInv, SameOpen
  <2>7. Keeps(h, f) /\ SameOpen(h, f) /\ f.sent = <<>>
    BY <2>2, <2>6, DrainFacts, Zenon
  <2>9. /\ Typed' /\ case' = case /\ (\A x \in Peers : LoopInv(ends'[x]))
        /\ Keeps(f, ends'[p]) /\ SameOpen(f, ends'[p]) /\ Sends(p, <<>>)
    <3>1. Sound(f) /\ f.role = p
      BY <2>6, <2>7 DEF Keeps
    <3>. QED
      BY <1>4, <2>7, <3>1, SendingFacts, Zenon
  <2>10. Keeps(h, ends'[p])
    BY <2>7, <2>9, KeepsTwice, Zenon
  <2>11. Emits(p, e, ends'[p])
    BY <1>4, <1>5, <1>10, <2>0, <2>4, <2>5, <2>7, <2>9, <2>10
       DEF Emits, Keeps, SameSource, SameSink, SameGot, SameOpen, SameDemand
  <2>. QED
    BY <1>1, <2>9, <2>11, Zenon DEF Steps, EffectOn
<1>. QED
  BY <1>9, <1>10

\* The source ends.
LEMMA SourceEndsStep ==
  ASSUME IInv, NEW p \in Peers, NEW how \in {"complete", "error"}, SourceEnds(p, how)
  PROVE  Steps(p)
<1>1. PICK e : e = ends[p]
  OBVIOUS
<1>2. PICK f : f = end(e, how)
  OBVIOUS
<1>3. Sound(e) /\ e \in EndType /\ e.role = p /\ e.sent = <<>> /\ SourceInv(e)
  BY <1>1, HereFacts
<1>4. e.source = "on" /\ Becomes(p, f, net[p]) /\ e.requested \in Nat
  BY <1>1, <1>2, <1>3, Fields DEF SourceEnds
<1>5. PICK w \in Flags : w = (e.buffer # <<>>)
  BY DEF Flags
<1>6. PICK g : g = [e EXCEPT !.ended = how, !.source = "ended"]
  OBVIOUS
<1>7. PICK h : h = [g EXCEPT !.waited = w]
  OBVIOUS
<1>8. h = [e EXCEPT !.ended = how, !.source = "ended", !.waited = e.buffer # <<>>]
  BY <1>5, <1>6, <1>7
<1>9. "ended" \in Sources /\ how \in Outcomes
  BY DEF Sources, Outcomes
<1>10. /\ g \in EndType /\ g.source = "ended" /\ g.emitted = e.emitted /\ g.ended = how
       /\ g.buffer = e.buffer /\ SameSink(e, g) /\ SameOpen(e, g) /\ g.requested = e.requested /\ g.wip = e.wip
       /\ g.drain = e.drain /\ g.closed = e.closed /\ g.role = e.role /\ g.sent = e.sent
  BY <1>3, <1>6, <1>9 DEF EndType, SameSink, SameGot, SameOpen
<1>11. /\ h \in EndType /\ h.source = "ended" /\ h.emitted = e.emitted /\ h.ended = how /\ h.waited = w
       /\ h.buffer = e.buffer /\ SameSink(g, h) /\ SameOpen(g, h) /\ h.requested = e.requested /\ h.wip = e.wip
       /\ h.drain = e.drain /\ h.closed = e.closed /\ h.role = e.role /\ h.sent = e.sent
  BY <1>7, <1>10 DEF EndType, SameSink, SameGot, SameOpen
<1>12. SameSink(e, h) /\ SameOpen(e, h) /\ SameDemand(e, h) /\ SourceDone(e, h)
  BY <1>4, <1>5, <1>10, <1>11 DEF SameSink, SameGot, SameOpen, SameDemand, SourceDone
<1>13. Sound(h) /\ h.sent = <<>> /\ h.role = p
  BY <1>3, <1>11, <1>12 DEF Sound, LoopInv, SameOpen
<1>14. ASSUME Sound(f), f.role = p
       PROVE  /\ Typed' /\ case' = case /\ (\A x \in Peers : LoopInv(ends'[x]))
              /\ Keeps(f, ends'[p]) /\ SameOpen(f, ends'[p]) /\ Sends(p, f.sent)
  BY <1>4, <1>14, SendingFacts, Zenon
<1>15. CASE case.kind # "response"
  <2>1. f = drain(h)
    BY <1>2, <1>8, <1>15, Zenon DEF end
  <2>2. Keeps(h, f) /\ SameOpen(h, f) /\ f.sent = <<>>
    BY <1>13, <2>1, DrainFacts, Zenon
  <2>3. /\ Typed' /\ case' = case /\ (\A x \in Peers : LoopInv(ends'[x]))
        /\ Keeps(f, ends'[p]) /\ SameOpen(f, ends'[p]) /\ Sends(p, <<>>)
    BY <1>13, <1>14, <2>2, Zenon DEF Keeps
  <2>4. Keeps(h, ends'[p])
    BY <2>2, <2>3, KeepsTwice, Zenon
  <2>5. Finishes(p, e, ends'[p])
    BY <1>12, <1>15, <2>2, <2>3, <2>4
       DEF Finishes, Keeps, SourceDone, SameSource, SameSink, SameGot, SameOpen, SameDemand
  <2>. QED
    BY <1>1, <2>3, <2>5, Zenon DEF Steps, EffectOn
<1>16. CASE case.kind = "response" /\ how = "error"
  <2>1. f = coreError(h)
    BY <1>2, <1>8, <1>16, Zenon DEF end
  <2>2. CASE ~h.out
    <3>1. f = h
      BY <1>13, <2>1, <2>2, CoreErrorFacts, Zenon
    <3>2. /\ Typed' /\ case' = case /\ (\A x \in Peers : LoopInv(ends'[x]))
          /\ Keeps(h, ends'[p]) /\ SameOpen(h, ends'[p]) /\ Sends(p, <<>>)
      BY <1>13, <1>14, <3>1, Zenon
    <3>3. Fails(p, e, ends'[p])
      BY <1>4, <1>11, <1>12, <1>16, <2>2, <3>2
         DEF Fails, Keeps, SourceDone, SameSource, SameSink, SameGot, SameOpen, SameDemand
    <3>. QED
      BY <1>1, <3>2, <3>3, Zenon DEF Steps, EffectOn
  <2>3. CASE h.out
    <3>1. /\ KeepsItems(h, f) /\ ~f.in /\ ~f.out /\ f.sent = <<Frame("ERROR", 0, FALSE)>>
          /\ f.observer = IF h.in /\ h.observer = "open" THEN "error" ELSE h.observer
      BY <1>13, <2>1, <2>3, CoreErrorFacts, Zenon
    <3>2. /\ Typed' /\ case' = case /\ (\A x \in Peers : LoopInv(ends'[x]))
          /\ Keeps(f, ends'[p]) /\ SameOpen(f, ends'[p]) /\ Sends(p, f.sent)
      BY <1>13, <1>14, <3>1, Zenon DEF KeepsItems
    <3>3. Fails(p, e, ends'[p])
      BY <1>4, <1>11, <1>12, <1>16, <2>3, <3>1, <3>2
         DEF Fails, Keeps, KeepsItems, SourceDone, SameSource, SameSink, SameGot, SameOpen, SameDemand
    <3>. QED
      BY <1>1, <3>2, <3>3, Zenon DEF Steps, EffectOn
  <2>. QED
    BY <2>2, <2>3
<1>17. CASE case.kind = "response" /\ how = "complete"
  <2>1. f = corePayload(h, 0, TRUE)
    BY <1>2, <1>8, <1>17 DEF end
  <2>2. PICK t : t = IF e.out THEN <<Frame("PAYLOAD", 0, TRUE)>> ELSE <<>>
    OBVIOUS
  <2>3. Keeps(h, f) /\ f.in = h.in /\ ~f.out /\ f.sent = t
    <3>1. CASE ~h.out
      <4>1. f = h
        BY <1>13, <2>1, <3>1, CorePayloadFacts
      <4>. QED
        BY <1>12, <1>13, <2>2, <3>1, <4>1, KeepsSelf DEF SameOpen
    <3>2. CASE h.out
      BY <1>12, <1>13, <2>1, <2>2, <3>2, CorePayloadFacts, ZenonT(40) DEF SameOpen
    <3>. QED
      BY <3>1, <3>2
  <2>4. /\ Typed' /\ case' = case /\ (\A x \in Peers : LoopInv(ends'[x]))
        /\ Keeps(f, ends'[p]) /\ SameOpen(f, ends'[p]) /\ Sends(p, t)
    BY <1>13, <1>14, <2>3, Zenon DEF Keeps
  <2>5. Keeps(h, ends'[p])
    BY <2>3, <2>4, KeepsTwice, Zenon
  <2>6. e.buffer = <<>>
    BY <1>3, <1>17 DEF SourceInv
  <2>7. /\ SourceDone(e, ends'[p]) /\ ends'[p].ended = "complete" /\ SameSink(e, ends'[p]) /\ ends'[p].in = e.in
        /\ ~ends'[p].out /\ ends'[p].requested = e.requested
    BY <1>11, <1>12, <1>17, <2>3, <2>4, <2>5
       DEF Keeps, SourceDone, SameSource, SameSink, SameGot, SameOpen, SameDemand
  <2>8. Completes(p, e, ends'[p])
    BY <1>4, <1>17, <2>2, <2>4, <2>6, <2>7 DEF Completes
  <2>. QED
    BY <1>1, <2>4, <2>8, Zenon DEF Steps, EffectOn
<1>. QED
  BY <1>15, <1>16, <1>17

\* The scheduler runs a task.
LEMMA TaskStep ==
  ASSUME IInv, NEW p \in Peers, Task(p)
  PROVE  Steps(p)
<1>1. PICK e : e = ends[p]
  OBVIOUS
<1>2. Sound(e) /\ e \in EndType /\ e.role = p /\ e.sent = <<>> /\ e.tasks \in Seq(Nat) /\ e.tasks # <<>>
  BY <1>1, HereFacts, Fields DEF Task
<1>3. PICK s \in NumberSeqs, n \in Nat : s = Tail(e.tasks) /\ n = Head(e.tasks)
  BY <1>2, HeadTailProperties DEF NumberSeqs
<1>4. PICK g : g = [e EXCEPT !.tasks = s]
  OBVIOUS
<1>5. g = [e EXCEPT !.tasks = Tail(@)]
  BY <1>2, <1>3, <1>4 DEF EndType
<1>6. PICK f : f = coreRequest(g, n)
  OBVIOUS
<1>7. Becomes(p, f, net[p])
  BY <1>1, <1>3, <1>5, <1>6 DEF Task
<1>8. /\ g \in EndType /\ SameSource(e, g) /\ SameOpen(e, g) /\ g.tasks = s /\ g.observer = e.observer
      /\ g.items = e.items /\ g.received = e.received /\ g.requested = e.requested /\ g.wip = e.wip
      /\ g.drain = e.drain /\ g.closed = e.closed /\ g.role = e.role /\ g.sent = e.sent
  BY <1>2, <1>4 DEF EndType, SameSource, SameOpen
<1>9. Sound(g) /\ g.sent = <<>> /\ g.role = p
  BY <1>2, <1>8 DEF Sound, LoopInv, SameOpen
<1>10. /\ Keeps(g, f) /\ SameOpen(g, f)
       /\ f.sent = IF g.in THEN <<Frame("REQUEST_N", n, FALSE)>> ELSE <<>>
  BY <1>6, <1>9, CoreRequestFacts, Zenon
<1>11. /\ Typed' /\ case' = case /\ (\A x \in Peers : LoopInv(ends'[x]))
       /\ Keeps(f, ends'[p]) /\ SameOpen(f, ends'[p]) /\ Sends(p, f.sent)
  <2>1. Sound(f) /\ f.role = p
    BY <1>9, <1>10 DEF Keeps
  <2>. QED
    BY <1>7, <2>1, SendingFacts, Zenon
<1>12. Keeps(g, ends'[p])
  BY <1>10, <1>11, KeepsTwice, Zenon
<1>13. f.sent = IF e.in THEN <<Frame("REQUEST_N", Head(e.tasks), FALSE)>> ELSE <<>>
  BY <1>3, <1>8, <1>10 DEF SameOpen
<1>14. RunsTask(p, e, ends'[p])
  BY <1>2, <1>3, <1>8, <1>10, <1>11, <1>12, <1>13
     DEF RunsTask, Keeps, SameSource, SameSink, SameGot, SameOpen, SameDemand
<1>. QED
  BY <1>1, <1>11, <1>14, Zenon DEF Steps, EffectOn

\* The application leaves the observable.
LEMMA UnsubscribeStep ==
  ASSUME IInv, NEW p \in Peers, Unsubscribe(p)
  PROVE  Steps(p)
<1>1. PICK e : e = ends[p]
  OBVIOUS
<1>2. PICK f : f = Ends(e, "gone")
  OBVIOUS
<1>3. Sound(e) /\ e.role = p /\ e.sent = <<>> /\ e.observer = "open" /\ Becomes(p, f, net[p]) /\ "gone" \in Observers
  BY <1>1, <1>2, HereFacts DEF Unsubscribe, Observers
<1>4. /\ KeepsItems(e, f) /\ f.observer = "gone"
      /\ ~f.in /\ (f.out <=> e.out /\ e.role = Responder) /\ f.sent = CancelFrames(e)
  BY <1>2, <1>3, EndsFacts
<1>5. /\ Typed' /\ case' = case /\ (\A x \in Peers : LoopInv(ends'[x]))
      /\ Keeps(f, ends'[p]) /\ SameOpen(f, ends'[p]) /\ Sends(p, CancelFrames(e))
  <2>1. Sound(f) /\ f.role = p
    BY <1>3, <1>4 DEF KeepsItems
  <2>. QED
    BY <1>3, <1>4, <2>1, SendingFacts
<1>6. Leaves(p, e, ends'[p])
  BY <1>3, <1>4, <1>5
     DEF Leaves, Keeps, KeepsItems, SameSource, SameSink, SameGot, SameOpen, SameDemand
<1>. QED
  BY <1>1, <1>5, <1>6, Zenon DEF Steps, EffectOn

\* The case of a run, and the payloads after which more is asked for.
LEMMA CaseFacts ==
  ASSUME Typed
  PROVE  /\ case.kind \in {"response", "stream", "channel"} /\ case.prefetch \in Nat /\ case.prefetch >= 1
         /\ Limit \in Nat /\ Limit >= 1 /\ Limit <= case.prefetch
<1>1. case.kind \in {"response", "stream", "channel"} /\ case.prefetch \in Nat /\ case.prefetch >= 1
  BY RxAdapterAssumption DEF Typed
<1>2. \A n \in Nat : n >= 1 => n - (n \div 4) \in Nat /\ n - (n \div 4) >= 1 /\ n - (n \div 4) <= n
  OBVIOUS
<1>. QED
  BY <1>1, <1>2 DEF Limit

\* What the handler of the responder makes of a request.
LEMMA AcceptFacts ==
  ASSUME Typed, NEW f, f = accept
  PROVE  /\ Sound(f) /\ f.role = Responder /\ f.sent = <<>>
         /\ f.source = "on" /\ f.emitted = 0 /\ f.ended = "no" /\ f.buffer = <<>> /\ f.drain.delivered = 0
         /\ f.out /\ (f.in <=> case.kind = "channel")
         /\ f.requested = IF case.kind = "response" THEN 0 ELSE case.prefetch
         /\ IF case.kind = "channel"
            THEN /\ f.observer = "open" /\ f.items = <<1>> /\ f.received = 1
                 /\ f.tasks = IF 1 % Limit = 0 THEN <<Limit, case.prefetch - 1>> ELSE <<case.prefetch - 1>>
            ELSE f.observer = "none" /\ f.items = <<>>
<1>1. PICK r \in Numbers : r = IF case.kind = "response" THEN 0 ELSE case.prefetch
  BY CaseFacts DEF Numbers
<1>2. PICK c \in Flags : c = (case.kind = "channel")
  BY DEF Flags
<1>3. PICK e : e = End(Responder, "on", r, c, TRUE)
  OBVIOUS
<1>4. /\ e \in EndType /\ e.role = Responder /\ e.source = "on" /\ e.emitted = 0 /\ e.ended = "no"
      /\ e.waited = FALSE /\ e.requested = r /\ e.buffer = <<>> /\ e.wip = 0 /\ e.closed = FALSE /\ e.drain = Idle
      /\ e.observer = (IF c THEN "open" ELSE "none") /\ e.received = 0 /\ e.items = <<>> /\ e.tasks = <<>>
      /\ e.in = c /\ e.out = TRUE /\ e.sent = <<>>
  <2>1. /\ Responder \in Peers /\ "on" \in Sources /\ 0 \in Numbers /\ "no" \in Outcomes /\ FALSE \in Flags
        /\ TRUE \in Flags /\ <<>> \in NumberSeqs /\ Idle \in Loops /\ "open" \in Observers /\ "none" \in Observers
        /\ <<>> \in FrameSeqs
    BY IdleLoop DEF Peers, Sources, Numbers, Outcomes, Flags, NumberSeqs, Observers, FrameSeqs
  <2>2. (IF c THEN "open" ELSE "none") \in Observers
    BY <2>1
  <2>3. e = [role |-> Responder, source |-> "on", emitted |-> 0, ended |-> "no", waited |-> FALSE,
             requested |-> r, buffer |-> <<>>, wip |-> 0, closed |-> FALSE, drain |-> Idle,
             observer |-> IF c THEN "open" ELSE "none", received |-> 0, items |-> <<>>, tasks |-> <<>>,
             in |-> c, out |-> TRUE, sent |-> <<>>]
    BY <1>3 DEF End
  <2>. QED
    BY <2>1, <2>2, <2>3 DEF EndType
<1>5. ASSUME NEW z, z \in EndType, z.closed = FALSE, z.drain = Idle
      PROVE  Sound(z) /\ z.drain.delivered = 0
  BY <1>5, IdleLoop DEF Sound, LoopInv
<1>6. CASE case.kind # "channel"
  <2>1. f = e
    BY <1>1, <1>2, <1>3, <1>6 DEF accept
  <2>. QED
    BY <1>1, <1>2, <1>4, <1>5, <1>6, <2>1
<1>7. CASE case.kind = "channel"
  <2>1. PICK k \in Numbers, l \in Numbers : k = case.prefetch - 1 /\ l = Limit
    BY CaseFacts DEF Numbers
  <2>2. PICK n, s : n = 1 /\ s = <<1>>
    OBVIOUS
  <2>2a. n \in Numbers /\ s \in NumberSeqs
    BY <2>2 DEF Numbers, NumberSeqs
  <2>3. PICK t : t = IF 1 % Limit = 0 THEN <<l>> ELSE <<>>
    OBVIOUS
  <2>4. PICK u : u = IF 1 % Limit = 0 THEN <<l, k>> ELSE <<k>>
    OBVIOUS
  <2>5. t \in NumberSeqs /\ u \in NumberSeqs /\ Append(t, k) = u
    <3>1. l \in Nat /\ k \in Nat
      BY DEF Numbers
    <3>2. <<l>> \in Seq(Nat) /\ <<k>> \in Seq(Nat) /\ <<l, k>> \in Seq(Nat) /\ <<>> \in Seq(Nat)
      BY <3>1
    <3>2a. Append(<<>>, k) = <<k>>
      OBVIOUS
    <3>3. Append(<<l>>, k) = <<l, k>>
      <4>1. PICK a, b \in Seq(Nat) : a = <<l>> /\ b = <<l, k>>
        BY <3>2
      <4>2. Append(a, k) \in Seq(Nat) /\ Len(Append(a, k)) = 2 /\ Append(a, k)[1] = l /\ Append(a, k)[2] = k
        BY <3>1, <4>1, AppendProperties
      <4>3. Len(b) = 2 /\ b[1] = l /\ b[2] = k
        BY <4>1
      <4>. QED
        <5>1. PICK made \in Seq(Nat) : made = Append(a, k)
          BY <4>2
        <5>2. Len(made) = Len(b) /\ \A i \in 1 .. Len(made) : made[i] = b[i]
          BY <4>2, <4>3, <5>1
        <5>. QED
          BY <4>1, <5>1, <5>2, SeqEqual
    <3>. QED
      BY <2>3, <2>4, <3>2, <3>2a, <3>3, Zenon DEF NumberSeqs
  <2>6. PICK got : got = [e EXCEPT !.received = n, !.items = s]
    OBVIOUS
  <2>7. got = [e EXCEPT !.received = @ + 1, !.items = IF e.observer = "open" THEN Append(@, 1) ELSE @]
    <3>1. e.received + 1 = n
      BY <1>4, <2>2
    <3>1a. Append(<<>>, 1) = <<1>>
      OBVIOUS
    <3>2. Append(e.items, 1) = s /\ e.observer = "open"
      BY <1>2, <1>4, <1>7, <2>2, <3>1a, Zenon
    <3>. QED
      BY <1>4, <2>6, <3>1, <3>2 DEF EndType
  <2>8. got.received = n /\ got.tasks = <<>> /\ got \in EndType
    BY <1>4, <2>2a, <2>6 DEF EndType
  <2>9. PICK first : first = onNext(e, 1, FALSE)
    OBVIOUS
  <2>10. first = [got EXCEPT !.tasks = t]
    <3>1. got = [got EXCEPT !.tasks = <<>>]
      BY <2>8 DEF EndType
    <3>2. Append(got.tasks, Limit) = <<l>>
      BY <2>1, <2>8
    <3>3. CASE 1 % Limit = 0
      <4>1. first = [got EXCEPT !.tasks = Append(@, Limit)]
        BY <1>7, <2>2, <2>7, <2>8, <2>9, <3>3, Zenon DEF onNext
      <4>. QED
        BY <2>3, <2>8, <3>2, <3>3, <4>1 DEF EndType
    <3>4. CASE 1 % Limit # 0
      <4>1. first = got
        BY <1>7, <2>2, <2>7, <2>8, <2>9, <3>4, Zenon DEF onNext
      <4>. QED
        BY <2>3, <3>1, <3>4, <4>1
    <3>. QED
      BY <3>3, <3>4
  <2>11. first.tasks = t
    BY <2>5, <2>8, <2>10 DEF EndType
  <2>12. f = [first EXCEPT !.tasks = u]
    <3>1. e = End(Responder, "on", IF case.kind = "response" THEN 0 ELSE case.prefetch,
                  case.kind = "channel", TRUE)
      BY <1>1, <1>2, <1>3
    <3>2. f = [first EXCEPT !.tasks = Append(@, case.prefetch - 1)]
      BY <1>7, <2>9, <3>1, Zenon DEF accept
    <3>3. first \in EndType
      BY <2>5, <2>8, <2>10 DEF EndType
    <3>. QED
      BY <2>1, <2>5, <2>11, <3>2, <3>3 DEF EndType
  <2>13. f = [got EXCEPT !.tasks = u]
    BY <2>10, <2>12
  <2>14. PICK h : h = [e EXCEPT !.received = n]
    OBVIOUS
  <2>15. h \in EndType /\ h.role = Responder /\ h.source = "on" /\ h.emitted = 0 /\ h.ended = "no"
         /\ h.requested = r /\ h.buffer = <<>> /\ h.closed = FALSE /\ h.drain = Idle
         /\ h.observer = e.observer /\ h.received = n /\ h.in = c /\ h.out = TRUE /\ h.sent = <<>>
    BY <1>4, <2>2a, <2>14 DEF EndType
  <2>16. got = [h EXCEPT !.items = s]
    BY <2>6, <2>14
  <2>17. got \in EndType /\ got.role = Responder /\ got.source = "on" /\ got.emitted = 0 /\ got.ended = "no"
         /\ got.requested = r /\ got.buffer = <<>> /\ got.closed = FALSE /\ got.drain = Idle
         /\ got.observer = e.observer /\ got.received = n /\ got.items = s /\ got.in = c /\ got.out = TRUE
         /\ got.sent = <<>>
    BY <2>2a, <2>15, <2>16 DEF EndType
  <2>18. f \in EndType /\ f.role = Responder /\ f.source = "on" /\ f.emitted = 0 /\ f.ended = "no"
         /\ f.requested = r /\ f.buffer = <<>> /\ f.closed = FALSE /\ f.drain = Idle
         /\ f.observer = e.observer /\ f.received = n /\ f.items = s /\ f.in = c /\ f.out = TRUE
         /\ f.sent = <<>> /\ f.tasks = u
    BY <2>5, <2>13, <2>17 DEF EndType
  <2>19. Sound(f) /\ f.drain.delivered = 0
    BY <1>5, <2>18
  <2>. QED
    BY <1>1, <1>2, <1>4, <1>7, <2>1, <2>2, <2>4, <2>18, <2>19
<1>. QED
  BY <1>6, <1>7

\* The frame that arrives.
LEMMA ArrivalFacts ==
  ASSUME IInv, NEW p \in Peers, net[p] # <<>>, NEW x, x = Head(net[p])
  PROVE  /\ x \in Frames /\ x.type \in FrameTypes /\ x.n \in Nat /\ x.complete \in BOOLEAN
         /\ x = net[p][1] /\ 1 \in 1 .. Len(net[p])
         /\ x.type = "REQUEST" => Unborn /\ p = Responder
         /\ x.type = "PAYLOAD" /\ (x.n = 0 \/ case.kind = "response") => x.complete
<1>1. net[p] \in Seq(Frames)
  BY HereFacts
<1>2. x \in Frames /\ x = net[p][1] /\ 1 \in 1 .. Len(net[p])
  BY <1>1, HeadTailProperties, EmptySeq, LenProperties
<1>3. x.type = "REQUEST" => Unborn /\ p = Responder
  BY <1>2 DEF IInv, UnbornInv
<1>4. x.type = "PAYLOAD" /\ (x.n = 0 \/ case.kind = "response") => x.complete
  BY <1>2 DEF IInv, FlowInv
<1>. QED
  BY <1>2, <1>3, <1>4 DEF Frames

\* The responder handles the request.
LEMMA AcceptStep ==
  ASSUME IInv, NEW p \in Peers, net[p] # <<>>, Head(net[p]).type = "REQUEST", Becomes(p, accept, Tail(net[p]))
  PROVE  Steps(p)
<1>1. PICK f : f = accept
  OBVIOUS
<1>2. Unborn /\ p = Responder /\ Typed
  BY ArrivalFacts DEF IInv
<1>3. /\ Sound(f) /\ f.role = Responder /\ f.sent = <<>>
      /\ f.source = "on" /\ f.emitted = 0 /\ f.ended = "no" /\ f.buffer = <<>> /\ f.drain.delivered = 0
      /\ f.out /\ (f.in <=> case.kind = "channel")
      /\ f.requested = IF case.kind = "response" THEN 0 ELSE case.prefetch
      /\ IF case.kind = "channel"
         THEN /\ f.observer = "open" /\ f.items = <<1>> /\ f.received = 1
              /\ f.tasks = IF 1 % Limit = 0 THEN <<Limit, case.prefetch - 1>> ELSE <<case.prefetch - 1>>
         ELSE f.observer = "none" /\ f.items = <<>>
  BY <1>1, <1>2, AcceptFacts, Zenon
<1>4. /\ Typed' /\ case' = case /\ (\A x \in Peers : LoopInv(ends'[x]))
      /\ Keeps(f, ends'[p]) /\ SameOpen(f, ends'[p]) /\ Takes(p, <<>>)
  BY <1>1, <1>2, <1>3, TakingFacts
<1>5. Accepts(p, ends[p], ends'[p])
  BY <1>2, <1>3, <1>4 DEF Accepts, Keeps, SameSource, SameSink, SameGot, SameOpen, SameDemand
<1>. QED
  BY <1>4, <1>5, Zenon DEF Steps, EffectOn

\* A payload arrives.
LEMMA PayloadStep ==
  ASSUME IInv, NEW p \in Peers, net[p] # <<>>, NEW x, x = Head(net[p]), x.type = "PAYLOAD",
         ends[p].in \/ ends[p].out, Becomes(p, handle(ends[p], x), Tail(net[p]))
  PROVE  Steps(p)
<1>1. PICK e : e = ends[p]
  OBVIOUS
<1>2. PICK f : f = handle(e, x)
  OBVIOUS
<1>3. /\ Sound(e) /\ e \in EndType /\ e.role = p /\ e.sent = <<>> /\ e.in \in BOOLEAN /\ e.out \in BOOLEAN
      /\ e.received \in Nat /\ e.items \in Seq(Nat) /\ e.tasks \in Seq(Nat)
      /\ (e.in \/ e.out) /\ Becomes(p, f, Tail(net[p])) /\ Typed
  BY <1>1, <1>2, HereFacts, Fields
<1>4. x \in Frames /\ x.n \in Nat /\ x.complete \in BOOLEAN
      /\ (x.n = 0 \/ case.kind = "response" => x.complete)
  BY ArrivalFacts
<1>5. PICK b \in BOOLEAN : b = (e.in /\ ~x.complete)
  OBVIOUS
<1>6. PICK heard : heard = [e EXCEPT !.in = b]
  OBVIOUS
<1>7. heard = [e EXCEPT !.in = @ /\ ~x.complete]
  BY <1>3, <1>5, <1>6 DEF EndType
<1>8. Keeps(e, heard) /\ heard.in = b /\ heard.out = e.out /\ heard.sent = e.sent
  BY <1>3, <1>6, InFacts, ZenonT(40)
<1>9. Sound(heard) /\ heard.sent = <<>> /\ heard.role = p /\ heard.observer = e.observer
  BY <1>3, <1>8 DEF Keeps, SameSink
<1>10. f = IF x.n = 0 THEN Ends(heard, "complete") ELSE onNext(heard, x.n, x.complete)
  BY <1>2, <1>3, <1>7, Zenon DEF handle
<1>11. ASSUME Sound(f), f.role = p
       PROVE  /\ Typed' /\ case' = case /\ (\A z \in Peers : LoopInv(ends'[z]))
              /\ Keeps(f, ends'[p]) /\ SameOpen(f, ends'[p]) /\ Takes(p, f.sent)
  BY <1>3, <1>11, TakingFacts
<1>12. PICK t : t = IF e.observer = "open" /\ e.out /\ p = Requester THEN <<Frame("ERROR", 0, FALSE)>> ELSE <<>>
  OBVIOUS
<1>13. p = Requester \/ p = Responder
  BY DEF Peers
<1>13a. Requester # Responder
  BY DEF Requester, Responder
\* An end of g, which hears no more, is the end of the observer.
<1>14. ASSUME NEW g, Sound(g), g.sent = <<>>, g.role = p, g.observer = e.observer, g.in = FALSE, g.out = e.out,
              f = Ends(g, "complete")
       PROVE  /\ Sound(f) /\ f.role = p /\ SameSource(g, f) /\ SameGot(g, f) /\ SameDemand(g, f)
              /\ f.observer = (IF e.observer = "open" THEN "complete" ELSE e.observer)
              /\ ~f.in /\ (f.out <=> e.out /\ (e.observer = "open" => p = Responder)) /\ f.sent = t
  <2>1. CASE e.observer # "open"
    <3>1. f = g
      BY <1>14, <2>1, Zenon DEF Ends
    <3>. QED
      BY <1>12, <1>14, <2>1, <3>1 DEF SameSource, SameGot, SameDemand
  <2>2. CASE e.observer = "open"
    <3>1. /\ KeepsItems(g, f) /\ f.observer = "complete"
          /\ ~f.in /\ (f.out <=> g.out /\ g.role = Responder) /\ f.sent = CancelFrames(g)
      BY <1>14, <2>2, EndsFacts DEF Observers
    <3>2. CancelFrames(g) = t
      BY <1>12, <1>13, <1>13a, <1>14, <2>2, Zenon DEF CancelFrames
    <3>. QED
      BY <1>14, <2>2, <3>1, <3>2 DEF KeepsItems
  <2>. QED
    BY <2>1, <2>2
<1>15. CASE x.n = 0
  <2>1. f = Ends(heard, "complete") /\ x.complete /\ heard.in = FALSE
    BY <1>4, <1>5, <1>8, <1>10, <1>15
  <2>2. /\ Sound(f) /\ f.role = p /\ SameSource(heard, f) /\ SameGot(heard, f) /\ SameDemand(heard, f)
        /\ f.observer = (IF e.observer = "open" THEN "complete" ELSE e.observer)
        /\ ~f.in /\ (f.out <=> e.out /\ (e.observer = "open" => p = Responder)) /\ f.sent = t
    BY <1>8, <1>9, <1>14, <2>1
  <2>3. /\ Typed' /\ case' = case /\ (\A z \in Peers : LoopInv(ends'[z]))
        /\ Keeps(f, ends'[p]) /\ SameOpen(f, ends'[p]) /\ Takes(p, t)
    BY <1>11, <2>2
  <2>4. TakesEnd(p, e, ends'[p])
    BY <1>3, <1>8, <1>12, <1>15, <2>1, <2>2, <2>3
       DEF TakesEnd, Keeps, SameSource, SameSink, SameGot, SameOpen, SameDemand
  <2>. QED
    BY <1>1, <2>3, <2>4, Zenon DEF Steps, EffectOn
<1>16. CASE x.n # 0
  <2>1. PICK r \in Numbers : r = e.received + 1
    BY <1>3 DEF Numbers
  <2>2. PICK s \in NumberSeqs : s = IF e.observer = "open" THEN Append(e.items, x.n) ELSE e.items
    <3>1. Append(e.items, x.n) \in Seq(Nat)
      BY <1>3, <1>4, AppendProperties
    <3>. QED
      BY <1>3, <3>1 DEF NumberSeqs
  <2>3. PICK h : h = [heard EXCEPT !.received = r]
    OBVIOUS
  <2>4. PICK got : got = [h EXCEPT !.items = s]
    OBVIOUS
  <2>5. heard.received = e.received /\ heard.items = e.items /\ heard.tasks = e.tasks /\ heard \in EndType
    BY <1>8 DEF Keeps, SameSink, SameGot, Sound
  <2>6. got = [heard EXCEPT !.received = @ + 1,
                            !.items = IF heard.observer = "open" THEN Append(@, x.n) ELSE @]
    BY <1>9, <2>1, <2>2, <2>3, <2>4, <2>5 DEF EndType
  <2>7. /\ h \in EndType /\ SameSource(heard, h) /\ SameOpen(heard, h) /\ h.received = r /\ h.tasks = e.tasks
        /\ h.observer = e.observer /\ h.requested = heard.requested /\ h.wip = heard.wip /\ h.drain = heard.drain
        /\ h.closed = heard.closed /\ h.role = heard.role /\ h.sent = heard.sent
    BY <1>9, <2>3, <2>5 DEF EndType, SameSource, SameOpen
  <2>8. /\ got \in EndType /\ SameSource(h, got) /\ SameOpen(h, got) /\ got.received = r /\ got.tasks = e.tasks
        /\ got.items = s
        /\ got.observer = e.observer /\ got.requested = h.requested /\ got.wip = h.wip /\ got.drain = h.drain
        /\ got.closed = h.closed /\ got.role = h.role /\ got.sent = h.sent
    BY <2>4, <2>7 DEF EndType, SameSource, SameOpen
  <2>9. Sound(got) /\ got.sent = <<>> /\ got.role = p /\ got.in = b /\ got.out = e.out
    BY <1>8, <1>9, <2>7, <2>8 DEF Sound, LoopInv, SameOpen
  <2>10. SameSource(e, got) /\ SameDemand(e, got)
    BY <1>8, <2>7, <2>8 DEF Keeps, SameSource, SameDemand
  <2>11. f = onNext(heard, x.n, x.complete)
    BY <1>10, <1>16
  <2>12. CASE x.complete
    <3>1. f = Ends(got, "complete") /\ got.in = FALSE
      BY <1>5, <2>6, <2>9, <2>11, <2>12, Zenon DEF onNext
    <3>2. /\ Sound(f) /\ f.role = p /\ SameSource(got, f) /\ SameGot(got, f) /\ SameDemand(got, f)
          /\ f.observer = (IF e.observer = "open" THEN "complete" ELSE e.observer)
          /\ ~f.in /\ (f.out <=> e.out /\ (e.observer = "open" => p = Responder)) /\ f.sent = t
      BY <1>14, <2>8, <2>9, <3>1
    <3>3. /\ Typed' /\ case' = case /\ (\A z \in Peers : LoopInv(ends'[z]))
          /\ Keeps(f, ends'[p]) /\ SameOpen(f, ends'[p]) /\ Takes(p, t)
      BY <1>11, <3>2
    <3>4. x.n > 0
      BY <1>4, <1>16
    <3>5. /\ ends'[p].items = s /\ ends'[p].tasks = e.tasks /\ SameSource(e, ends'[p]) /\ SameDemand(e, ends'[p])
          /\ ends'[p].observer = f.observer /\ ~ends'[p].in /\ ends'[p].out = f.out
      BY <2>8, <2>10, <3>2, <3>3 DEF Keeps, SameSource, SameSink, SameGot, SameOpen, SameDemand
    <3>6. TakesEnd(p, e, ends'[p])
      BY <1>3, <1>12, <2>2, <2>12, <3>2, <3>3, <3>4, <3>5 DEF TakesEnd
    <3>. QED
      BY <1>1, <3>3, <3>6, Zenon DEF Steps, EffectOn
  <2>13. CASE ~x.complete
    <3>1. case.kind # "response" /\ x.n > 0 /\ b = e.in
      BY <1>3, <1>4, <1>5, <1>16, <2>13
    <3>2. PICK u \in NumberSeqs : u = IF r % Limit = 0 THEN Append(e.tasks, Limit) ELSE e.tasks
      <4>1. Append(e.tasks, Limit) \in Seq(Nat)
        BY <1>3, CaseFacts, AppendProperties
      <4>. QED
        BY <1>3, <4>1 DEF NumberSeqs
    <3>3. PICK k : k = [got EXCEPT !.tasks = u]
      OBVIOUS
    <3>4. f = k
      <4>1. f = IF got.received % Limit = 0 THEN [got EXCEPT !.tasks = Append(@, Limit)] ELSE got
        BY <2>6, <2>11, <2>13, <3>1, Zenon DEF onNext
      <4>2. got = [got EXCEPT !.tasks = e.tasks]
        BY <2>8 DEF EndType
      <4>. QED
        BY <2>8, <3>2, <3>3, <4>1, <4>2 DEF EndType
    <3>5. /\ k \in EndType /\ SameSource(got, k) /\ SameOpen(got, k) /\ k.received = r /\ k.tasks = u
          /\ k.items = s
          /\ k.observer = e.observer /\ k.requested = got.requested /\ k.wip = got.wip /\ k.drain = got.drain
          /\ k.closed = got.closed /\ k.role = got.role /\ k.sent = got.sent
      BY <2>8, <3>3 DEF EndType, SameSource, SameOpen
    <3>6. Sound(f) /\ f.role = p /\ f.sent = <<>>
      BY <2>8, <2>9, <3>4, <3>5 DEF Sound, LoopInv, SameOpen
    <3>7. /\ Typed' /\ case' = case /\ (\A z \in Peers : LoopInv(ends'[z]))
          /\ Keeps(f, ends'[p]) /\ SameOpen(f, ends'[p]) /\ Takes(p, <<>>)
      BY <1>11, <3>6
    <3>8. /\ ends'[p].items = s /\ ends'[p].tasks = u /\ ends'[p].received = r /\ ends'[p].observer = e.observer
      BY <3>4, <3>5, <3>7 DEF Keeps, SameSink, SameGot
    <3>9. SameSource(e, ends'[p]) /\ SameDemand(e, ends'[p]) /\ SameOpen(e, ends'[p])
      BY <2>9, <2>10, <3>1, <3>4, <3>5, <3>7 DEF Keeps, SameSource, SameOpen, SameDemand
    <3>10. TakesItem(p, e, ends'[p])
      BY <1>3, <2>1, <2>2, <2>13, <3>1, <3>2, <3>7, <3>8, <3>9 DEF TakesItem, IsItem
    <3>. QED
      BY <1>1, <3>7, <3>10, Zenon DEF Steps, EffectOn
  <2>. QED
    BY <2>12, <2>13
<1>. QED
  BY <1>15, <1>16

\* A frame is ignored.
LEMMA IgnoreStep ==
  ASSUME IInv, NEW p \in Peers, net[p] # <<>>, NEW x, x = Head(net[p]), x.type # "REQUEST",
         \/ ~ends[p].in /\ ~ends[p].out
         \/ ~ends[p].out /\ p = Requester /\ x.type \in {"REQUEST_N", "CANCEL"},
         Becomes(p, ends[p], Tail(net[p]))
  PROVE  Steps(p)
<1>1. PICK e : e = ends[p]
  OBVIOUS
<1>2. Sound(e) /\ e.role = p /\ e.sent = <<>> /\ Becomes(p, e, Tail(net[p]))
  BY <1>1, HereFacts
<1>3. /\ Typed' /\ case' = case /\ (\A z \in Peers : LoopInv(ends'[z]))
      /\ Keeps(e, ends'[p]) /\ SameOpen(e, ends'[p]) /\ Takes(p, <<>>)
  BY <1>2, TakingFacts
<1>4. Ignores(p, e, ends'[p])
  BY <1>1, <1>3 DEF Ignores, Keeps
<1>. QED
  BY <1>1, <1>3, <1>4, Zenon DEF Steps, EffectOn

\* More is asked for.
LEMMA DemandStep ==
  ASSUME IInv, NEW p \in Peers, net[p] # <<>>, NEW x, x = Head(net[p]), x.type = "REQUEST_N", Quiet(p),
         ends[p].in \/ ends[p].out, Becomes(p, handle(ends[p], x), Tail(net[p]))
  PROVE  Steps(p)
<1>1. PICK e : e = ends[p]
  OBVIOUS
<1>2. PICK f : f = handle(e, x)
  OBVIOUS
<1>3. /\ Sound(e) /\ e.role = p /\ e.sent = <<>> /\ e.drain.at = "idle" /\ e.requested \in Nat
      /\ (e.in \/ e.out) /\ Becomes(p, f, Tail(net[p])) /\ x.n \in Nat /\ (p = Requester \/ p = Responder)
  BY <1>1, <1>2, HereFacts, Fields, ArrivalFacts, TwoEnds DEF Quiet
<1>4. f = IF e.out \/ e.role = Responder THEN request(e, x.n) ELSE e
  BY <1>2, <1>3 DEF handle
<1>5. CASE e.out \/ e.role = Responder
  <2>1. /\ Sound(f) /\ SameSource(e, f) /\ SameSink(e, f) /\ SameOpen(e, f)
        /\ f.requested = e.requested + x.n /\ e.drain.delivered = 0 /\ f.drain.delivered = 0
        /\ f.role = e.role /\ f.closed = e.closed /\ f.sent = e.sent
    <3>1. f = request(e, x.n)
      BY <1>4, <1>5
    <3>. QED
      BY <1>3, <3>1, RequestFacts
  <2>2. /\ Typed' /\ case' = case /\ (\A z \in Peers : LoopInv(ends'[z]))
        /\ Keeps(f, ends'[p]) /\ SameOpen(f, ends'[p]) /\ Takes(p, <<>>)
    BY <1>3, <2>1, TakingFacts
  <2>3. /\ SameSource(e, ends'[p]) /\ SameSink(e, ends'[p]) /\ SameOpen(e, ends'[p])
        /\ ends'[p].requested = e.requested + x.n /\ ends'[p].drain.delivered = 0
    BY <2>1, <2>2 DEF Keeps, SameSource, SameSink, SameGot, SameOpen, SameDemand
  <2>4. Owed(ends'[p]) = Owed(e) + x.n
    BY <1>3, <2>1, <2>3 DEF Owed
  <2>5. TakesDemand(p, e, ends'[p])
    BY <2>2, <2>3, <2>4 DEF TakesDemand
  <2>. QED
    BY <1>1, <2>2, <2>5, Zenon DEF Steps, EffectOn
<1>6. CASE ~(e.out \/ e.role = Responder)
  BY <1>1, <1>3, <1>4, <1>6, IgnoreStep
<1>. QED
  BY <1>5, <1>6

\* The responder wants no more of a requester's items.
LEMMA CancelStep ==
  ASSUME IInv, NEW p \in Peers, net[p] # <<>>, NEW x, x = Head(net[p]), x.type = "CANCEL", p = Requester,
         ends[p].in \/ ends[p].out, Becomes(p, handle(ends[p], x), Tail(net[p]))
  PROVE  Steps(p)
<1>1. PICK e : e = ends[p]
  OBVIOUS
<1>2. PICK f : f = handle(e, x)
  OBVIOUS
<1>3. /\ Sound(e) /\ e.role = p /\ e.sent = <<>>
      /\ (e.in \/ e.out) /\ Becomes(p, f, Tail(net[p]))
  BY <1>1, <1>2, HereFacts
<1>4. PICK g : g = [e EXCEPT !.out = FALSE]
  OBVIOUS
<1>5. f = IF e.out THEN cancel(g) ELSE e
  BY <1>2, <1>3, <1>4 DEF handle
<1>6. CASE e.out
  <2>1. Keeps(e, g) /\ g.in = e.in /\ g.out = FALSE /\ g.sent = e.sent
    BY <1>3, <1>4, OutFacts, Zenon
  <2>2. Sound(g) /\ g.sent = <<>> /\ ~g.out
    BY <1>3, <2>1 DEF Keeps
  <2>3. f = cancel(g)
    BY <1>5, <1>6
  <2>4. /\ Sound(f) /\ SourceLeft(g, f) /\ SameSink(g, f) /\ SameDemand(g, f) /\ f.role = g.role /\ ~f.out
        /\ (f.in = g.in /\ f.sent = <<>>) \/ (~f.in /\ f.sent = CancelFrames(g))
    BY <2>2, <2>3, CancelFacts, Zenon
  <2>5. CancelFrames(g) = IF e.in THEN <<Frame("CANCEL", 0, FALSE)>> ELSE <<>>
    BY <2>1 DEF CancelFrames
  <2>6. /\ Typed' /\ case' = case /\ (\A z \in Peers : LoopInv(ends'[z]))
        /\ Keeps(f, ends'[p]) /\ SameOpen(f, ends'[p]) /\ Takes(p, f.sent)
    <3>1. f.role = p
      BY <1>3, <2>1, <2>4 DEF Keeps
    <3>. QED
      BY <1>3, <2>4, <3>1, TakingFacts
  <2>7. SourceLeft(e, ends'[p]) /\ SameSink(e, ends'[p]) /\ ~ends'[p].out /\ SameDemand(e, ends'[p])
    BY <2>1, <2>4, <2>6 DEF Keeps, SameSource, SameSink, SameGot, SameOpen, SameDemand, SourceLeft
  <2>8. \/ ends'[p].in = e.in /\ Takes(p, <<>>)
        \/ ~ends'[p].in /\ Takes(p, IF e.in THEN <<Frame("CANCEL", 0, FALSE)>> ELSE <<>>)
    BY <2>1, <2>4, <2>5, <2>6 DEF SameOpen
  <2>9. TakesCancel(p, e, ends'[p])
    BY <1>6, <2>7, <2>8 DEF TakesCancel
  <2>. QED
    BY <1>1, <2>6, <2>9, Zenon DEF Steps, EffectOn
<1>7. CASE ~e.out
  BY <1>1, <1>3, <1>5, <1>7, IgnoreStep
<1>. QED
  BY <1>6, <1>7

\* An error, or a requester that cancels both directions.
LEMMA StopStep ==
  ASSUME IInv, NEW p \in Peers, net[p] # <<>>, NEW x, x = Head(net[p]),
         x.type = "ERROR" \/ (x.type = "CANCEL" /\ p = Responder),
         ends[p].in \/ ends[p].out, Becomes(p, handle(ends[p], x), Tail(net[p]))
  PROVE  Steps(p)
<1>1. PICK e : e = ends[p]
  OBVIOUS
<1>2. PICK f : f = handle(e, x)
  OBVIOUS
<1>3. /\ Sound(e) /\ e.role = p /\ e.sent = <<>>
      /\ (e.in \/ e.out) /\ Becomes(p, f, Tail(net[p])) /\ e.in \in BOOLEAN /\ e.out \in BOOLEAN
  BY <1>1, <1>2, HereFacts, Fields
<1>4. PICK g : g = [e EXCEPT !.in = FALSE, !.out = FALSE]
  OBVIOUS
<1>5. PICK h : h = IF e.out THEN cancel(g) ELSE g
  OBVIOUS
<1>6. f = IF e.in \/ e.role = Requester THEN Ends(h, "error") ELSE h
  <2>0. Requester # Responder
    BY DEF Requester, Responder
  <2>1. x.type # "PAYLOAD" /\ x.type # "REQUEST_N" /\ ~(x.type = "CANCEL" /\ e.role = Requester)
    BY <1>3, <2>0
  <2>2. ~(~e.in /\ ~e.out)
    BY <1>3
  <2>. QED
    BY <1>2, <1>4, <1>5, <2>1, <2>2 DEF handle
<1>7. Keeps(e, g) /\ ~g.in /\ ~g.out /\ g.sent = e.sent
  BY <1>3, <1>4, ShutFacts, Zenon
<1>8. Sound(g) /\ g.sent = <<>> /\ g.role = p
  BY <1>3, <1>7 DEF Keeps
<1>9. /\ Sound(h) /\ SourceLeft(g, h) /\ SameSink(g, h) /\ SameDemand(g, h) /\ h.role = p /\ ~h.in /\ ~h.out
      /\ h.sent = <<>> /\ (~e.out => h.source = g.source)
  <2>1. CASE e.out
    <3>1. h = cancel(g)
      BY <1>5, <2>1
    <3>2. /\ Sound(h) /\ SourceLeft(g, h) /\ SameSink(g, h) /\ SameDemand(g, h) /\ h.role = g.role /\ ~h.out
          /\ (~g.in => ~h.in /\ h.sent = <<>>)
      BY <1>7, <1>8, <3>1, CancelFacts, Zenon
    <3>. QED
      BY <1>7, <1>8, <2>1, <3>2
  <2>2. CASE ~e.out
    <3>1. h = g
      BY <1>5, <2>2
    <3>. QED
      BY <1>7, <1>8, <3>1 DEF SourceLeft, SameSink, SameGot, SameDemand
  <2>. QED
    BY <2>1, <2>2
<1>10. /\ Sound(f) /\ SourceLeft(h, f) /\ SameGot(h, f) /\ SameDemand(h, f) /\ f.role = p /\ ~f.in /\ ~f.out
       /\ f.sent = <<>> /\ f.source = h.source
       /\ f.observer = IF h.observer = "open" /\ (e.in \/ p = Requester) THEN "error" ELSE h.observer
  <2>1. CASE (e.in \/ p = Requester) /\ h.observer = "open"
    <3>1. f = Ends(h, "error")
      BY <1>3, <1>6, <2>1
    <3>2. /\ KeepsItems(h, f) /\ f.observer = "error"
          /\ ~f.in /\ (f.out <=> h.out /\ h.role = Responder) /\ f.sent = CancelFrames(h)
      BY <1>9, <2>1, <3>1, EndsFacts DEF Observers
    <3>3. CancelFrames(h) = <<>>
      BY <1>9 DEF CancelFrames
    <3>. QED
      BY <1>9, <2>1, <3>2, <3>3 DEF KeepsItems, SourceLeft, SameSource
  <2>2. CASE ~((e.in \/ p = Requester) /\ h.observer = "open")
    <3>1. f = h
      BY <1>3, <1>6, <2>2 DEF Ends
    <3>. QED
      BY <1>9, <2>2, <3>1 DEF SourceLeft, SameGot, SameDemand
  <2>. QED
    BY <2>1, <2>2
<1>11. /\ Typed' /\ case' = case /\ (\A z \in Peers : LoopInv(ends'[z]))
       /\ Keeps(f, ends'[p]) /\ SameOpen(f, ends'[p]) /\ Takes(p, <<>>)
  BY <1>3, <1>10, TakingFacts
<1>12. /\ SourceLeft(e, ends'[p]) /\ (~e.out => ends'[p].source = e.source)
       /\ SameGot(e, ends'[p]) /\ SameDemand(e, ends'[p]) /\ ~ends'[p].in /\ ~ends'[p].out
  BY <1>7, <1>9, <1>10, <1>11 DEF Keeps, SameSource, SameSink, SameGot, SameOpen, SameDemand, SourceLeft
<1>13. ends'[p].observer = IF e.observer = "open" /\ (e.in \/ p = Requester) THEN "error" ELSE e.observer
  BY <1>7, <1>9, <1>10, <1>11 DEF Keeps, SameSink
<1>14. TakesStop(p, e, ends'[p])
  BY <1>3, <1>11, <1>12, <1>13 DEF TakesStop
<1>. QED
  BY <1>1, <1>11, <1>14, Zenon DEF Steps, EffectOn

\* A frame is handled.
LEMMA HandleStep ==
  ASSUME IInv, NEW p \in Peers, Handle(p)
  PROVE  Steps(p)
<1>1. PICK x : x = Head(net[p])
  OBVIOUS
<1>2. PICK e : e = ends[p]
  OBVIOUS
<1>3. /\ Quiet(p) /\ net[p] # <<>>
      /\ Becomes(p, IF x.type = "REQUEST" THEN accept ELSE handle(e, x), Tail(net[p]))
  BY <1>1, <1>2 DEF Handle
<1>4. x.type \in FrameTypes /\ (p = Requester \/ p = Responder)
  BY <1>1, <1>3, ArrivalFacts, TwoEnds
<1>5. CASE x.type = "REQUEST"
  BY <1>1, <1>3, <1>5, AcceptStep
<1>6. CASE x.type # "REQUEST" /\ ~e.in /\ ~e.out
  <2>1. handle(e, x) = e
    BY <1>6 DEF handle
  <2>. QED
    BY <1>1, <1>2, <1>3, <1>6, <2>1, IgnoreStep
<1>7. CASE x.type # "REQUEST" /\ (e.in \/ e.out)
  <2>1. Becomes(p, handle(e, x), Tail(net[p]))
    BY <1>3, <1>7
  <2>2. \/ x.type = "PAYLOAD" \/ x.type = "REQUEST_N" \/ (x.type = "CANCEL" /\ p = Requester)
        \/ (x.type = "ERROR" \/ (x.type = "CANCEL" /\ p = Responder))
    BY <1>4, <1>7 DEF FrameTypes
  <2>3. CASE x.type = "PAYLOAD"
    BY <1>1, <1>2, <1>3, <1>7, <2>1, <2>3, PayloadStep
  <2>4. CASE x.type = "REQUEST_N"
    BY <1>1, <1>2, <1>3, <1>7, <2>1, <2>4, DemandStep
  <2>5. CASE x.type = "CANCEL" /\ p = Requester
    BY <1>1, <1>2, <1>3, <1>7, <2>1, <2>5, CancelStep
  <2>6. CASE x.type = "ERROR" \/ (x.type = "CANCEL" /\ p = Responder)
    BY <1>1, <1>2, <1>3, <1>7, <2>1, <2>6, StopStep
  <2>. QED
    BY <2>2, <2>3, <2>4, <2>5, <2>6
<1>. QED
  BY <1>2, <1>5, <1>6, <1>7

\* A step of the system is a step of one end, which has one of the effects.
LEMMA StepEffect ==
  ASSUME IInv, Next
  PROVE  \E p \in Peers : Steps(p)
<1>1. PICK p \in Peers : \/ SourceNext(p)
                         \/ \E how \in {"complete", "error"} : SourceEnds(p, how)
                         \/ Drain(p) \/ Handle(p) \/ Task(p) \/ Unsubscribe(p)
  BY DEF Next
<1>2. Steps(p)
  BY <1>1, SourceNextStep, SourceEndsStep, DrainStep, HandleStep, TaskStep, UnsubscribeStep
<1>. QED
  BY <1>2

-----------------------------------------------------------------------------
(* The effects keep the invariant. *)

\* The frames after those in s.
LEMMA ConcatFrames ==
  ASSUME NEW s \in Seq(Frames), NEW t \in Seq(Frames)
  PROVE  /\ s \o t \in Seq(Frames) /\ Len(s \o t) = Len(s) + Len(t) /\ Len(s) \in Nat /\ Len(t) \in Nat
         /\ \A i \in 1 .. Len(s) : (s \o t)[i] = s[i]
         /\ \A i \in 1 .. Len(t) : (s \o t)[Len(s) + i] = t[i]
         /\ \A i \in 1 .. Len(s \o t) : i \in 1 .. Len(s) \/ (i > Len(s) /\ i - Len(s) \in 1 .. Len(t))
<1>1. /\ s \o t \in Seq(Frames) /\ Len(s \o t) = Len(s) + Len(t) /\ Len(s) \in Nat /\ Len(t) \in Nat
      /\ \A i \in 1 .. Len(s) + Len(t) : (s \o t)[i] = IF i <= Len(s) THEN s[i] ELSE t[i - Len(s)]
  BY ConcatProperties, LenProperties
<1>. QED
  BY <1>1

\* The frames after the first.
LEMMA TailFrames ==
  ASSUME NEW S, NEW s \in Seq(S), s # <<>>
  PROVE  /\ Tail(s) \in Seq(S) /\ Len(Tail(s)) = Len(s) - 1 /\ Len(s) \in Nat /\ Len(s) > 0 /\ Head(s) = s[1]
         /\ \A i \in 1 .. Len(Tail(s)) : Tail(s)[i] = s[i + 1] /\ i + 1 \in 1 .. Len(s)
BY HeadTailProperties, EmptySeq, LenProperties

\* A sequence is not its own tail.
LEMMA TailShorter ==
  ASSUME NEW S, NEW s \in Seq(S), s # <<>>
  PROVE  Tail(s) # s
<1>1. PICK n \in Nat : n = Len(s)
  BY LenProperties
<1>2. Len(Tail(s)) = n - 1
  BY <1>1, TailFrames
<1>. QED
  BY <1>1, <1>2

\* One more number.
LEMMA AppendFrames ==
  ASSUME NEW S, NEW s \in Seq(S), NEW x \in S
  PROVE  /\ Append(s, x) \in Seq(S) /\ Len(Append(s, x)) = Len(s) + 1 /\ Len(s) \in Nat
         /\ \A i \in 1 .. Len(s) : Append(s, x)[i] = s[i]
         /\ Append(s, x)[Len(s) + 1] = x
BY AppendProperties, LenProperties

\* What a step changes and what it keeps: directions close, a source that has
\* ended stays so, and so does an observer.
Onward(e, f) ==
  /\ (e.source = "none") <=> (f.source = "none")
  /\ f.out => e.out
  /\ f.in => e.in
  /\ e.ended # "no" => f.ended = e.ended /\ f.waited = e.waited /\ f.emitted = e.emitted /\ f.source # "on"
  /\ e.observer # "open" => f.observer = e.observer
  /\ f.ended = "no" => e.ended = "no"

\* Every step goes onward but the one that accepts the request.
LEMMA OnwardFacts ==
  ASSUME IInv, NEW p \in Peers, NEW e, e = ends[p], NEW f, EffectOn(p, e, f), ~Accepts(p, e, f)
  PROVE  Onward(e, f)
<1>0. /\ p = Requester /\ case.kind # "channel" => ~e.out
      /\ p = Responder /\ e.out => e.source # "none"
  BY DEF IInv, UnbornInv, Unborn, Untouched
<1>0a. p = Requester \/ p = Responder
  BY TwoEnds
<1>1. e \in EndType /\ SourceInv(e) /\ e.in \in BOOLEAN /\ e.out \in BOOLEAN
  BY HereFacts, Fields
<1>2. CASE Turns(p, e, f)
  BY <1>1, <1>2 DEF Turns, Onward, SourceInv, SameSource, SameSink, SameOpen
<1>3. CASE SendsItem(p, e, f)
  BY <1>1, <1>3 DEF SendsItem, Onward, SourceInv, SameSink
<1>4. CASE Completes(p, e, f)
  BY <1>1, <1>4 DEF Completes, Onward, SourceInv, SameSource, SourceDone, SameSink
<1>5. CASE Fails(p, e, f)
  BY <1>1, <1>5 DEF Fails, Onward, SourceInv, SameSource, SourceDone, SameSink, SameOpen
<1>6. CASE Emits(p, e, f)
  BY <1>1, <1>6 DEF Emits, Onward, SourceInv, SameSink, SameOpen
<1>7. CASE Responds(p, e, f)
  BY <1>1, <1>7 DEF Responds, Onward, SourceInv, SameSink
<1>8. CASE Finishes(p, e, f)
  BY <1>1, <1>8 DEF Finishes, Onward, SourceInv, SourceDone, SameSink, SameOpen
<1>9. CASE RunsTask(p, e, f)
  BY <1>1, <1>9 DEF RunsTask, Onward, SourceInv, SameSource, SameOpen
<1>10. CASE Leaves(p, e, f)
  BY <1>1, <1>10 DEF Leaves, Onward, SourceInv, SameSource
<1>11. CASE Ignores(p, e, f)
  BY <1>1, <1>11 DEF Ignores, Onward, SourceInv, SameSource, SameSink, SameOpen
<1>12. CASE TakesItem(p, e, f)
  BY <1>1, <1>12 DEF TakesItem, Onward, SourceInv, SameSource, SameOpen
<1>13. CASE TakesEnd(p, e, f)
  BY <1>1, <1>13 DEF TakesEnd, Onward, SourceInv, SameSource
<1>14. CASE TakesDemand(p, e, f)
  BY <1>1, <1>14 DEF TakesDemand, Onward, SourceInv, SameSource, SameSink, SameOpen
<1>15. CASE TakesCancel(p, e, f)
  BY <1>0, <1>1, <1>15 DEF TakesCancel, Onward, SourceInv, SourceLeft, SameSink
<1>16. CASE TakesStop(p, e, f)
  BY <1>0, <1>0a, <1>1, <1>16 DEF TakesStop, Onward, SourceInv, SourceLeft
<1>. QED
  BY <1>2, <1>3, <1>4, <1>5, <1>6, <1>7, <1>8, <1>9, <1>10, <1>11, <1>12, <1>13, <1>14, <1>15, <1>16 DEF EffectOn

\* A frame that a step sends, and why.
SentBy(p, e, f, x) ==
  /\ x.type = "PAYLOAD" => /\ e.out /\ (e.requested > 0 \/ case.kind = "response")
                           /\ (x.n = 0 \/ case.kind = "response") => x.complete
  /\ x.type = "REQUEST_N" => e.tasks # <<>>
  /\ x.type = "CANCEL" => ~f.in
  /\ x.type \in {"ERROR", "CANCEL"} =>
       \/ f.ended = "error" \/ f.observer \in {"complete", "gone"}
       \/ p = Requester /\ net[p] # <<>> /\ Head(net[p]).type = "CANCEL"
  /\ x.type # "REQUEST"

\* A step sends one frame or none, and takes one or none.
Moves(p, t) == Sends(p, t) \/ Takes(p, t)
Moved(p, e, f) == \E t : Moves(p, t) /\ (t = <<>> \/ \E x \in Frames : t = <<x>> /\ SentBy(p, e, f, x))

\* A step that sends nothing.
LEMMA MovedNothing ==
  ASSUME NEW p, NEW e, NEW f, Moves(p, <<>>)
  PROVE  Moved(p, e, f)
BY Zenon DEF Moved

\* A step that sends a frame under a condition.
LEMMA MovedOne ==
  ASSUME NEW p, NEW e, NEW f, NEW x, NEW c, Moves(p, IF c THEN <<x>> ELSE <<>>),
         c => x \in Frames /\ SentBy(p, e, f, x)
  PROVE  Moved(p, e, f)
BY Zenon DEF Moved

\* Every step sends one frame at most.
LEMMA MovedFacts ==
  ASSUME IInv, NEW p \in Peers, NEW e, e = ends[p], NEW f, EffectOn(p, e, f)
  PROVE  Moved(p, e, f)
<1>1. /\ e \in EndType /\ SourceInv(e) /\ e.in \in BOOLEAN /\ e.out \in BOOLEAN /\ e.buffer \in Seq(Nat)
      /\ e.emitted \in Nat /\ e.tasks \in Seq(Nat) /\ e.role = p
  BY HereFacts, Fields
<1>2. \A t, n, b : Frame(t, n, b).type = t /\ Frame(t, n, b).n = n /\ Frame(t, n, b).complete = b
  BY DEF Frame
<1>2a. Frame("CANCEL", 0, FALSE) \in Frames /\ Frame("ERROR", 0, FALSE) \in Frames
  BY FrameFacts, Zenon
<1>3. CASE Turns(p, e, f) \/ Emits(p, e, f) \/ Finishes(p, e, f) \/ Ignores(p, e, f) \/ TakesItem(p, e, f)
           \/ TakesDemand(p, e, f) \/ TakesStop(p, e, f) \/ Accepts(p, e, f)
  <2>1. Moves(p, <<>>)
    BY <1>3 DEF Moves, Turns, Emits, Finishes, Ignores, TakesItem, TakesDemand, TakesStop, Accepts
  <2>. QED
    BY <2>1, MovedNothing
<1>4. CASE SendsItem(p, e, f)
  <2>1. PICK n \in Nat, b \in BOOLEAN : n = Head(e.buffer) /\ b = (Len(e.buffer) = 1 /\ e.ended # "no")
    BY <1>1, <1>4, TailFrames, HeadTailProperties DEF SendsItem
  <2>2. n > 0 /\ case.kind # "response"
    BY <1>1, <1>4, <2>1, TailFrames DEF SendsItem, SourceInv
  <2>3. PICK x : x = Frame("PAYLOAD", n, b)
    OBVIOUS
  <2>4. Moves(p, IF e.out THEN <<x>> ELSE <<>>) /\ e.requested > 0
    BY <1>4, <2>1, <2>3, Zenon DEF SendsItem, Moves
  <2>5. x \in Frames /\ x.type = "PAYLOAD" /\ x.n = n
    BY <1>2, <2>3, FrameFacts
  <2>6. e.out => SentBy(p, e, f, x)
    BY <2>2, <2>4, <2>5 DEF SentBy
  <2>. QED
    BY <2>4, <2>5, <2>6, MovedOne
<1>5. CASE Completes(p, e, f) \/ Responds(p, e, f)
  <2>1. PICK n \in Nat : n = IF Responds(p, e, f) THEN e.emitted + 1 ELSE 0
    BY <1>1
  <2>2. PICK x : x = Frame("PAYLOAD", n, TRUE)
    OBVIOUS
  <2>3. Moves(p, IF e.out THEN <<x>> ELSE <<>>)
    <3>1. CASE Responds(p, e, f)
      <4>1. n = e.emitted + 1
        BY <2>1, <3>1
      <4>. QED
        BY <2>2, <3>1, <4>1 DEF Responds, Moves
    <3>2. CASE ~Responds(p, e, f)
      <4>1. n = 0 /\ Completes(p, e, f)
        BY <1>5, <2>1, <3>2
      <4>. QED
        BY <2>2, <4>1 DEF Completes, Moves
    <3>. QED
      BY <3>1, <3>2
  <2>3a. e.requested > 0 \/ case.kind = "response"
    BY <1>5 DEF Completes, Responds
  <2>4. x \in Frames /\ x.type = "PAYLOAD" /\ x.complete = TRUE
    BY <1>2, <2>2, FrameFacts
  <2>5. e.out => SentBy(p, e, f, x)
    BY <2>3a, <2>4 DEF SentBy
  <2>. QED
    BY <2>3, <2>4, <2>5, MovedOne
<1>6. CASE Fails(p, e, f)
  <2>1. PICK x : x = Frame("ERROR", 0, FALSE)
    OBVIOUS
  <2>2. Moves(p, IF e.out THEN <<x>> ELSE <<>>) /\ f.ended = "error"
    BY <1>6, <2>1 DEF Fails, Moves
  <2>3. x \in Frames /\ x.type = "ERROR"
    BY <1>2, <1>2a, <2>1
  <2>4. SentBy(p, e, f, x)
    BY <2>2, <2>3 DEF SentBy
  <2>. QED
    BY <2>2, <2>3, <2>4, MovedOne
<1>7. CASE RunsTask(p, e, f)
  <2>1. PICK n \in Nat : n = Head(e.tasks)
    BY <1>1, <1>7, HeadTailProperties DEF RunsTask
  <2>2. PICK x : x = Frame("REQUEST_N", n, FALSE)
    OBVIOUS
  <2>3. Moves(p, IF e.in THEN <<x>> ELSE <<>>) /\ e.tasks # <<>>
    BY <1>7, <2>1, <2>2 DEF RunsTask, Moves
  <2>4. x \in Frames /\ x.type = "REQUEST_N"
    BY <1>2, <2>2, FrameFacts
  <2>5. SentBy(p, e, f, x)
    BY <2>3, <2>4 DEF SentBy
  <2>. QED
    BY <2>3, <2>4, <2>5, MovedOne
<1>8. CASE Leaves(p, e, f)
  <2>1. PICK x : x = IF e.in THEN Frame("CANCEL", 0, FALSE) ELSE Frame("ERROR", 0, FALSE)
    OBVIOUS
  <2>2. PICK c \in BOOLEAN : c = (e.in \/ (e.out /\ e.role = Requester))
    OBVIOUS
  <2>3. CancelFrames(e) = IF c THEN <<x>> ELSE <<>>
    BY <2>1, <2>2 DEF CancelFrames
  <2>4. Moves(p, IF c THEN <<x>> ELSE <<>>) /\ f.observer = "gone" /\ ~f.in
    BY <1>8, <2>3 DEF Leaves, Moves
  <2>5. x \in Frames /\ x.type \in {"ERROR", "CANCEL"}
    <3>1. Frame("CANCEL", 0, FALSE).type = "CANCEL" /\ Frame("ERROR", 0, FALSE).type = "ERROR"
      BY DEF Frame
    <3>2. x = Frame("CANCEL", 0, FALSE) \/ x = Frame("ERROR", 0, FALSE)
      BY <2>1
    <3>. QED
      BY <1>2a, <3>1, <3>2
  <2>6. SentBy(p, e, f, x)
    BY <2>4, <2>5 DEF SentBy
  <2>. QED
    BY <2>4, <2>5, <2>6, MovedOne
<1>9. CASE TakesEnd(p, e, f)
  <2>1. PICK x : x = Frame("ERROR", 0, FALSE)
    OBVIOUS
  <2>2. PICK c \in BOOLEAN : c = (e.observer = "open" /\ e.out /\ p = Requester)
    OBVIOUS
  <2>3. Moves(p, IF c THEN <<x>> ELSE <<>>) /\ (c => f.observer = "complete")
    BY <1>9, <2>1, <2>2 DEF TakesEnd, Moves
  <2>4. x \in Frames /\ x.type = "ERROR"
    BY <1>2, <1>2a, <2>1
  <2>5. c => SentBy(p, e, f, x)
    BY <2>3, <2>4 DEF SentBy
  <2>. QED
    BY <2>3, <2>4, <2>5, MovedOne
<1>10. CASE TakesCancel(p, e, f)
  <2>1. PICK x : x = Frame("CANCEL", 0, FALSE)
    OBVIOUS
  <2>2. Moves(p, <<>>) \/ (~f.in /\ Moves(p, IF e.in THEN <<x>> ELSE <<>>))
    BY <1>10, <2>1 DEF TakesCancel, Moves
  <2>3. p = Requester /\ net[p] # <<>> /\ Head(net[p]).type = "CANCEL"
    BY <1>10 DEF TakesCancel
  <2>4. x \in Frames /\ x.type = "CANCEL"
    BY <1>2, <1>2a, <2>1
  <2>5. ~f.in => SentBy(p, e, f, x)
    BY <2>3, <2>4 DEF SentBy
  <2>. QED
    BY <2>2, <2>4, <2>5, MovedNothing, MovedOne
<1>. QED
  BY <1>3, <1>4, <1>5, <1>6, <1>7, <1>8, <1>9, <1>10 DEF EffectOn

\* The frames on their way after a step.
LEMMA NetFacts ==
  ASSUME IInv, NEW p \in Peers, Steps(p), NEW q, q = Other(p)
  PROVE  /\ ends'[q] = ends[q] /\ case' = case
         /\ \A i \in 1 .. Len(net'[p]) : \E j \in 1 .. Len(net[p]) : net'[p][i] = net[p][j]
         /\ \A i \in 1 .. Len(net'[q]) :
              \/ i \in 1 .. Len(net[q]) /\ net'[q][i] = net[q][i]
              \/ net'[q][i] \in Frames /\ SentBy(p, ends[p], ends'[p], net'[q][i])
         /\ \/ net'[p] = net[p]
            \/ net[p] # <<>> /\ net'[p] = Tail(net[p])
         /\ net[q] \in Seq(Frames) /\ net[p] \in Seq(Frames)
<1>1. case' = case /\ EffectOn(p, ends[p], ends'[p])
  BY DEF Steps
<1>2. PICK t : /\ Moves(p, t)
               /\ t = <<>> \/ \E x \in Frames : t = <<x>> /\ SentBy(p, ends[p], ends'[p], x)
  BY <1>1, MovedFacts DEF Moved
<1>3. t \in Seq(Frames) /\ \A i \in 1 .. Len(t) : t[i] \in Frames /\ SentBy(p, ends[p], ends'[p], t[i])
  <2>1. CASE t = <<>>
    BY <2>1
  <2>2. ASSUME NEW x \in Frames, t = <<x>>, SentBy(p, ends[p], ends'[p], x)
        PROVE  t \in Seq(Frames) /\ \A i \in 1 .. Len(t) : t[i] \in Frames /\ SentBy(p, ends[p], ends'[p], t[i])
    <3>1. t \in Seq(Frames) /\ \A i \in 1 .. Len(t) : t[i] = x
      BY <2>2
    <3>. QED
      BY <2>2, <3>1, Zenon
  <2>. QED
    BY <1>2, <2>1, <2>2
<1>4. q \in Peers /\ net[q] \in Seq(Frames) /\ net[p] \in Seq(Frames)
  BY TwoEnds, HereFacts
<1>5. ends'[q] = ends[q] /\ net'[q] = net[q] \o t /\ (net'[p] = net[p] \/ (net[p] # <<>> /\ net'[p] = Tail(net[p])))
  BY <1>2 DEF Moves, Sends, Takes
<1>6. ASSUME NEW i \in 1 .. Len(net'[q])
      PROVE  \/ i \in 1 .. Len(net[q]) /\ net'[q][i] = net[q][i]
             \/ net'[q][i] \in Frames /\ SentBy(p, ends[p], ends'[p], net'[q][i])
  <2>1. CASE i \in 1 .. Len(net[q])
    BY <1>3, <1>4, <1>5, <2>1, ConcatFrames
  <2>2. CASE i > Len(net[q]) /\ i - Len(net[q]) \in 1 .. Len(t)
    <3>1. PICK k \in 1 .. Len(t) : k = i - Len(net[q]) /\ Len(net[q]) \in Nat
      BY <1>3, <1>4, <2>2, ConcatFrames
    <3>2. net'[q][i] = t[k]
      <4>1. i = Len(net[q]) + k
        BY <3>1
      <4>. QED
        BY <1>3, <1>4, <1>5, <4>1, ConcatFrames
    <3>. QED
      BY <1>3, <3>2
  <2>3. i \in 1 .. Len(net[q] \o t)
    BY <1>5
  <2>4. i \in 1 .. Len(net[q]) \/ (i > Len(net[q]) /\ i - Len(net[q]) \in 1 .. Len(t))
    BY <1>3, <1>4, <2>3, ConcatFrames
  <2>. QED
    BY <2>1, <2>2, <2>4
<1>7. \A i \in 1 .. Len(net'[p]) : \E j \in 1 .. Len(net[p]) : net'[p][i] = net[p][j]
  <2>1. CASE net'[p] = net[p]
    BY <2>1
  <2>2. CASE net[p] # <<>> /\ net'[p] = Tail(net[p])
    BY <1>4, <2>2, TailFrames
  <2>. QED
    BY <1>5, <2>1, <2>2
<1>. QED
  BY <1>1, <1>4, <1>5, <1>6, <1>7

\* Until the request arrives the responder does nothing.
LEMMA UntouchedStays ==
  ASSUME IInv, Unborn, NEW e, e = ends[Responder], NEW f, EffectOn(Responder, e, f), ~Accepts(Responder, e, f)
  PROVE  Untouched(f) /\ Sends(Responder, <<>>)
<1>1. /\ e.source = "none" /\ e.emitted = 0 /\ e.ended = "no" /\ e.buffer = <<>> /\ ~e.in /\ ~e.out
      /\ e.observer = "none" /\ e.items = <<>> /\ e.tasks = <<>> /\ Head(net[Responder]).type = "REQUEST"
  BY DEF IInv, UnbornInv, Unborn, Untouched
<1>2. Requester # Responder
  BY DEF Requester, Responder
<1>3. CASE Turns(Responder, e, f)
  BY <1>1, <1>3 DEF Turns, SameSource, SameSink, SameGot, SameOpen, Untouched
<1>4. ~SendsItem(Responder, e, f)
  BY <1>1 DEF SendsItem
<1>5. ~Completes(Responder, e, f)
  BY <1>1 DEF Completes, SameSource, SourceDone
<1>6. ~Fails(Responder, e, f)
  BY <1>1 DEF Fails, SameSource, SourceDone
<1>7. ~Emits(Responder, e, f) /\ ~Responds(Responder, e, f) /\ ~Finishes(Responder, e, f)
  BY <1>1 DEF Emits, Responds, Finishes, SourceDone
<1>8. ~RunsTask(Responder, e, f) /\ ~Leaves(Responder, e, f)
  BY <1>1 DEF RunsTask, Leaves
<1>9. ~Ignores(Responder, e, f) /\ ~TakesItem(Responder, e, f) /\ ~TakesEnd(Responder, e, f)
  BY <1>1 DEF Ignores, TakesItem, TakesEnd
<1>10. ~TakesDemand(Responder, e, f) /\ ~TakesCancel(Responder, e, f) /\ ~TakesStop(Responder, e, f)
  BY <1>1, <1>2 DEF TakesDemand, TakesCancel, TakesStop
<1>. QED
  BY <1>3, <1>4, <1>5, <1>6, <1>7, <1>8, <1>9, <1>10 DEF EffectOn

\* Until it does, a requester has nothing to answer: its demand is nothing.
LEMMA AskingStays ==
  ASSUME IInv, Unborn, NEW e, e = ends[Requester], NEW f \in EndType, EffectOn(Requester, e, f)
  PROVE  f.received = 0 /\ f.tasks = <<>> /\ f.requested = 0 /\ f.items = <<>>
<1>1. /\ e.received = 0 /\ e.tasks = <<>> /\ e.requested = 0 /\ e.items = <<>> /\ net[Requester] = <<>>
      /\ (case.kind = "response" => e.source = "none" /\ ~e.out)
  BY DEF IInv, UnbornInv
<1>2. f.requested \in Nat /\ f.drain.delivered \in Nat
  BY Fields
<1>3. Requester # Responder
  BY DEF Requester, Responder
<1>4. \/ Turns(Requester, e, f) \/ Fails(Requester, e, f) \/ Emits(Requester, e, f) \/ Finishes(Requester, e, f)
      \/ Responds(Requester, e, f) \/ Completes(Requester, e, f) \/ Leaves(Requester, e, f)
  <2>1. ~SendsItem(Requester, e, f) /\ ~RunsTask(Requester, e, f)
    BY <1>1 DEF SendsItem, RunsTask
  <2>2. ~Ignores(Requester, e, f) /\ ~TakesItem(Requester, e, f) /\ ~TakesEnd(Requester, e, f)
    BY <1>1 DEF Ignores, TakesItem, TakesEnd, Takes
  <2>3. ~TakesDemand(Requester, e, f) /\ ~TakesCancel(Requester, e, f) /\ ~TakesStop(Requester, e, f)
    BY <1>1 DEF TakesDemand, TakesCancel, TakesStop, Takes
  <2>4. ~Accepts(Requester, e, f)
    BY <1>3 DEF Accepts
  <2>. QED
    BY <2>1, <2>2, <2>3, <2>4 DEF EffectOn
<1>5. CASE Turns(Requester, e, f) \/ Fails(Requester, e, f) \/ Completes(Requester, e, f)
  <2>1. SameGot(e, f) /\ f.requested <= e.requested
    BY <1>5 DEF Turns, Fails, Completes, SameSink
  <2>. QED
    BY <1>1, <1>2, <2>1 DEF SameGot
<1>6. CASE \/ Emits(Requester, e, f) \/ Finishes(Requester, e, f) \/ Responds(Requester, e, f)
           \/ Leaves(Requester, e, f)
  <2>1. SameGot(e, f) /\ f.requested = e.requested
    BY <1>6 DEF Emits, Finishes, Responds, Leaves, SameSink, SameDemand
  <2>. QED
    BY <1>1, <2>1 DEF SameGot
<1>. QED
  BY <1>4, <1>5, <1>6

\* The step of one end leaves the other as it is, and its own in its type.
LEMMA StepFacts ==
  ASSUME IInv, NEW p \in Peers, Steps(p), NEW q, q = Other(p), NEW e, e = ends[p], NEW f, f = ends'[p]
  PROVE  /\ e \in EndType /\ f \in EndType /\ EffectOn(p, e, f) /\ ends'[q] = ends[q] /\ case' = case
         /\ q \in Peers /\ ends[q] \in EndType
         /\ Accepts(p, e, f) \/ Onward(e, f)
         /\ (p = Requester /\ q = Responder) \/ (p = Responder /\ q = Requester)
         /\ Requester # Responder /\ Peers = {p, q} /\ p # q
<1>1. e \in EndType /\ f \in EndType /\ EffectOn(p, e, f) /\ case' = case
  BY DEF Steps, IInv, Typed
<1>2. /\ q \in Peers /\ ends[q] \in EndType /\ Peers = {p, q} /\ p # q
      /\ (p = Requester /\ q = Responder) \/ (p = Responder /\ q = Requester)
      /\ Requester # Responder
  BY TwoEnds DEF IInv, Typed
<1>3. ends'[q] = ends[q]
  BY NetFacts
<1>4. Accepts(p, e, f) \/ Onward(e, f)
  BY <1>1, OnwardFacts
<1>. QED
  BY <1>1, <1>2, <1>3, <1>4

\* Whether the responder has seen the request.
LEMMA UnbornStep ==
  ASSUME IInv, NEW p \in Peers, Steps(p)
  PROVE  /\ Accepts(p, ends[p], ends'[p]) => p = Responder /\ Unborn /\ ~Unborn'
         /\ ~Accepts(p, ends[p], ends'[p]) => (Unborn' <=> Unborn)
<1>1. PICK q : q = Other(p)
  OBVIOUS
<1>2. /\ Accepts(p, ends[p], ends'[p]) \/ Onward(ends[p], ends'[p])
      /\ (p = Requester /\ q = Responder) \/ (p = Responder /\ q = Requester)
      /\ ends'[q] = ends[q]
  BY <1>1, StepFacts
<1>. QED
  BY <1>2 DEF Accepts, Onward, Unborn

\* The part of the invariant about the time before the request.
LEMMA UnbornKept ==
  ASSUME IInv, NEW p \in Peers, Steps(p)
  PROVE  UnbornInv'
<1>1. PICK q, e, f : q = Other(p) /\ e = ends[p] /\ f = ends'[p]
  OBVIOUS
<1>2. /\ e \in EndType /\ f \in EndType /\ EffectOn(p, e, f) /\ ends'[q] = ends[q] /\ case' = case
      /\ q \in Peers /\ (Accepts(p, e, f) \/ Onward(e, f))
      /\ (p = Requester /\ q = Responder) \/ (p = Responder /\ q = Requester)
      /\ Requester # Responder /\ Peers = {p, q} /\ p # q
  BY <1>1, StepFacts
<1>3. /\ \A i \in 1 .. Len(net'[p]) : \E j \in 1 .. Len(net[p]) : net'[p][i] = net[p][j]
      /\ \A i \in 1 .. Len(net'[q]) :
           \/ i \in 1 .. Len(net[q]) /\ net'[q][i] = net[q][i]
           \/ net'[q][i] \in Frames /\ SentBy(p, e, f, net'[q][i])
      /\ net'[p] = net[p] \/ (net[p] # <<>> /\ net'[p] = Tail(net[p]))
      /\ net[q] \in Seq(Frames) /\ net[p] \in Seq(Frames)
  BY <1>1, NetFacts
<1>4. /\ Accepts(p, e, f) => p = Responder /\ Unborn /\ ~Unborn'
      /\ ~Accepts(p, e, f) => (Unborn' <=> Unborn)
  BY <1>1, UnbornStep
<1>5. UnbornInv
  BY DEF IInv
<1>6. ASSUME Unborn'
      PROVE  /\ Untouched(ends'[Responder]) /\ net'[Requester] = <<>>
             /\ net'[Responder] # <<>> /\ Head(net'[Responder]).type = "REQUEST"
             /\ \A i \in 1 .. Len(net'[Responder]) : net'[Responder][i].type \notin {"PAYLOAD", "REQUEST_N"}
             /\ ends'[Requester].received = 0 /\ ends'[Requester].tasks = <<>>
             /\ ends'[Requester].requested = 0 /\ ends'[Requester].items = <<>>
  <2>1. Unborn /\ ~Accepts(p, e, f)
    BY <1>4, <1>6
  <2>2. CASE p = Responder
    <3>1. Untouched(f) /\ Sends(p, <<>>)
      BY <1>1, <1>2, <2>1, <2>2, UntouchedStays
    <3>2. net'[p] = net[p] /\ net'[q] = net[q]
      <4>1. net[q] \o <<>> = net[q]
        BY <1>3, ConcatEmptySeq
      <4>. QED
        BY <1>1, <3>1, <4>1 DEF Sends
    <3>. QED
      BY <1>1, <1>2, <1>5, <2>1, <2>2, <3>1, <3>2 DEF UnbornInv
  <2>3. CASE p = Requester
    <3>1. f.received = 0 /\ f.tasks = <<>> /\ f.requested = 0 /\ f.items = <<>>
      BY <1>1, <1>2, <2>1, <2>3, AskingStays
    <3>2. net'[p] = <<>>
      BY <1>3, <1>5, <2>1, <2>3 DEF UnbornInv
    <3>3. q = Responder
      BY <1>2, <2>3
    <3>4. PICK t : Moves(p, t) /\ (t = <<>> \/ \E x \in Frames : t = <<x>>)
      BY <1>1, <1>2, MovedFacts DEF Moved
    <3>5. t \in Seq(Frames)
      <4>1. \A x \in Frames : <<x>> \in Seq(Frames)
        OBVIOUS
      <4>2. <<>> \in Seq(Frames)
        OBVIOUS
      <4>3. t = <<>> \/ \E x \in Frames : t = <<x>>
        BY <3>4, Zenon
      <4>. QED
        BY <4>1, <4>2, <4>3, Zenon
    <3>6. net'[q] = net[q] \o t
      BY <1>1, <3>4 DEF Moves, Sends, Takes
    <3>7. net[q] # <<>> /\ Head(net[q]).type = "REQUEST"
      BY <1>5, <2>1, <3>3 DEF UnbornInv
    <3>8. net'[q] # <<>> /\ Head(net'[q]) = Head(net[q])
      BY <1>3, <3>5, <3>6, <3>7, AppendFacts
    <3>9. e.requested = 0 /\ e.tasks = <<>> /\ (case.kind = "response" => ~e.out)
      BY <1>1, <1>5, <2>1, <2>3 DEF UnbornInv
    <3>10. \A i \in 1 .. Len(net'[q]) : net'[q][i].type \notin {"PAYLOAD", "REQUEST_N"}
      <4>1. ASSUME NEW x, SentBy(p, e, f, x)
            PROVE  x.type \notin {"PAYLOAD", "REQUEST_N"}
        BY <3>9, <4>1 DEF SentBy
      <4>2. \A i \in 1 .. Len(net[q]) : net[q][i].type \notin {"PAYLOAD", "REQUEST_N"}
        BY <1>5, <2>1, <3>3 DEF UnbornInv
      <4>. QED
        BY <1>3, <4>1, <4>2
    <3>. QED
      BY <1>1, <1>2, <1>5, <2>1, <2>3, <3>1, <3>2, <3>3, <3>7, <3>8, <3>10 DEF UnbornInv
  <2>. QED
    BY <1>2, <2>2, <2>3
<1>7. ASSUME NEW r \in Peers, NEW i \in 1 .. Len(net'[r]), net'[r][i].type = "REQUEST"
      PROVE  Unborn' /\ r = Responder /\ i = 1
  <2>1. \A z \in Peers : \A j \in 1 .. Len(net[z]) :
          net[z][j].type = "REQUEST" => Unborn /\ z = Responder /\ j = 1
    BY <1>5 DEF UnbornInv
  <2>2. CASE r = q
    <3>1. ~SentBy(p, e, f, net'[r][i])
      BY <1>7 DEF SentBy
    <3>2. i \in 1 .. Len(net[q]) /\ net'[q][i] = net[q][i]
      BY <1>3, <1>7, <2>2, <3>1
    <3>3. Unborn /\ q = Responder /\ i = 1
      BY <1>2, <1>7, <2>1, <2>2, <3>2
    <3>. QED
      BY <1>2, <1>4, <2>2, <3>3
  <2>3. CASE r = p /\ net'[p] = net[p]
    <3>1. Unborn /\ p = Responder /\ i = 1
      BY <1>7, <2>1, <2>3
    <3>2. ~Accepts(p, e, f)
      <4>1. ASSUME Accepts(p, e, f) PROVE FALSE
        <5>1. net[p] # <<>> /\ net'[p] = Tail(net[p])
          BY <4>1 DEF Accepts, Takes
        <5>. QED
          BY <1>3, <2>3, <5>1, TailShorter
      <4>. QED
        BY <4>1
    <3>. QED
      BY <1>4, <2>3, <3>1, <3>2
  <2>4. CASE r = p /\ net[p] # <<>> /\ net'[p] = Tail(net[p])
    <3>1. i + 1 \in 1 .. Len(net[p]) /\ net'[p][i] = net[p][i + 1]
      BY <1>3, <1>7, <2>4, TailFrames
    <3>2. i + 1 = 1
      BY <1>7, <2>1, <2>4, <3>1
    <3>. QED
      BY <1>7, <3>2
  <2>. QED
    BY <1>2, <1>3, <2>2, <2>3, <2>4
<1>8. case'.kind # "channel" => ends'[Requester].source = "none" /\ ~ends'[Requester].out
  <2>1. case.kind # "channel" => ends[Requester].source = "none" /\ ~ends[Requester].out
    BY <1>5 DEF UnbornInv
  <2>2. CASE p = Responder
    BY <1>2, <2>1, <2>2
  <2>3. CASE p = Requester
    BY <1>1, <1>2, <1>4, <2>1, <2>3 DEF Onward
  <2>. QED
    BY <1>2, <2>2, <2>3
<1>. QED
  BY <1>6, <1>7, <1>8 DEF UnbornInv, Unborn

\* The part about a source that has ended.
LEMMA SourceKept ==
  ASSUME IInv, NEW p \in Peers, Steps(p)
  PROVE  \A r \in Peers : SourceInv(ends[r])'
<1>1. PICK q, e, f : q = Other(p) /\ e = ends[p] /\ f = ends'[p]
  OBVIOUS
<1>2. /\ e \in EndType /\ f \in EndType /\ EffectOn(p, e, f) /\ ends'[q] = ends[q] /\ case' = case
      /\ q \in Peers /\ (Accepts(p, e, f) \/ Onward(e, f)) /\ Peers = {p, q} /\ p # q
  BY <1>1, StepFacts
<1>3. SourceInv(ends[q])'
  BY <1>2 DEF IInv, SourceInv
<1>4. SourceInv(e) /\ e.buffer \in Seq(Nat) /\ e.emitted \in Nat
  BY <1>1, <1>2, Fields DEF IInv
<1>5. /\ f.ended # "no" => f.source # "on"
      /\ f.ended # "no" /\ f.buffer # <<>> => f.waited
      /\ case.kind = "response" => f.buffer = <<>>
      /\ \A i \in 1 .. Len(f.buffer) : f.buffer[i] > 0
  <2>1. CASE SameSource(e, f)
    BY <1>4, <2>1 DEF SourceInv, SameSource
  <2>2. CASE SourceLeft(e, f)
    BY <1>4, <2>2 DEF SourceInv, SourceLeft
  <2>3. CASE SourceDone(e, f)
    BY <1>4, <2>3 DEF SourceInv, SourceDone
  <2>4. CASE SendsItem(p, e, f)
    <3>1. \A i \in 1 .. Len(f.buffer) : f.buffer[i] > 0
      BY <1>4, <2>4, TailFrames DEF SourceInv, SendsItem
    <3>. QED
      BY <1>4, <2>4, <3>1 DEF SourceInv, SendsItem
  <2>5. CASE Emits(p, e, f)
    <3>1. \A i \in 1 .. Len(f.buffer) : f.buffer[i] > 0
      <4>1. PICK n \in Nat : n = e.emitted + 1 /\ n > 0
        BY <1>4
      <4>2. f.buffer = Append(e.buffer, n)
        BY <2>5, <4>1 DEF Emits
      <4>. QED
        BY <1>4, <4>1, <4>2, AppendFrames DEF SourceInv
    <3>. QED
      BY <1>4, <2>5, <3>1 DEF SourceInv, Emits
  <2>6. CASE Responds(p, e, f)
    BY <1>4, <2>6 DEF SourceInv, Responds
  <2>7. CASE Accepts(p, e, f)
    BY <2>7 DEF Accepts
  <2>. QED
    BY <1>2, <2>1, <2>2, <2>3, <2>4, <2>5, <2>6, <2>7
       DEF EffectOn, Turns, Completes, Fails, Finishes, RunsTask, Leaves, Ignores, TakesItem, TakesEnd,
           TakesDemand, TakesCancel, TakesStop
<1>6. SourceInv(ends[p])'
  BY <1>1, <1>2, <1>5 DEF SourceInv
<1>. QED
  BY <1>2, <1>3, <1>6

\* The part about observers whose direction is closed.
LEMMA OpenKept ==
  ASSUME IInv, NEW p \in Peers, Steps(p)
  PROVE  \A r \in Peers : OpenInv(ends[r])'
<1>1. PICK q, e, f : q = Other(p) /\ e = ends[p] /\ f = ends'[p]
  OBVIOUS
<1>2. /\ e \in EndType /\ f \in EndType /\ EffectOn(p, e, f) /\ ends'[q] = ends[q]
      /\ q \in Peers /\ (Accepts(p, e, f) \/ Onward(e, f)) /\ Peers = {p, q} /\ p # q
  BY <1>1, StepFacts
<1>3. OpenInv(ends[q])' /\ OpenInv(e)
  BY <1>1, <1>2 DEF IInv, OpenInv
<1>4. f.observer = "open" /\ ~f.in => ~f.out
  <2>1. CASE f.in = e.in /\ (f.out => e.out) /\ f.observer = e.observer
    BY <1>3, <2>1 DEF OpenInv
  <2>2. CASE ~f.out \/ f.observer # "open"
    BY <2>2
  <2>3. CASE Turns(p, e, f) \/ Emits(p, e, f) \/ Finishes(p, e, f) \/ Ignores(p, e, f) \/ TakesDemand(p, e, f)
    BY <2>1, <2>3 DEF Turns, Emits, Finishes, Ignores, TakesDemand, SameSink, SameOpen
  <2>4. CASE SendsItem(p, e, f) \/ Completes(p, e, f) \/ Responds(p, e, f)
    BY <2>1, <2>2, <2>4 DEF SendsItem, Completes, Responds, SameSink
  <2>5. CASE RunsTask(p, e, f) \/ TakesItem(p, e, f)
    BY <2>1, <2>5 DEF RunsTask, TakesItem, SameOpen
  <2>6. CASE Fails(p, e, f)
    BY <2>1, <2>2, <2>6 DEF Fails, SameSink, SameOpen
  <2>7. CASE Leaves(p, e, f) \/ TakesEnd(p, e, f) \/ TakesCancel(p, e, f) \/ TakesStop(p, e, f)
    BY <2>2, <2>7 DEF Leaves, TakesEnd, TakesCancel, TakesStop
  <2>8. CASE Accepts(p, e, f)
    BY <2>8 DEF Accepts
  <2>. QED
    BY <1>2, <2>3, <2>4, <2>5, <2>6, <2>7, <2>8 DEF EffectOn
<1>5. OpenInv(ends[p])'
  BY <1>1, <1>4 DEF OpenInv
<1>. QED
  BY <1>2, <1>3, <1>5

\* An observer that fails, or one that must, has an excuse.
LEMMA FailureKept ==
  ASSUME IInv, NEW p \in Peers, Steps(p)
  PROVE  \A r \in Peers : FailureInv(r)'
<1>1. PICK q, e, f, o : q = Other(p) /\ e = ends[p] /\ f = ends'[p] /\ o = ends[q]
  OBVIOUS
<1>2. /\ e \in EndType /\ f \in EndType /\ EffectOn(p, e, f) /\ ends'[q] = o /\ case' = case /\ o \in EndType
      /\ q \in Peers /\ (Accepts(p, e, f) \/ Onward(e, f))
      /\ (p = Requester /\ q = Responder) \/ (p = Responder /\ q = Requester)
      /\ Requester # Responder /\ Peers = {p, q} /\ p # q
  BY <1>1, StepFacts
<1>3. /\ \A i \in 1 .. Len(net'[p]) : \E j \in 1 .. Len(net[p]) : net'[p][i] = net[p][j]
      /\ \A i \in 1 .. Len(net'[q]) :
           \/ i \in 1 .. Len(net[q]) /\ net'[q][i] = net[q][i]
           \/ net'[q][i] \in Frames /\ SentBy(p, e, f, net'[q][i])
      /\ net[q] \in Seq(Frames) /\ net[p] \in Seq(Frames)
  BY <1>1, NetFacts
<1>4. /\ Accepts(p, e, f) => p = Responder /\ Unborn /\ ~Unborn'
      /\ ~Accepts(p, e, f) => (Unborn' <=> Unborn)
  BY <1>1, UnbornStep
<1>5. Other(q) = p /\ Other(p) = q
  BY <1>1, TwoEnds
<1>6. /\ o.observer = "error" => Excused(e, o)
      /\ e.observer = "error" => Excused(o, e)
      /\ \A i \in 1 .. Len(net[q]) :
           /\ net[q][i].type = "ERROR" \/ (net[q][i].type = "CANCEL" /\ q = Responder) =>
                Excused(e, o) \/ (q = Responder /\ ~Unborn /\ ~o.in)
           /\ net[q][i].type = "CANCEL" /\ q = Requester => ~e.in
      /\ \A i \in 1 .. Len(net[p]) :
           /\ net[p][i].type = "ERROR" \/ (net[p][i].type = "CANCEL" /\ p = Responder) =>
                Excused(o, e) \/ (p = Responder /\ ~Unborn /\ ~e.in)
           /\ net[p][i].type = "CANCEL" /\ p = Requester => ~o.in
  BY <1>1, <1>2, <1>5, Zenon DEF IInv, FailureInv
<1>7. Unborn => Untouched(ends[Responder]) /\ net[Requester] = <<>>
  BY DEF IInv, UnbornInv
\* An excuse stays one.
<1>8. (Excused(e, o) => Excused(f, o)) /\ (Excused(o, e) => Excused(o, f))
  <2>1. CASE Onward(e, f)
    BY <2>1 DEF Onward, Excused
  <2>2. CASE Accepts(p, e, f)
    <3>1. e.ended = "no" /\ e.observer = "none"
      BY <1>1, <1>4, <1>7, <2>2 DEF Untouched
    <3>. QED
      BY <3>1 DEF Excused
  <2>. QED
    BY <1>2, <2>1, <2>2
<1>9. p = Responder /\ ~Unborn /\ ~e.in => ~Unborn' /\ ~f.in
  BY <1>2, <1>4 DEF Onward
<1>10. q = Responder /\ ~Unborn => ~Unborn'
  BY <1>2, <1>4
<1>11. p = Responder /\ net[q] # <<>> /\ ~e.in => ~f.in
  BY <1>2, <1>4, <1>7 DEF Onward
\* What p receives.
<1>12. /\ f.observer = "error" => Excused(o, f)
       /\ \A i \in 1 .. Len(net'[p]) :
            /\ net'[p][i].type = "ERROR" \/ (net'[p][i].type = "CANCEL" /\ p = Responder) =>
                 Excused(o, f) \/ (p = Responder /\ ~Unborn' /\ ~f.in)
            /\ net'[p][i].type = "CANCEL" /\ p = Requester => ~o.in
  <2>1. ASSUME f.observer = "error" PROVE Excused(o, f)
    <3>1. CASE e.observer = "error"
      BY <1>6, <1>8, <3>1
    <3>2. CASE Fails(p, e, f)
      BY <3>2 DEF Fails, Excused
    <3>3. CASE TakesStop(p, e, f) /\ e.observer # "error"
      <4>1. /\ Head(net[p]).type = "ERROR" \/ (Head(net[p]).type = "CANCEL" /\ p = Responder)
            /\ net[p] # <<>> /\ (e.in \/ p = Requester)
        BY <2>1, <3>3 DEF TakesStop, Takes
      <4>2. 1 \in 1 .. Len(net[p]) /\ Head(net[p]) = net[p][1]
        BY <4>1, <1>3, TailFrames
      <4>3. Excused(o, e) \/ (p = Responder /\ ~Unborn /\ ~e.in)
        BY <1>6, <4>1, <4>2
      <4>4. Excused(o, e)
        BY <1>2, <4>1, <4>3
      <4>. QED
        BY <1>8, <4>4
    <3>4. CASE ~Fails(p, e, f) /\ ~TakesStop(p, e, f) /\ e.observer # "error"
      <4>1. CASE Turns(p, e, f) \/ SendsItem(p, e, f) \/ Completes(p, e, f) \/ Emits(p, e, f) \/ Responds(p, e, f)
        BY <2>1, <3>4, <4>1 DEF Turns, SendsItem, Completes, Emits, Responds, SameSink
      <4>2. CASE \/ Finishes(p, e, f) \/ RunsTask(p, e, f) \/ Leaves(p, e, f) \/ Ignores(p, e, f)
                 \/ TakesItem(p, e, f)
        BY <2>1, <3>4, <4>2 DEF Finishes, RunsTask, Leaves, Ignores, TakesItem, SameSink
      <4>3. CASE TakesEnd(p, e, f) \/ TakesDemand(p, e, f) \/ TakesCancel(p, e, f) \/ Accepts(p, e, f)
        BY <2>1, <3>4, <4>3 DEF TakesEnd, TakesDemand, TakesCancel, Accepts, SameSink
      <4>. QED
        BY <1>2, <3>4, <4>1, <4>2, <4>3 DEF EffectOn
    <3>. QED
      BY <3>1, <3>2, <3>3, <3>4
  <2>2. ASSUME NEW i \in 1 .. Len(net'[p])
        PROVE  /\ net'[p][i].type = "ERROR" \/ (net'[p][i].type = "CANCEL" /\ p = Responder) =>
                    Excused(o, f) \/ (p = Responder /\ ~Unborn' /\ ~f.in)
               /\ net'[p][i].type = "CANCEL" /\ p = Requester => ~o.in
    BY <1>3, <1>6, <1>8, <1>9, <2>2
  <2>. QED
    BY <2>1, <2>2
\* What p sends.
<1>13. ASSUME NEW i \in 1 .. Len(net'[q])
       PROVE  /\ net'[q][i].type = "ERROR" \/ (net'[q][i].type = "CANCEL" /\ q = Responder) =>
                   Excused(f, o) \/ (q = Responder /\ ~Unborn' /\ ~o.in)
              /\ net'[q][i].type = "CANCEL" /\ q = Requester => ~f.in
  <2>1. CASE i \in 1 .. Len(net[q]) /\ net'[q][i] = net[q][i]
    <3>1. net[q] # <<>>
      BY <2>1
    <3>2. q = Requester /\ ~e.in => ~f.in
      BY <1>2, <1>11, <3>1
    <3>. QED
      BY <1>6, <1>8, <1>10, <2>1, <3>2
  <2>2. CASE SentBy(p, e, f, net'[q][i])
    <3>1. PICK x : x = net'[q][i]
      OBVIOUS
    <3>2. x.type = "CANCEL" => ~f.in
      BY <2>2, <3>1 DEF SentBy
    <3>3. ASSUME x.type \in {"ERROR", "CANCEL"}
          PROVE  Excused(f, o) \/ (q = Responder /\ ~Unborn' /\ ~o.in)
      <4>1. CASE f.ended = "error" \/ f.observer \in {"complete", "gone"}
        BY <4>1 DEF Excused
      <4>2. CASE p = Requester /\ net[p] # <<>> /\ Head(net[p]).type = "CANCEL"
        <5>1. 1 \in 1 .. Len(net[p]) /\ Head(net[p]) = net[p][1]
          BY <1>3, <4>2, TailFrames
        <5>2. ~o.in
          BY <1>6, <4>2, <5>1
        <5>3. ~Unborn /\ q = Responder
          BY <1>2, <1>7, <4>2
        <5>. QED
          BY <1>10, <5>2, <5>3
      <4>. QED
        BY <2>2, <3>1, <3>3, <4>1, <4>2 DEF SentBy
    <3>. QED
      BY <3>1, <3>2, <3>3
  <2>. QED
    BY <1>3, <1>13, <2>1, <2>2
<1>14. FailureInv(p)'
  BY <1>1, <1>2, <1>5, <1>12 DEF FailureInv, Excused, Unborn
<1>15. FailureInv(q)'
  <2>1. o.observer = "error" => Excused(f, o)
    BY <1>6, <1>8
  <2>. QED
    BY <1>1, <1>2, <1>5, <1>13, <2>1 DEF FailureInv, Excused, Unborn
<1>. QED
  BY <1>2, <1>14, <1>15

\* A sequence of one frame.
LEMMA OneFrame ==
  ASSUME NEW x \in Frames
  PROVE  \E t \in Seq(Frames) : t = <<x>> /\ Len(t) = 1 /\ t[1] = x
<1>1. PICK t : t = <<x>>
  OBVIOUS
<1>2. t \in Seq(Frames) /\ Len(t) = 1 /\ t[1] = x
  BY <1>1
<1>. QED
  BY <1>1, <1>2

\* The first of frames in order is taken.
LEMMA TailInOrder ==
  ASSUME NEW s \in Seq(Frames), s # <<>>, NEW k \in Nat, NEW m \in Nat, InOrder(s, k, m), ~IsItem(Head(s))
  PROVE  InOrder(Tail(s), k, m)
<1>1. /\ Len(Tail(s)) = Len(s) - 1 /\ Len(s) \in Nat /\ Len(s) > 0 /\ Head(s) = s[1]
      /\ \A i \in 1 .. Len(Tail(s)) : Tail(s)[i] = s[i + 1] /\ i + 1 \in 1 .. Len(s)
  BY TailFrames
<1>2. \A i \in 1 .. Len(Tail(s)) : IsItem(Tail(s)[i]) => k < Tail(s)[i].n /\ Tail(s)[i].n <= m
  BY <1>1 DEF InOrder
<1>3. ASSUME NEW i \in 1 .. Len(Tail(s)), NEW j \in 1 .. Len(Tail(s)), i < j, IsItem(Tail(s)[i]), IsItem(Tail(s)[j])
      PROVE  Tail(s)[i].n < Tail(s)[j].n
  <2>1. PICK a \in 1 .. Len(s), b \in 1 .. Len(s) : a = i + 1 /\ b = j + 1 /\ a < b
    BY <1>1, <1>3
  <2>2. IsItem(s[a]) /\ IsItem(s[b]) /\ Tail(s)[i] = s[a] /\ Tail(s)[j] = s[b]
    BY <1>1, <1>3, <2>1
  <2>. QED
    BY <2>1, <2>2 DEF InOrder
<1>4. ASSUME NEW x \in Nat, k < x, x <= m
      PROVE  \E i \in 1 .. Len(Tail(s)) : IsItem(Tail(s)[i]) /\ Tail(s)[i].n = x
  <2>1. PICK i \in 1 .. Len(s) : IsItem(s[i]) /\ s[i].n = x
    BY <1>4 DEF InOrder
  <2>2. i # 1
    BY <1>1, <2>1
  <2>3. PICK j \in 1 .. Len(Tail(s)) : j + 1 = i
    BY <1>1, <2>1, <2>2
  <2>. QED
    BY <1>1, <2>1, <2>3
<1>. QED
  BY <1>2, <1>3, <1>4 DEF InOrder

\* An item that is taken is the next.
LEMMA HeadInOrder ==
  ASSUME NEW s \in Seq(Frames), s # <<>>, NEW k \in Nat, NEW m \in Nat, InOrder(s, k, m), IsItem(Head(s))
  PROVE  Head(s).n = k + 1 /\ k + 1 <= m /\ InOrder(Tail(s), k + 1, m)
<1>1. /\ Len(Tail(s)) = Len(s) - 1 /\ Len(s) \in Nat /\ Len(s) > 0 /\ Head(s) = s[1] /\ 1 \in 1 .. Len(s)
      /\ \A i \in 1 .. Len(Tail(s)) : Tail(s)[i] = s[i + 1] /\ i + 1 \in 1 .. Len(s)
      /\ \A i \in 1 .. Len(s) : s[i].n \in Nat
  <2>1. \A i \in 1 .. Len(s) : s[i] \in Frames
    BY ElementOfSeq
  <2>. QED
    BY <2>1, TailFrames DEF Frames
<1>2. k < s[1].n /\ s[1].n <= m
  BY <1>1 DEF InOrder
<1>3. \A j \in 1 .. Len(s) : 1 < j /\ IsItem(s[j]) => s[1].n < s[j].n
  BY <1>1 DEF InOrder
<1>4. s[1].n = k + 1
  <2>1. PICK i \in 1 .. Len(s) : IsItem(s[i]) /\ s[i].n = k + 1
    BY <1>1, <1>2 DEF InOrder
  <2>2. i = 1 \/ s[1].n < k + 1
    BY <1>1, <1>3, <2>1
  <2>. QED
    BY <1>1, <1>2, <2>1, <2>2
<1>5. \A i \in 1 .. Len(Tail(s)) : IsItem(Tail(s)[i]) => k + 1 < Tail(s)[i].n /\ Tail(s)[i].n <= m
  <2>1. ASSUME NEW i \in 1 .. Len(Tail(s)), IsItem(Tail(s)[i])
        PROVE  k + 1 < Tail(s)[i].n /\ Tail(s)[i].n <= m
    <3>1. PICK a \in 1 .. Len(s) : a = i + 1 /\ 1 < a
      BY <1>1
    <3>2. Tail(s)[i] = s[a] /\ IsItem(s[a])
      BY <1>1, <2>1, <3>1
    <3>. QED
      BY <1>3, <1>4, <3>1, <3>2 DEF InOrder
  <2>. QED
    BY <2>1
<1>6. ASSUME NEW i \in 1 .. Len(Tail(s)), NEW j \in 1 .. Len(Tail(s)), i < j, IsItem(Tail(s)[i]), IsItem(Tail(s)[j])
      PROVE  Tail(s)[i].n < Tail(s)[j].n
  <2>1. PICK a \in 1 .. Len(s), b \in 1 .. Len(s) : a = i + 1 /\ b = j + 1 /\ a < b
    BY <1>1, <1>6
  <2>2. IsItem(s[a]) /\ IsItem(s[b]) /\ Tail(s)[i] = s[a] /\ Tail(s)[j] = s[b]
    BY <1>1, <1>6, <2>1
  <2>. QED
    BY <2>1, <2>2 DEF InOrder
<1>7. ASSUME NEW x \in Nat, k + 1 < x, x <= m
      PROVE  \E i \in 1 .. Len(Tail(s)) : IsItem(Tail(s)[i]) /\ Tail(s)[i].n = x
  <2>1. PICK i \in 1 .. Len(s) : IsItem(s[i]) /\ s[i].n = x
    BY <1>7 DEF InOrder
  <2>2. i # 1
    BY <1>4, <1>7, <2>1
  <2>3. PICK j \in 1 .. Len(Tail(s)) : j + 1 = i
    BY <1>1, <2>1, <2>2
  <2>. QED
    BY <1>1, <2>1, <2>3
<1>. QED
  BY <1>1, <1>2, <1>4, <1>5, <1>6, <1>7 DEF InOrder

\* What follows the frame that completes stays behind it.
LEMMA TailLast ==
  ASSUME NEW s \in Seq(Frames), s # <<>>, NEW e, NEW m, CompletesLast(s, e, m)
  PROVE  CompletesLast(Tail(s), e, m)
<1>1. /\ Len(Tail(s)) = Len(s) - 1 /\ Len(s) \in Nat /\ Len(s) > 0
      /\ \A i \in 1 .. Len(Tail(s)) : Tail(s)[i] = s[i + 1] /\ i + 1 \in 1 .. Len(s)
  BY TailFrames
<1>2. ASSUME NEW i \in 1 .. Len(Tail(s)), Tail(s)[i].type = "PAYLOAD", Tail(s)[i].complete
      PROVE  /\ Completed(e) /\ ~e.out /\ m = e.emitted
             /\ \A j \in 1 .. Len(Tail(s)) : i < j => ~IsItem(Tail(s)[j])
  <2>1. PICK a \in 1 .. Len(s) : a = i + 1 /\ s[a] = Tail(s)[i]
    BY <1>1
  <2>2. /\ Completed(e) /\ ~e.out /\ m = e.emitted
        /\ \A j \in 1 .. Len(s) : a < j => ~IsItem(s[j])
    BY <1>2, <2>1, Zenon DEF CompletesLast
  <2>3. ASSUME NEW j \in 1 .. Len(Tail(s)), i < j PROVE ~IsItem(Tail(s)[j])
    <3>1. j + 1 \in 1 .. Len(s) /\ a < j + 1 /\ Tail(s)[j] = s[j + 1]
      BY <1>1, <2>1, <2>3
    <3>. QED
      BY <2>2, <3>1
  <2>. QED
    BY <2>2, <2>3
<1>. QED
  BY <1>2 DEF CompletesLast

\* A frame without an item is sent.
LEMMA SignalInOrder ==
  ASSUME NEW s \in Seq(Frames), NEW x \in Frames, NEW k, NEW m, InOrder(s, k, m), ~IsItem(x)
  PROVE  InOrder(s \o <<x>>, k, m)
<1>1. PICK t \in Seq(Frames) : t = <<x>> /\ Len(t) = 1 /\ t[1] = x
  BY OneFrame
<1>2. PICK u \in Seq(Frames) : u = s \o t
  BY <1>1, ConcatFrames
<1>3. Len(u) = Len(s) + 1 /\ Len(s) \in Nat /\ u[Len(s) + 1] = x /\ \A i \in 1 .. Len(s) : u[i] = s[i]
  BY <1>1, <1>2, ConcatFrames
<1>4. \A i \in 1 .. Len(u) : i \in 1 .. Len(s) \/ i = Len(s) + 1
  BY <1>3
<1>5. \A i \in 1 .. Len(u) : IsItem(u[i]) => i \in 1 .. Len(s) /\ u[i] = s[i]
  BY <1>3, <1>4
<1>6. \A i \in 1 .. Len(s) : i \in 1 .. Len(u)
  BY <1>3
<1>7. InOrder(u, k, m)
  BY <1>3, <1>5, <1>6, Zenon DEF InOrder
<1>. QED
  BY <1>1, <1>2, <1>7

\* The next item is sent.
LEMMA ItemInOrder ==
  ASSUME NEW s \in Seq(Frames), NEW x \in Frames, NEW k \in Nat, NEW m \in Nat, k <= m, InOrder(s, k, m),
         IsItem(x), x.n = m + 1
  PROVE  InOrder(s \o <<x>>, k, m + 1)
<1>1. PICK t \in Seq(Frames) : t = <<x>> /\ Len(t) = 1 /\ t[1] = x
  BY OneFrame
<1>2. PICK u \in Seq(Frames) : u = s \o t
  BY <1>1, ConcatFrames
<1>3. Len(u) = Len(s) + 1 /\ Len(s) \in Nat /\ u[Len(s) + 1] = x /\ \A i \in 1 .. Len(s) : u[i] = s[i]
  BY <1>1, <1>2, ConcatFrames
<1>4. \A i \in 1 .. Len(u) : (i \in 1 .. Len(s) /\ u[i] = s[i]) \/ (i = Len(s) + 1 /\ u[i] = x)
  BY <1>3
<1>5. \A i \in 1 .. Len(s) : i \in 1 .. Len(u)
  BY <1>3
<1>5a. \A i \in 1 .. Len(s) : s[i].n \in Nat
  <2>1. \A i \in 1 .. Len(s) : s[i] \in Frames
    BY ElementOfSeq
  <2>. QED
    BY <2>1 DEF Frames
<1>6. \A i \in 1 .. Len(u) : IsItem(u[i]) => k < u[i].n /\ u[i].n <= m + 1
  <2>1. \A i \in 1 .. Len(s) : IsItem(s[i]) => k < s[i].n /\ s[i].n <= m
    BY DEF InOrder
  <2>. QED
    BY <1>4, <1>5a, <2>1, SMTT(30)
<1>7. ASSUME NEW i \in 1 .. Len(u), NEW j \in 1 .. Len(u), i < j, IsItem(u[i]), IsItem(u[j])
      PROVE  u[i].n < u[j].n
  <2>1. i \in 1 .. Len(s) /\ u[i] = s[i]
    BY <1>3, <1>4, <1>7
  <2>2. CASE j \in 1 .. Len(s)
    <3>1. u[j] = s[j]
      BY <1>3, <2>2
    <3>. QED
      BY <1>7, <2>1, <2>2, <3>1, Zenon DEF InOrder
  <2>3. CASE j = Len(s) + 1
    <3>1. s[i].n <= m
      BY <1>7, <2>1 DEF InOrder
    <3>. QED
      BY <1>3, <1>5a, <2>1, <2>3, <3>1
  <2>. QED
    BY <1>4, <2>2, <2>3
<1>8. ASSUME NEW y \in Nat, k < y, y <= m + 1
      PROVE  \E i \in 1 .. Len(u) : IsItem(u[i]) /\ u[i].n = y
  <2>1. CASE y <= m
    <3>1. PICK i \in 1 .. Len(s) : IsItem(s[i]) /\ s[i].n = y
      BY <1>8, <2>1 DEF InOrder
    <3>. QED
      BY <1>3, <1>5, <3>1
  <2>2. CASE y = m + 1
    BY <1>3, <2>2
  <2>. QED
    BY <1>8, <2>1, <2>2
<1>9. InOrder(u, k, m + 1)
  BY <1>6, <1>7, <1>8 DEF InOrder
<1>. QED
  BY <1>1, <1>2, <1>9

Completing(x) == x.type = "PAYLOAD" /\ x.complete

\* A frame is sent by a source that becomes f.
LEMMA SentLast ==
  ASSUME NEW s \in Seq(Frames), NEW x \in Frames, NEW e, NEW f, NEW m, NEW n,
         CompletesLast(s, e, m),
         (\E i \in 1 .. Len(s) : Completing(s[i])) => Completed(f) /\ ~f.out /\ n = f.emitted /\ ~IsItem(x),
         Completing(x) => Completed(f) /\ ~f.out /\ n = f.emitted
  PROVE  CompletesLast(s \o <<x>>, f, n)
<1>1. PICK t \in Seq(Frames) : t = <<x>> /\ Len(t) = 1 /\ t[1] = x
  BY OneFrame
<1>2. PICK u \in Seq(Frames) : u = s \o t
  BY <1>1, ConcatFrames
<1>3. Len(u) = Len(s) + 1 /\ Len(s) \in Nat /\ u[Len(s) + 1] = x /\ \A i \in 1 .. Len(s) : u[i] = s[i]
  BY <1>1, <1>2, ConcatFrames
<1>4. \A i \in 1 .. Len(u) : (i \in 1 .. Len(s) /\ u[i] = s[i]) \/ (i = Len(s) + 1 /\ u[i] = x)
  BY <1>3
<1>5. ASSUME NEW i \in 1 .. Len(u), Completing(u[i])
      PROVE  Completed(f) /\ ~f.out /\ n = f.emitted /\ \A j \in 1 .. Len(u) : i < j => ~IsItem(u[j])
  <2>1. CASE i \in 1 .. Len(s)
    <3>1. Completing(s[i])
      BY <1>3, <1>5, <2>1
    <3>2. \A j \in 1 .. Len(s) : i < j => ~IsItem(s[j])
      BY <2>1, <3>1, Zenon DEF CompletesLast, Completing
    <3>3. Completed(f) /\ ~f.out /\ n = f.emitted /\ ~IsItem(x)
      BY <2>1, <3>1
    <3>. QED
      BY <1>4, <3>2, <3>3
  <2>2. CASE i = Len(s) + 1
    <3>1. Completing(x)
      BY <1>3, <1>5, <2>2
    <3>. QED
      BY <1>3, <2>2, <3>1
  <2>. QED
    BY <1>4, <2>1, <2>2
<1>6. CompletesLast(u, f, n)
  BY <1>5, Zenon DEF CompletesLast, Completing
<1>. QED
  BY <1>1, <1>2, <1>6

\* A source that becomes f sends nothing.
LEMMA KeptLast ==
  ASSUME NEW s, NEW e, NEW f, NEW m, NEW n, CompletesLast(s, e, m),
         (\E i \in 1 .. Len(s) : Completing(s[i])) => Completed(f) /\ ~f.out /\ n = f.emitted
  PROVE  CompletesLast(s, f, n)
BY Zenon DEF CompletesLast, Completing

\* Items that reach an end, or that its observer hears of.
LEMMA FlowReceived ==
  ASSUME IInv, NEW p \in Peers, Steps(p)
  PROVE  FlowInv(p)'
<1>1. PICK q, e, f, o : q = Other(p) /\ e = ends[p] /\ f = ends'[p] /\ o = ends[q]
  OBVIOUS
<1>2. /\ e \in EndType /\ f \in EndType /\ EffectOn(p, e, f) /\ ends'[q] = o /\ case' = case /\ o \in EndType
      /\ q \in Peers /\ (Accepts(p, e, f) \/ Onward(e, f))
      /\ (p = Requester /\ q = Responder) \/ (p = Responder /\ q = Requester)
      /\ Requester # Responder /\ Peers = {p, q} /\ p # q
  BY <1>1, StepFacts
<1>3. /\ \A i \in 1 .. Len(net'[p]) : \E j \in 1 .. Len(net[p]) : net'[p][i] = net[p][j]
      /\ net'[p] = net[p] \/ (net[p] # <<>> /\ net'[p] = Tail(net[p]))
      /\ net[p] \in Seq(Frames)
  BY <1>1, NetFacts
<1>4. /\ Accepts(p, e, f) => p = Responder /\ Unborn /\ ~Unborn'
      /\ ~Accepts(p, e, f) => (Unborn' <=> Unborn)
  BY <1>1, UnbornStep
<1>5. Other(p) = q
  BY <1>1
<1>6. /\ e.items \in Seq(Nat) /\ Len(e.items) \in Nat /\ f.items \in Seq(Nat) /\ Len(f.items) \in Nat
      /\ o.emitted \in Nat /\ e.in \in BOOLEAN /\ e.out \in BOOLEAN
  BY <1>2, Fields, LenProperties
<1>7. PICK k : k = Given(p)
  OBVIOUS
<1>8. PICK l : l = Given(p)'
  OBVIOUS
<1>9. k \in Nat /\ l \in Nat
  BY <1>1, <1>6, <1>7, <1>8 DEF Given
<1>10. OpenInv(e) /\ FlowInv(p)
  BY <1>1 DEF IInv
<1>11. /\ \A i \in 1 .. Len(e.items) : e.items[i] = i
       /\ k <= o.emitted
       /\ Listens(p) => \E m \in Nat :
            /\ k <= m /\ m <= o.emitted /\ InOrder(net[p], k, m) /\ CompletesLast(net[p], o, m)
            /\ o.out => m + Len(o.buffer) = o.emitted /\ Following(o.buffer, m)
       /\ \A i \in 1 .. Len(net[p]) :
            net[p][i].type = "PAYLOAD" /\ (net[p][i].n = 0 \/ case.kind = "response") => net[p][i].complete
       /\ e.observer = "complete" => Len(e.items) = o.emitted /\ Completed(o)
  BY <1>1, <1>5, <1>7, <1>10, Zenon DEF FlowInv
<1>12. \A i \in 1 .. Len(net'[p]) :
         net'[p][i].type = "PAYLOAD" /\ (net'[p][i].n = 0 \/ case.kind = "response") => net'[p][i].complete
  BY <1>3, <1>11
\* What has to be shown.
<1>13. ASSUME \A i \in 1 .. Len(f.items) : f.items[i] = i, l <= o.emitted,
              Listens(p)' => \E m \in Nat :
                /\ l <= m /\ m <= o.emitted /\ InOrder(net'[p], l, m) /\ CompletesLast(net'[p], o, m)
                /\ o.out => m + Len(o.buffer) = o.emitted /\ Following(o.buffer, m),
              f.observer = "complete" => Len(f.items) = o.emitted /\ Completed(o)
       PROVE  FlowInv(p)'
  <2>1. (\E m \in Nat :
           /\ l <= m /\ m <= o.emitted /\ InOrder(net'[p], l, m) /\ CompletesLast(net'[p], o, m)
           /\ o.out => m + Len(o.buffer) = o.emitted /\ Following(o.buffer, m))
        = (\E m \in Nat :
           /\ Given(p) <= m /\ m <= ends[q].emitted
           /\ InOrder(net[p], Given(p), m) /\ CompletesLast(net[p], ends[q], m)
           /\ ends[q].out => m + Len(ends[q].buffer) = ends[q].emitted /\ Following(ends[q].buffer, m))'
    BY <1>2, <1>8 DEF InOrder, CompletesLast, Following, Completed, IsItem
  <2>2. Completed(ends[q])' = Completed(o)
    BY <1>2 DEF Completed
  <2>. QED
    BY <1>1, <1>2, <1>5, <1>8, <1>12, <1>13, <2>1, <2>2, Zenon DEF FlowInv
\* The observer hears nothing.
<1>14. ASSUME ~Accepts(p, e, f), f.items = e.items, f.observer = "complete" => e.observer = "complete",
              \/ net'[p] = net[p]
              \/ net[p] # <<>> /\ net'[p] = Tail(net[p]) /\ (~IsItem(Head(net[p])) \/ ~Listens(p)')
       PROVE  FlowInv(p)'
  <2>1. l = k
    BY <1>1, <1>2, <1>4, <1>7, <1>8, <1>14 DEF Given
  <2>2. Listens(p)' => Listens(p)
    <3>1. f.observer = "open" => e.observer = "open"
      BY <1>2, <1>14 DEF Onward
    <3>2. f.in => e.in
      BY <1>2, <1>14 DEF Onward
    <3>. QED
      BY <1>1, <1>4, <1>14, <3>1, <3>2 DEF Listens
  <2>3. ASSUME Listens(p)'
        PROVE  \E m \in Nat :
                 /\ l <= m /\ m <= o.emitted /\ InOrder(net'[p], l, m) /\ CompletesLast(net'[p], o, m)
                 /\ o.out => m + Len(o.buffer) = o.emitted /\ Following(o.buffer, m)
    <3>1. PICK m \in Nat :
            /\ k <= m /\ m <= o.emitted /\ InOrder(net[p], k, m) /\ CompletesLast(net[p], o, m)
            /\ o.out => m + Len(o.buffer) = o.emitted /\ Following(o.buffer, m)
      BY <1>11, <2>2, <2>3
    <3>2. InOrder(net'[p], k, m) /\ CompletesLast(net'[p], o, m)
      <4>1. CASE net'[p] = net[p]
        BY <3>1, <4>1
      <4>2. CASE net[p] # <<>> /\ net'[p] = Tail(net[p]) /\ ~IsItem(Head(net[p]))
        BY <1>3, <1>9, <3>1, <4>2, TailInOrder, TailLast
      <4>. QED
        BY <1>14, <2>3, <4>1, <4>2
    <3>. QED
      BY <2>1, <3>1, <3>2
  <2>. QED
    BY <1>11, <1>13, <1>14, <2>1, <2>3
\* The first frame on its way.
<1>15. ASSUME net[p] # <<>>
       PROVE  /\ 1 \in 1 .. Len(net[p]) /\ Head(net[p]) = net[p][1] /\ Head(net[p]) \in Frames
              /\ Unborn /\ p = Responder => Head(net[p]).type = "REQUEST"
  BY <1>3, <1>15, TailFrames, HeadTailProperties, SMTT(40) DEF IInv, UnbornInv
<1>16. CASE \/ Turns(p, e, f) \/ SendsItem(p, e, f) \/ Completes(p, e, f) \/ Emits(p, e, f) \/ Responds(p, e, f)
            \/ Finishes(p, e, f) \/ RunsTask(p, e, f)
  <2>1. f.items = e.items /\ f.observer = e.observer /\ net'[p] = net[p]
    BY <1>16 DEF Turns, SendsItem, Completes, Emits, Responds, Finishes, RunsTask, SameSink, SameGot, Sends
  <2>2. ~Accepts(p, e, f)
    <3>1. ASSUME Accepts(p, e, f) PROVE FALSE
      <4>1. net[p] # <<>> /\ net[p] = Tail(net[p])
        BY <2>1, <3>1 DEF Accepts, Takes
      <4>. QED
        BY <1>3, <4>1, TailShorter
    <3>. QED
      BY <3>1
  <2>. QED
    BY <1>14, <2>1, <2>2
<1>17. CASE Fails(p, e, f) \/ Leaves(p, e, f)
  <2>1. f.items = e.items /\ (f.observer = "complete" => e.observer = "complete") /\ net'[p] = net[p]
    BY <1>17 DEF Fails, Leaves, SameSink, SameGot, Sends
  <2>2. ~Accepts(p, e, f)
    <3>1. ASSUME Accepts(p, e, f) PROVE FALSE
      <4>1. net[p] # <<>> /\ net[p] = Tail(net[p])
        BY <2>1, <3>1 DEF Accepts, Takes
      <4>. QED
        BY <1>3, <4>1, TailShorter
    <3>. QED
      BY <3>1
  <2>. QED
    BY <1>14, <2>1, <2>2
<1>18. CASE ~Accepts(p, e, f) /\ (TakesDemand(p, e, f) \/ TakesCancel(p, e, f) \/ TakesStop(p, e, f))
  <2>1. f.items = e.items /\ (f.observer = "complete" => e.observer = "complete")
    BY <1>18 DEF TakesDemand, TakesCancel, TakesStop, SameSink, SameGot
  <2>2. net[p] # <<>> /\ net'[p] = Tail(net[p]) /\ Head(net[p]).type # "PAYLOAD"
    BY <1>18 DEF TakesDemand, TakesCancel, TakesStop, Takes
  <2>. QED
    BY <1>14, <1>18, <2>1, <2>2 DEF IsItem
<1>19. CASE ~Accepts(p, e, f) /\ Ignores(p, e, f)
  <2>1. f.items = e.items /\ f.observer = e.observer /\ f.in = e.in
    BY <1>19 DEF Ignores, SameSink, SameGot, SameOpen
  <2>2. net[p] # <<>> /\ net'[p] = Tail(net[p]) /\ Head(net[p]).type # "REQUEST"
    BY <1>19 DEF Ignores, Takes
  <2>3. ~IsItem(Head(net[p])) \/ ~Listens(p)'
    <3>1. CASE ~e.in /\ ~e.out
      BY <1>1, <1>4, <1>15, <1>19, <2>1, <2>2, <3>1 DEF Listens
    <3>2. CASE Head(net[p]).type \in {"REQUEST_N", "CANCEL"}
      BY <3>2 DEF IsItem
    <3>. QED
      BY <1>19, <3>1, <3>2 DEF Ignores
  <2>. QED
    BY <1>14, <1>19, <2>1, <2>2, <2>3
<1>20. CASE ~Accepts(p, e, f) /\ (TakesItem(p, e, f) \/ TakesEnd(p, e, f)) /\ e.observer # "open"
  <2>1. f.items = e.items /\ f.observer = e.observer
    BY <1>20 DEF TakesItem, TakesEnd
  <2>2. net[p] # <<>> /\ net'[p] = Tail(net[p]) /\ Head(net[p]).type = "PAYLOAD"
    BY <1>20 DEF TakesItem, TakesEnd, Takes, IsItem
  <2>3. ~Listens(p)'
    BY <1>1, <1>4, <1>15, <1>20, <2>1, <2>2 DEF Listens
  <2>. QED
    BY <1>14, <1>20, <2>1, <2>2, <2>3
<1>21. CASE ~Accepts(p, e, f) /\ (TakesItem(p, e, f) \/ TakesEnd(p, e, f)) /\ e.observer = "open"
  <2>1. PICK x : x = Head(net[p])
    OBVIOUS
  <2>2. /\ net[p] # <<>> /\ net'[p] = Tail(net[p]) /\ x.type = "PAYLOAD" /\ (e.in \/ e.out)
        /\ TakesItem(p, e, f) => IsItem(x)
    BY <1>21, <2>1 DEF TakesItem, TakesEnd, Takes, IsItem
  <2>3. e.in /\ x = net[p][1] /\ 1 \in 1 .. Len(net[p]) /\ x \in Frames /\ ~(Unborn /\ p = Responder)
    BY <1>10, <1>15, <1>21, <2>1, <2>2 DEF OpenInv
  <2>4. k = Len(e.items) /\ l = Len(f.items)
    BY <1>1, <1>2, <1>4, <1>7, <1>8, <1>21, <2>3 DEF Given
  <2>5. PICK m \in Nat :
          /\ k <= m /\ m <= o.emitted /\ InOrder(net[p], k, m) /\ CompletesLast(net[p], o, m)
          /\ o.out => m + Len(o.buffer) = o.emitted /\ Following(o.buffer, m)
    BY <1>1, <1>11, <1>21, <2>3 DEF Listens
  <2>6. ASSUME IsItem(x)
        PROVE  x.n = k + 1 /\ k + 1 <= m /\ InOrder(net'[p], k + 1, m)
    BY <1>3, <1>9, <2>1, <2>2, <2>5, <2>6, HeadInOrder
  <2>7. ASSUME f.items = Append(e.items, k + 1)
        PROVE  (\A i \in 1 .. Len(f.items) : f.items[i] = i) /\ l = k + 1
    BY <1>6, <1>9, <1>11, <2>4, <2>7, AppendFrames
  <2>8. CASE TakesItem(p, e, f)
    <3>1. f.items = Append(e.items, k + 1) /\ f.observer = "open"
      BY <1>21, <2>1, <2>2, <2>6, <2>8 DEF TakesItem
    <3>2. CompletesLast(net'[p], o, m)
      BY <1>3, <2>2, <2>5, TailLast
    <3>3. l = k + 1 /\ (\A i \in 1 .. Len(f.items) : f.items[i] = i)
      BY <2>7, <3>1
    <3>4. l <= m /\ InOrder(net'[p], l, m)
      BY <2>2, <2>6, <2>8, <3>3
    <3>. QED
      BY <1>6, <1>9, <1>13, <2>5, <3>1, <3>2, <3>3, <3>4, SMTT(30)
  <2>9. CASE TakesEnd(p, e, f)
    <3>1. /\ x.complete /\ f.observer = "complete" /\ ~f.in
          /\ f.items = IF x.n > 0 THEN Append(e.items, x.n) ELSE e.items
      BY <1>21, <2>1, <2>9 DEF TakesEnd
    <3>2. /\ Completed(o) /\ m = o.emitted
          /\ \A j \in 1 .. Len(net[p]) : 1 < j => ~IsItem(net[p][j])
      BY <2>2, <2>3, <2>5, <3>1, Zenon DEF CompletesLast
    <3>3. \A y \in Nat : k < y /\ y <= m => IsItem(x) /\ x.n = y
      <4>1. ASSUME NEW y \in Nat, k < y, y <= m PROVE IsItem(x) /\ x.n = y
        <5>1. PICK i \in 1 .. Len(net[p]) : IsItem(net[p][i]) /\ net[p][i].n = y
          BY <2>5, <4>1 DEF InOrder
        <5>2. i = 1
          BY <3>2, <5>1
        <5>. QED
          BY <2>3, <5>1, <5>2
      <4>. QED
        BY <4>1
    <3>4. (\A i \in 1 .. Len(f.items) : f.items[i] = i) /\ l = m
      <4>1. CASE IsItem(x)
        <5>1. x.n = k + 1 /\ k + 1 <= m
          BY <2>6, <4>1
        <5>2. m = k + 1
          <6>1. ASSUME k + 2 <= m PROVE FALSE
            <7>1. x.n = k + 2
              BY <1>9, <3>3, <6>1
            <7>. QED
              BY <1>9, <5>1, <7>1
          <6>. QED
            BY <1>9, <2>5, <5>1, <6>1
        <5>3. f.items = Append(e.items, k + 1)
          BY <3>1, <4>1, <5>1 DEF IsItem
        <5>. QED
          BY <2>7, <5>2, <5>3
      <4>2. CASE ~IsItem(x)
        <5>1. f.items = e.items
          BY <2>2, <3>1, <4>2 DEF IsItem
        <5>2. k = m
          <6>1. ASSUME k + 1 <= m PROVE FALSE
            BY <1>9, <3>3, <4>2, <6>1
          <6>. QED
            BY <1>9, <2>5, <6>1
        <5>. QED
          BY <1>11, <2>4, <5>1, <5>2
      <4>. QED
        BY <4>1, <4>2
    <3>5. ~Listens(p)'
      BY <1>1, <1>4, <1>21, <2>3, <3>1 DEF Listens
    <3>. QED
      BY <1>6, <1>13, <2>4, <3>1, <3>2, <3>4, <3>5
  <2>. QED
    BY <1>21, <2>8, <2>9
<1>22. CASE Accepts(p, e, f)
  <2>1. p = Responder /\ Unborn /\ Listens(p)
    BY <1>4, <1>22 DEF Listens
  <2>2. e.items = <<>>
    BY <1>1, <2>1 DEF IInv, UnbornInv, Untouched
  <2>3. l = k /\ \A i \in 1 .. Len(f.items) : f.items[i] = i
    <3>1. CASE case.kind = "channel"
      <4>1. f.items = <<1>>
        BY <1>22, <3>1 DEF Accepts
      <4>2. Len(f.items) = 1 /\ f.items[1] = 1
        BY <4>1
      <4>. QED
        BY <1>1, <1>2, <1>4, <1>7, <1>8, <1>22, <2>1, <3>1, <4>2 DEF Given
    <3>2. CASE case.kind # "channel"
      <4>1. f.items = <<>>
        BY <1>22, <3>2 DEF Accepts
      <4>. QED
        BY <1>1, <1>2, <1>7, <1>8, <2>2, <3>2, <4>1 DEF Given
    <3>. QED
      BY <3>1, <3>2
  <2>4. PICK m \in Nat :
          /\ k <= m /\ m <= o.emitted /\ InOrder(net[p], k, m) /\ CompletesLast(net[p], o, m)
          /\ o.out => m + Len(o.buffer) = o.emitted /\ Following(o.buffer, m)
    BY <1>11, <2>1
  <2>5. net[p] # <<>> /\ net'[p] = Tail(net[p])
    BY <1>22 DEF Accepts, Takes
  <2>6. ~IsItem(Head(net[p]))
    BY <1>15, <2>1, <2>5 DEF IsItem
  <2>7. InOrder(net'[p], k, m) /\ CompletesLast(net'[p], o, m)
    BY <1>3, <1>9, <2>4, <2>5, <2>6, TailInOrder, TailLast
  <2>8. f.observer # "complete"
    BY <1>22 DEF Accepts
  <2>. QED
    BY <1>11, <1>13, <2>3, <2>4, <2>7, <2>8
<1>. QED
  BY <1>2, <1>16, <1>17, <1>18, <1>19, <1>20, <1>21, <1>22 DEF EffectOn

\* Items that an end emits, keeps or sends.
LEMMA FlowSent ==
  ASSUME IInv, NEW p \in Peers, Steps(p), NEW q, q = Other(p)
  PROVE  FlowInv(q)'
<1>1. PICK e, f, o : e = ends[p] /\ f = ends'[p] /\ o = ends[q]
  OBVIOUS
<1>2. /\ e \in EndType /\ f \in EndType /\ EffectOn(p, e, f) /\ ends'[q] = o /\ case' = case /\ o \in EndType
      /\ q \in Peers /\ (Accepts(p, e, f) \/ Onward(e, f))
      /\ (p = Requester /\ q = Responder) \/ (p = Responder /\ q = Requester)
      /\ Requester # Responder /\ Peers = {p, q} /\ p # q
  BY <1>1, StepFacts
<1>3. /\ \A i \in 1 .. Len(net'[q]) :
           \/ i \in 1 .. Len(net[q]) /\ net'[q][i] = net[q][i]
           \/ net'[q][i] \in Frames /\ SentBy(p, e, f, net'[q][i])
      /\ net[q] \in Seq(Frames)
  BY <1>1, NetFacts
<1>4. /\ Accepts(p, e, f) => p = Responder /\ Unborn /\ ~Unborn'
      /\ ~Accepts(p, e, f) => (Unborn' <=> Unborn)
  BY <1>1, UnbornStep
<1>5. Other(q) = p
  BY TwoEnds
<1>6. /\ o.items \in Seq(Nat) /\ Len(o.items) \in Nat
      /\ e.emitted \in Nat /\ f.emitted \in Nat /\ e.buffer \in Seq(Nat) /\ f.buffer \in Seq(Nat)
      /\ Len(e.buffer) \in Nat /\ Len(f.buffer) \in Nat /\ e.out \in BOOLEAN /\ f.out \in BOOLEAN
  BY <1>2, Fields, LenProperties
<1>7. PICK k : k = Given(q)
  OBVIOUS
<1>8. k \in Nat
  BY <1>1, <1>6, <1>7 DEF Given
<1>9. Given(q)' = k /\ (Listens(q)' <=> Listens(q))
  <2>1. q = Responder => (Unborn' <=> Unborn)
    BY <1>2, <1>4
  <2>. QED
    BY <1>1, <1>2, <1>7, <2>1 DEF Given, Listens
<1>10. FlowInv(q) /\ SourceInv(e)
  BY <1>1, <1>2 DEF IInv
<1>11. /\ \A i \in 1 .. Len(o.items) : o.items[i] = i
       /\ k <= e.emitted
       /\ Listens(q) => \E m \in Nat :
            /\ k <= m /\ m <= e.emitted /\ InOrder(net[q], k, m) /\ CompletesLast(net[q], e, m)
            /\ e.out => m + Len(e.buffer) = e.emitted /\ Following(e.buffer, m)
       /\ \A i \in 1 .. Len(net[q]) :
            net[q][i].type = "PAYLOAD" /\ (net[q][i].n = 0 \/ case.kind = "response") => net[q][i].complete
       /\ o.observer = "complete" => Len(o.items) = e.emitted /\ Completed(e)
  BY <1>1, <1>5, <1>7, <1>10, Zenon DEF FlowInv
<1>12. \A i \in 1 .. Len(net'[q]) :
         net'[q][i].type = "PAYLOAD" /\ (net'[q][i].n = 0 \/ case.kind = "response") => net'[q][i].complete
  <2>1. ASSUME NEW x, SentBy(p, e, f, x), x.type = "PAYLOAD", x.n = 0 \/ case.kind = "response"
        PROVE  x.complete
    BY <2>1 DEF SentBy
  <2>. QED
    BY <1>3, <1>11, <2>1
\* What has to be shown.
<1>13. ASSUME k <= f.emitted,
              Listens(q) => \E m \in Nat :
                /\ k <= m /\ m <= f.emitted /\ InOrder(net'[q], k, m) /\ CompletesLast(net'[q], f, m)
                /\ f.out => m + Len(f.buffer) = f.emitted /\ Following(f.buffer, m),
              o.observer = "complete" => Len(o.items) = f.emitted /\ Completed(f)
       PROVE  FlowInv(q)'
  <2>1. (\E m \in Nat :
           /\ k <= m /\ m <= f.emitted /\ InOrder(net'[q], k, m) /\ CompletesLast(net'[q], f, m)
           /\ f.out => m + Len(f.buffer) = f.emitted /\ Following(f.buffer, m))
        = (\E m \in Nat :
           /\ Given(q) <= m /\ m <= ends[p].emitted
           /\ InOrder(net[q], Given(q), m) /\ CompletesLast(net[q], ends[p], m)
           /\ ends[p].out => m + Len(ends[p].buffer) = ends[p].emitted /\ Following(ends[p].buffer, m))'
    BY <1>1, <1>9 DEF InOrder, CompletesLast, Following, Completed, IsItem
  <2>2. Completed(ends[p])' = Completed(f)
    BY <1>1 DEF Completed
  <2>. QED
    BY <1>1, <1>2, <1>5, <1>9, <1>11, <1>12, <1>13, <2>1, <2>2, Zenon DEF FlowInv
\* A source that has completed has completed for good.
<1>14. ~Accepts(p, e, f) /\ Completed(e) => Completed(f) /\ f.emitted = e.emitted /\ ~(e.source = "on")
  BY <1>2 DEF Completed, Onward
<1>15. \A s : (\E i \in 1 .. Len(s) : Completing(s[i])) => \A m : CompletesLast(s, e, m) =>
         Completed(e) /\ ~e.out /\ m = e.emitted
  BY Zenon DEF CompletesLast, Completing
\* Nothing but an end is added to what is on its way.
<1>16. ASSUME ~Accepts(p, e, f), f.emitted = e.emitted, f.buffer = e.buffer,
              NEW t, net'[q] = net[q] \o t, t = <<>> \/ \E x \in Frames : t = <<x>> /\ x.type # "PAYLOAD"
       PROVE  FlowInv(q)'
  <2>1. f.out => e.out
    BY <1>2, <1>16 DEF Onward
  <2>2. ASSUME Listens(q)
        PROVE  \E m \in Nat :
                 /\ k <= m /\ m <= f.emitted /\ InOrder(net'[q], k, m) /\ CompletesLast(net'[q], f, m)
                 /\ f.out => m + Len(f.buffer) = f.emitted /\ Following(f.buffer, m)
    <3>1. PICK m \in Nat :
            /\ k <= m /\ m <= e.emitted /\ InOrder(net[q], k, m) /\ CompletesLast(net[q], e, m)
            /\ e.out => m + Len(e.buffer) = e.emitted /\ Following(e.buffer, m)
      BY <1>11, <2>2
    <3>2. (\E i \in 1 .. Len(net[q]) : Completing(net[q][i])) => Completed(f) /\ ~f.out /\ m = f.emitted
      BY <1>14, <1>15, <1>16, <2>1, <3>1
    <3>3. InOrder(net'[q], k, m) /\ CompletesLast(net'[q], f, m)
      <4>1. CASE t = <<>>
        <5>1. net'[q] = net[q]
          BY <1>3, <1>16, <4>1, ConcatEmptySeq
        <5>. QED
          BY <3>1, <3>2, <5>1, KeptLast
      <4>2. ASSUME NEW x \in Frames, t = <<x>>, x.type # "PAYLOAD"
            PROVE  InOrder(net'[q], k, m) /\ CompletesLast(net'[q], f, m)
        <5>1. ~IsItem(x) /\ ~Completing(x)
          BY <4>2 DEF IsItem, Completing
        <5>2. InOrder(net[q] \o <<x>>, k, m)
          BY <1>3, <3>1, <5>1, SignalInOrder
        <5>3. CompletesLast(net[q] \o <<x>>, f, m)
          BY <1>3, <3>1, <3>2, <5>1, SentLast
        <5>. QED
          BY <1>16, <4>2, <5>2, <5>3
      <4>. QED
        BY <1>16, <4>1, <4>2
    <3>. QED
      BY <1>16, <2>1, <3>1, <3>3
  <2>3. o.observer = "complete" => Len(o.items) = f.emitted /\ Completed(f)
    BY <1>11, <1>14, <1>16
  <2>. QED
    BY <1>11, <1>13, <1>16, <2>2, <2>3
<1>17. ASSUME NEW s, Moves(p, s) PROVE net'[q] = net[q] \o s
  BY <1>17 DEF Moves, Sends, Takes
<1>17a. net[q] \o <<>> = net[q]
  BY <1>3, ConcatEmptySeq
<1>18. CASE /\ ~Accepts(p, e, f)
            /\ \/ Turns(p, e, f) \/ Finishes(p, e, f) \/ Ignores(p, e, f) \/ TakesItem(p, e, f)
               \/ TakesDemand(p, e, f) \/ TakesStop(p, e, f)
  <2>1. f.emitted = e.emitted /\ f.buffer = e.buffer
    BY <1>18 DEF Turns, Finishes, Ignores, TakesItem, TakesDemand, TakesStop, SameSource, SourceLeft, SourceDone
  <2>2. Moves(p, <<>>)
    BY <1>18 DEF Moves, Turns, Finishes, Ignores, TakesItem, TakesDemand, TakesStop
  <2>. QED
    BY <1>16, <1>17, <1>18, <2>1, <2>2
<1>19. \A y \in {"REQUEST_N", "CANCEL", "ERROR"} : \A n \in Nat :
         Frame(y, n, FALSE) \in Frames /\ Frame(y, n, FALSE).type # "PAYLOAD"
  BY DEF Frame, Frames, FrameTypes
<1>20. CASE /\ ~Accepts(p, e, f)
            /\ RunsTask(p, e, f) \/ Leaves(p, e, f) \/ TakesEnd(p, e, f) \/ TakesCancel(p, e, f) \/ Fails(p, e, f)
  <2>1. f.emitted = e.emitted /\ f.buffer = e.buffer
    BY <1>20 DEF RunsTask, Leaves, TakesEnd, TakesCancel, Fails, SameSource, SourceLeft, SourceDone
  <2>2. e.tasks # <<>> => Head(e.tasks) \in Nat
    BY <1>2, Fields, HeadTailProperties
  <2>3. PICK s : Moves(p, s) /\ (s = <<>> \/ \E x \in Frames : s = <<x>> /\ x.type # "PAYLOAD")
    <3>1. Frame("CANCEL", 0, FALSE) \in Frames /\ Frame("CANCEL", 0, FALSE).type # "PAYLOAD"
      BY <1>19
    <3>2. Frame("ERROR", 0, FALSE) \in Frames /\ Frame("ERROR", 0, FALSE).type # "PAYLOAD"
      BY <1>19
    <3>3. CASE RunsTask(p, e, f)
      <4>1. Frame("REQUEST_N", Head(e.tasks), FALSE) \in Frames
            /\ Frame("REQUEST_N", Head(e.tasks), FALSE).type # "PAYLOAD"
        BY <1>19, <2>2, <3>3 DEF RunsTask
      <4>2. Moves(p, IF e.in THEN <<Frame("REQUEST_N", Head(e.tasks), FALSE)>> ELSE <<>>)
        BY <3>3 DEF RunsTask, Moves
      <4>. QED
        BY <4>1, <4>2, Zenon
    <3>4. CASE Leaves(p, e, f)
      <4>1. Moves(p, CancelFrames(e))
        BY <3>4 DEF Leaves, Moves
      <4>. QED
        BY <3>1, <3>2, <4>1, Zenon DEF CancelFrames
    <3>5. CASE TakesEnd(p, e, f)
      <4>1. Moves(p, IF e.observer = "open" /\ e.out /\ p = Requester THEN <<Frame("ERROR", 0, FALSE)>> ELSE <<>>)
        BY <3>5 DEF TakesEnd, Moves
      <4>. QED
        BY <3>2, <4>1, Zenon
    <3>6. CASE TakesCancel(p, e, f)
      <4>1. Moves(p, <<>>) \/ Moves(p, IF e.in THEN <<Frame("CANCEL", 0, FALSE)>> ELSE <<>>)
        BY <3>6 DEF TakesCancel, Moves
      <4>. QED
        BY <3>1, <4>1, Zenon
    <3>7. CASE Fails(p, e, f)
      <4>1. Moves(p, IF e.out THEN <<Frame("ERROR", 0, FALSE)>> ELSE <<>>)
        BY <3>7 DEF Fails, Moves
      <4>. QED
        BY <3>2, <4>1, Zenon
    <3>. QED
      BY <1>20, <3>3, <3>4, <3>5, <3>6, <3>7
  <2>. QED
    BY <1>16, <1>17, <1>20, <2>1, <2>3
\* The item at the head of the buffer.
<1>21. CASE ~Accepts(p, e, f) /\ SendsItem(p, e, f)
  <2>1. PICK n \in Nat, b \in BOOLEAN : n = Head(e.buffer) /\ b = (Len(e.buffer) = 1 /\ e.ended # "no")
    BY <1>6, <1>21, HeadTailProperties DEF SendsItem
  <2>2. PICK x : x = Frame("PAYLOAD", n, b)
    OBVIOUS
  <2>3. x \in Frames /\ x.type = "PAYLOAD" /\ x.n = n /\ x.complete = b
    BY <2>2 DEF Frame, Frames, FrameTypes
  <2>4. /\ Moves(p, IF e.out THEN <<x>> ELSE <<>>) /\ e.buffer # <<>>
        /\ f.source = e.source /\ f.emitted = e.emitted /\ f.ended = e.ended /\ f.waited = e.waited
        /\ f.buffer = Tail(e.buffer) /\ (f.out <=> e.out /\ ~b)
    BY <1>21, <2>1, <2>2 DEF SendsItem, Moves
  <2>5. /\ Len(f.buffer) = Len(e.buffer) - 1 /\ Len(e.buffer) > 0 /\ n = e.buffer[1] /\ 1 \in 1 .. Len(e.buffer)
        /\ \A i \in 1 .. Len(f.buffer) : f.buffer[i] = e.buffer[i + 1] /\ i + 1 \in 1 .. Len(e.buffer)
    BY <1>6, <2>1, <2>4, TailFrames
  <2>6. n > 0
    BY <1>10, <2>5 DEF SourceInv
  <2>7. ASSUME Listens(q)
        PROVE  \E m \in Nat :
                 /\ k <= m /\ m <= f.emitted /\ InOrder(net'[q], k, m) /\ CompletesLast(net'[q], f, m)
                 /\ f.out => m + Len(f.buffer) = f.emitted /\ Following(f.buffer, m)
    <3>1. PICK m \in Nat :
            /\ k <= m /\ m <= e.emitted /\ InOrder(net[q], k, m) /\ CompletesLast(net[q], e, m)
            /\ e.out => m + Len(e.buffer) = e.emitted /\ Following(e.buffer, m)
      BY <1>11, <2>7
    <3>2. CASE ~e.out
      <4>1. net'[q] = net[q] /\ ~f.out
        BY <1>17, <1>17a, <2>4, <3>2
      <4>2. (\E i \in 1 .. Len(net[q]) : Completing(net[q][i])) => Completed(f) /\ ~f.out /\ m = f.emitted
        BY <1>14, <1>15, <1>21, <3>1, <4>1
      <4>. QED
        BY <2>4, <3>1, <4>1, <4>2, KeptLast
    <3>3. CASE e.out
      <4>1. net'[q] = net[q] \o <<x>>
        BY <1>17, <2>4, <3>3
      <4>2. n = m + 1 /\ m + Len(e.buffer) = e.emitted /\ Following(e.buffer, m)
        BY <2>5, <3>1, <3>3 DEF Following
      <4>3. InOrder(net[q] \o <<x>>, k, m + 1)
        <5>1. IsItem(x) /\ x.n = m + 1
          BY <2>3, <2>6, <4>2 DEF IsItem
        <5>. QED
          BY <1>3, <1>8, <2>3, <3>1, <5>1, ItemInOrder
      <4>4. ~\E i \in 1 .. Len(net[q]) : Completing(net[q][i])
        BY <1>15, <3>1, <3>3
      <4>5. Completing(x) => Completed(f) /\ ~f.out /\ m + 1 = f.emitted
        <5>1. ASSUME Completing(x) PROVE Completed(f) /\ ~f.out /\ m + 1 = f.emitted
          <6>1. b /\ Len(e.buffer) = 1 /\ e.ended # "no"
            BY <2>1, <2>3, <5>1 DEF Completing
          <6>2. e.source # "on" /\ e.waited
            BY <1>10, <2>4, <6>1 DEF SourceInv
          <6>3. e.ended \in {"complete", "error"}
            BY <1>2, <6>1, Fields DEF Outcomes
          <6>. QED
            BY <2>4, <4>2, <6>1, <6>2, <6>3 DEF Completed
        <5>. QED
          BY <5>1
      <4>6. CompletesLast(net[q] \o <<x>>, f, m + 1)
        BY <1>3, <2>3, <3>1, <4>4, <4>5, SentLast
      <4>7. k <= m + 1 /\ m + 1 <= f.emitted /\ m + 1 \in Nat
        BY <1>6, <1>8, <2>4, <2>5, <3>1, <4>2
      <4>8. m + 1 + Len(f.buffer) = f.emitted /\ Following(f.buffer, m + 1)
        <5>1. ASSUME NEW i \in 1 .. Len(f.buffer) PROVE f.buffer[i] = m + 1 + i
          <6>1. PICK a \in 1 .. Len(e.buffer) : a = i + 1 /\ f.buffer[i] = e.buffer[a]
            BY <2>5
          <6>2. e.buffer[a] = m + a
            BY <4>2 DEF Following
          <6>3. i \in Nat /\ a \in Nat
            BY <1>6
          <6>. QED
            BY <6>1, <6>2, <6>3
        <5>2. Following(f.buffer, m + 1)
          BY <5>1 DEF Following
        <5>3. m + 1 + Len(f.buffer) = f.emitted
          <6>1. m + Len(e.buffer) = e.emitted /\ Len(f.buffer) = Len(e.buffer) - 1 /\ f.emitted = e.emitted
            BY <2>4, <2>5, <4>2
          <6>2. PICK a, c, d \in Nat : a = Len(e.buffer) /\ c = Len(f.buffer) /\ d = f.emitted
            BY <1>6
          <6>3. m + a = d /\ c = a - 1
            BY <6>1, <6>2
          <6>4. m + 1 + c = d
            BY <6>3
          <6>. QED
            BY <6>2, <6>4
        <5>. QED
          BY <5>2, <5>3
      <4>. QED
        BY <4>1, <4>3, <4>6, <4>7, <4>8
    <3>. QED
      BY <3>2, <3>3
  <2>8. o.observer = "complete" => Len(o.items) = f.emitted /\ Completed(f)
    BY <1>11, <1>14, <1>21, <2>4
  <2>. QED
    BY <1>11, <1>13, <2>4, <2>7, <2>8
<1>22. CASE ~Accepts(p, e, f) /\ Completes(p, e, f)
  <2>1. PICK x : x = Frame("PAYLOAD", 0, TRUE)
    OBVIOUS
  <2>2. x \in Frames /\ x.type = "PAYLOAD" /\ x.n = 0
    BY <2>1 DEF Frame, Frames, FrameTypes
  <2>3. /\ Moves(p, IF e.out THEN <<x>> ELSE <<>>) /\ e.buffer = <<>>
        /\ f.emitted = e.emitted /\ f.buffer = e.buffer /\ f.ended = "complete" /\ ~f.out /\ f.source # "on"
    BY <1>10, <1>22, <2>1 DEF Completes, Moves, SameSource, SourceDone, SourceInv
  <2>4. ASSUME Listens(q)
        PROVE  \E m \in Nat :
                 /\ k <= m /\ m <= f.emitted /\ InOrder(net'[q], k, m) /\ CompletesLast(net'[q], f, m)
                 /\ f.out => m + Len(f.buffer) = f.emitted /\ Following(f.buffer, m)
    <3>1. PICK m \in Nat :
            /\ k <= m /\ m <= e.emitted /\ InOrder(net[q], k, m) /\ CompletesLast(net[q], e, m)
            /\ e.out => m + Len(e.buffer) = e.emitted /\ Following(e.buffer, m)
      BY <1>11, <2>4
    <3>2. CASE ~e.out
      <4>1. net'[q] = net[q]
        BY <1>17, <1>17a, <2>3, <3>2
      <4>2. (\E i \in 1 .. Len(net[q]) : Completing(net[q][i])) => Completed(f) /\ ~f.out /\ m = f.emitted
        BY <1>14, <1>15, <1>22, <2>3, <3>1
      <4>. QED
        BY <2>3, <3>1, <4>1, <4>2, KeptLast
    <3>3. CASE e.out
      <4>1. net'[q] = net[q] \o <<x>>
        BY <1>17, <2>3, <3>3
      <4>2. m = f.emitted
        <5>1. Len(e.buffer) = 0
          BY <2>3
        <5>. QED
          BY <2>3, <3>1, <3>3, <5>1
      <4>3. ~IsItem(x)
        BY <2>2 DEF IsItem
      <4>4. InOrder(net[q] \o <<x>>, k, m)
        BY <1>3, <2>2, <3>1, <4>3, SignalInOrder
      <4>5. Completed(f)
        BY <2>3 DEF Completed
      <4>6. CompletesLast(net[q] \o <<x>>, f, m)
        BY <1>3, <2>2, <2>3, <3>1, <4>2, <4>3, <4>5, SentLast
      <4>. QED
        BY <2>3, <3>1, <4>1, <4>4, <4>6
    <3>. QED
      BY <3>2, <3>3
  <2>5. o.observer = "complete" => Len(o.items) = f.emitted /\ Completed(f)
    BY <1>11, <1>14, <1>22
  <2>. QED
    BY <1>11, <1>13, <2>3, <2>4, <2>5
\* The source emits.
<1>23. ASSUME ~Accepts(p, e, f), e.source = "on"
       PROVE  ~Completed(e) /\ o.observer # "complete"
  BY <1>11, <1>23 DEF Completed
<1>24. CASE ~Accepts(p, e, f) /\ Emits(p, e, f)
  <2>1. /\ Moves(p, <<>>) /\ e.source = "on" /\ f.emitted = e.emitted + 1 /\ (f.out => e.out)
        /\ f.buffer = Append(e.buffer, e.emitted + 1)
    BY <1>24 DEF Emits, Moves, SameOpen
  <2>2. net'[q] = net[q]
    BY <1>17, <1>17a, <2>1
  <2>3. ASSUME Listens(q)
        PROVE  \E m \in Nat :
                 /\ k <= m /\ m <= f.emitted /\ InOrder(net'[q], k, m) /\ CompletesLast(net'[q], f, m)
                 /\ f.out => m + Len(f.buffer) = f.emitted /\ Following(f.buffer, m)
    <3>1. PICK m \in Nat :
            /\ k <= m /\ m <= e.emitted /\ InOrder(net[q], k, m) /\ CompletesLast(net[q], e, m)
            /\ e.out => m + Len(e.buffer) = e.emitted /\ Following(e.buffer, m)
      BY <1>11, <2>3
    <3>2. ~\E i \in 1 .. Len(net[q]) : Completing(net[q][i])
      BY <1>15, <1>23, <1>24, <2>1, <3>1
    <3>3. CompletesLast(net[q], f, m)
      BY <3>1, <3>2, KeptLast
    <3>4. PICK n \in Nat : n = e.emitted + 1
      BY <1>6
    <3>5. /\ Len(f.buffer) = Len(e.buffer) + 1 /\ f.buffer[Len(e.buffer) + 1] = n
          /\ \A i \in 1 .. Len(e.buffer) : f.buffer[i] = e.buffer[i]
      BY <1>6, <2>1, <3>4, AppendFrames
    <3>6. ASSUME f.out PROVE m + Len(f.buffer) = f.emitted /\ Following(f.buffer, m)
      <4>1. m + Len(e.buffer) = e.emitted /\ Following(e.buffer, m)
        BY <2>1, <3>1, <3>6
      <4>2. ASSUME NEW i \in 1 .. Len(f.buffer) PROVE f.buffer[i] = m + i
        <5>1. CASE i \in 1 .. Len(e.buffer)
          BY <3>5, <4>1, <5>1 DEF Following
        <5>2. CASE i = Len(e.buffer) + 1
          BY <1>6, <3>4, <3>5, <4>1, <5>2
        <5>. QED
          BY <1>6, <3>5, <4>2, <5>1, <5>2, SMTT(30)
      <4>3. Following(f.buffer, m)
        BY <4>2 DEF Following
      <4>. QED
        BY <1>6, <2>1, <3>5, <4>1, <4>3
    <3>7. m <= f.emitted
      BY <1>6, <2>1, <3>1
    <3>. QED
      BY <2>2, <3>1, <3>3, <3>6, <3>7
  <2>4. k <= f.emitted
    BY <1>6, <1>8, <1>11, <2>1
  <2>. QED
    BY <1>13, <1>23, <1>24, <2>1, <2>3, <2>4
<1>25. CASE ~Accepts(p, e, f) /\ Responds(p, e, f)
  <2>1. PICK n \in Nat : n = e.emitted + 1
    BY <1>6
  <2>2. PICK x : x = Frame("PAYLOAD", n, TRUE)
    OBVIOUS
  <2>3. x \in Frames /\ x.type = "PAYLOAD" /\ x.n = n
    BY <2>2 DEF Frame, Frames, FrameTypes
  <2>4. /\ Moves(p, IF e.out THEN <<x>> ELSE <<>>) /\ e.buffer = <<>> /\ e.source = "on"
        /\ f.emitted = n /\ f.ended = "complete" /\ ~f.out /\ f.source = "torn"
    BY <1>10, <1>25, <2>1, <2>2 DEF Responds, Moves, SourceInv
  <2>5. ASSUME Listens(q)
        PROVE  \E m \in Nat :
                 /\ k <= m /\ m <= f.emitted /\ InOrder(net'[q], k, m) /\ CompletesLast(net'[q], f, m)
                 /\ f.out => m + Len(f.buffer) = f.emitted /\ Following(f.buffer, m)
    <3>1. PICK m \in Nat :
            /\ k <= m /\ m <= e.emitted /\ InOrder(net[q], k, m) /\ CompletesLast(net[q], e, m)
            /\ e.out => m + Len(e.buffer) = e.emitted /\ Following(e.buffer, m)
      BY <1>11, <2>5
    <3>2. ~\E i \in 1 .. Len(net[q]) : Completing(net[q][i])
      BY <1>15, <1>23, <1>25, <2>4, <3>1
    <3>3. CASE ~e.out
      <4>1. net'[q] = net[q]
        BY <1>17, <1>17a, <2>4, <3>3
      <4>2. CompletesLast(net[q], f, m)
        BY <3>1, <3>2, KeptLast
      <4>3. m <= f.emitted
        BY <1>6, <2>1, <2>4, <3>1
      <4>. QED
        BY <2>4, <3>1, <4>1, <4>2, <4>3
    <3>4. CASE e.out
      <4>1. net'[q] = net[q] \o <<x>>
        BY <1>17, <2>4, <3>4
      <4>2. n = m + 1
        <5>1. Len(e.buffer) = 0
          BY <2>4
        <5>. QED
          BY <1>6, <2>1, <3>1, <3>4, <5>1
      <4>3. IsItem(x) /\ x.n = m + 1
        BY <2>3, <4>2 DEF IsItem
      <4>4. InOrder(net[q] \o <<x>>, k, m + 1)
        BY <1>3, <1>8, <2>3, <3>1, <4>3, ItemInOrder
      <4>5. Completed(f) /\ m + 1 = f.emitted
        BY <2>4, <4>2 DEF Completed
      <4>6. CompletesLast(net[q] \o <<x>>, f, m + 1)
        BY <1>3, <2>3, <2>4, <3>1, <3>2, <4>5, SentLast
      <4>7. k <= m + 1 /\ m + 1 <= f.emitted /\ m + 1 \in Nat
        BY <1>8, <3>1, <4>5
      <4>. QED
        BY <2>4, <4>1, <4>4, <4>6, <4>7
    <3>. QED
      BY <3>3, <3>4
  <2>6. k <= f.emitted
    BY <1>6, <1>8, <1>11, <2>1, <2>4
  <2>. QED
    BY <1>13, <1>23, <1>25, <2>4, <2>5, <2>6
\* The responder starts with nothing.
<1>26. CASE Accepts(p, e, f)
  <2>1. p = Responder /\ q = Requester /\ Unborn
    BY <1>2, <1>4, <1>26
  <2>2. e.emitted = 0 /\ e.ended = "no" /\ net[q] = <<>> /\ o.items = <<>>
    BY <1>1, <2>1 DEF IInv, UnbornInv, Untouched
  <2>3. f.emitted = 0 /\ f.buffer = <<>> /\ Moves(p, <<>>)
    BY <1>26 DEF Accepts, Moves
  <2>4. net'[q] = <<>>
    BY <1>17, <1>17a, <2>2, <2>3
  <2>5. k = 0 /\ Len(f.buffer) = 0
    BY <1>1, <1>2, <1>7, <2>1, <2>2, <2>3 DEF Given
  <2>6. InOrder(net'[q], k, 0) /\ CompletesLast(net'[q], f, 0) /\ Following(f.buffer, 0)
    BY <2>4, <2>5 DEF InOrder, CompletesLast, Following
  <2>7. o.observer # "complete"
    BY <1>11, <2>2 DEF Completed
  <2>. QED
    BY <1>13, <2>3, <2>5, <2>6, <2>7
<1>. QED
  BY <1>2, <1>18, <1>20, <1>21, <1>22, <1>24, <1>25, <1>26 DEF EffectOn

-----------------------------------------------------------------------------
(* The demand. *)

\* What the frames weigh.
LEMMA FrameWeights ==
  /\ ItemWeight \in [Frames -> Nat] /\ DemandWeight \in [Frames -> Nat]
  /\ \A x \in Frames : /\ ItemWeight[x] = IF IsItem(x) THEN 1 ELSE 0
                       /\ x.type # "PAYLOAD" => ItemWeight[x] = 0
                       /\ x.type # "REQUEST_N" => DemandWeight[x] = 0
                       /\ x.type = "REQUEST_N" => DemandWeight[x] = x.n /\ ItemWeight[x] = 0
<1>1. \A x \in Frames : x.n \in Nat
  BY DEF Frames
<1>2. ItemWeight \in [Frames -> Nat]
  BY DEF ItemWeight
<1>3. DemandWeight \in [Frames -> Nat]
  BY <1>1 DEF DemandWeight, Asks
<1>. QED
  BY <1>2, <1>3 DEF ItemWeight, DemandWeight, IsItem, Asks

\* What is on its way to the other end after a step that may send a frame.
LEMMA WeightSent ==
  ASSUME Typed, NEW p \in Peers, NEW q, q = Other(p), NEW w \in [Frames -> Nat],
         NEW x \in Frames, NEW c \in BOOLEAN, Moves(p, IF c THEN <<x>> ELSE <<>>)
  PROVE  Weigh(w, net'[q]) = Weigh(w, net[q]) + IF c THEN w[x] ELSE 0
<1>1. net[q] \in Seq(Frames) /\ net'[q] = net[q] \o (IF c THEN <<x>> ELSE <<>>)
  BY TwoEnds DEF Typed, Moves, Sends, Takes
<1>2. Weigh(w, net[q]) \in Nat /\ w[x] \in Nat /\ Weigh(w, <<x>>) = w[x]
  BY <1>1, WeighType, WeighSingle
<1>3. CASE c
  <2>1. PICK t \in Seq(Frames) : t = <<x>>
    BY OneFrame
  <2>2. Weigh(w, net[q] \o t) = Weigh(w, net[q]) + Weigh(w, t)
    BY <1>1, WeighConcat
  <2>. QED
    BY <1>1, <1>2, <1>3, <2>1, <2>2
<1>4. CASE ~c
  <2>1. net'[q] = net[q]
    BY <1>1, <1>4, ConcatEmptySeq
  <2>. QED
    BY <1>2, <1>4, <2>1
<1>. QED
  BY <1>3, <1>4

\* A step that sends nothing leaves that as it was.
LEMMA WeightUnsent ==
  ASSUME Typed, NEW p \in Peers, NEW q, q = Other(p), NEW w, Moves(p, <<>>)
  PROVE  Weigh(w, net'[q]) = Weigh(w, net[q])
<1>1. net[q] \in Seq(Frames) /\ net'[q] = net[q] \o <<>>
  BY TwoEnds DEF Typed, Moves, Sends, Takes
<1>. QED
  BY <1>1, ConcatEmptySeq

\* What is on its way to the end that makes the step.
LEMMA WeightTaken ==
  ASSUME Typed, NEW p \in Peers, NEW w \in [Frames -> Nat], NEW t, Takes(p, t)
  PROVE  Weigh(w, net[p]) = w[Head(net[p])] + Weigh(w, net'[p])
<1>1. net[p] \in Seq(Frames) /\ net[p] # <<>> /\ net'[p] = Tail(net[p])
  BY DEF Typed, Takes
<1>. QED
  BY <1>1, WeighTail

\* One number is a sequence.
LEMMA OneNumber ==
  ASSUME NEW n \in Nat
  PROVE  \E t \in Seq(Nat) : t = <<n>>
<1>1. PICK t : t = <<n>>
  OBVIOUS
<1>2. t \in Seq(Nat)
  BY <1>1
<1>. QED
  BY <1>1, <1>2

\* The tasks after the first, and after one more.
LEMMA TotalTail ==
  ASSUME NEW s \in Seq(Nat), s # <<>>
  PROVE  Total(s) = Head(s) + Total(Tail(s))
<1>1. PICK h \in Nat, t \in Seq(Nat) : h = Head(s) /\ t = Tail(s)
  BY HeadTailProperties
<1>2. PICK l \in Seq(Nat) : l = <<h>>
  BY OneNumber
<1>3. s = l \o t
  BY <1>1, <1>2, HeadAndTail
<1>4. Total(l \o t) = Total(l) + Total(t)
  BY TotalConcat
<1>5. Total(l) = h
  BY <1>2, TotalSingle
<1>. QED
  BY <1>1, <1>3, <1>4, <1>5

\* One more task.
LEMMA TotalAppend ==
  ASSUME NEW s \in Seq(Nat), NEW n \in Nat
  PROVE  Total(Append(s, n)) = Total(s) + n
<1>1. PICK l \in Seq(Nat) : l = <<n>>
  BY OneNumber
<1>2. Append(s, n) = s \o l
  BY <1>1, AppendIsConcat
<1>3. Total(s \o l) = Total(s) + Total(l)
  BY TotalConcat
<1>4. Total(l) = n
  BY <1>1, TotalSingle
<1>. QED
  BY <1>2, <1>3, <1>4

\* The remainder of the next number.
LEMMA NextRemainder ==
  ASSUME NEW r \in Nat, NEW l \in Nat, l >= 1
  PROVE  /\ r % l \in Nat /\ r % l < l
         /\ (r + 1) % l = IF r % l = l - 1 THEN 0 ELSE (r % l) + 1
<1>1. PICK a \in Nat, b \in Nat : a = r \div l /\ b = r % l /\ r = l * a + b /\ b < l
  OBVIOUS
<1>2. PICK c \in Nat, d \in Nat : c = (r + 1) \div l /\ d = (r + 1) % l /\ r + 1 = l * c + d /\ d < l
  OBVIOUS
<1>3. CASE c = a
  BY <1>1, <1>2, <1>3
<1>4. CASE c = a + 1
  <2>1. l * c = l * a + l
    BY <1>4
  <2>. QED
    BY <1>1, <1>2, <2>1
<1>5. CASE c >= a + 2
  <2>1. PICK k \in Nat : c = a + 2 + k
    BY <1>5
  <2>2. l * c = l * a + 2 * l + l * k /\ l * k >= 0
    BY <2>1
  <2>. QED
    BY <1>1, <1>2, <2>2
<1>6. CASE c < a
  <2>1. PICK k \in Nat : a = c + 1 + k
    BY <1>6
  <2>2. l * a = l * c + l + l * k /\ l * k >= 0
    BY <2>1
  <2>. QED
    BY <1>1, <1>2, <2>2
<1>. QED
  BY <1>3, <1>4, <1>5, <1>6

\* What a step does to the demand at the source of the end that makes it, to
\* the items it has sent and to the demand on its way to it.
LEMMA DemandSent ==
  ASSUME IInv, NEW p \in Peers, Steps(p), NEW q, q = Other(p), NEW e, e = ends[p], NEW f, f = ends'[p],
         ~Accepts(p, e, f), f.out, case.kind # "response"
  PROVE  Owed(f) + Weigh(ItemWeight, net'[q]) + Weigh(DemandWeight, net'[p])
           = Owed(e) + Weigh(ItemWeight, net[q]) + Weigh(DemandWeight, net[p])
<1>1. e \in EndType /\ f \in EndType /\ EffectOn(p, e, f) /\ q \in Peers /\ e.out
  BY StepFacts DEF Onward
<1>2. /\ Typed /\ net[p] \in Seq(Frames) /\ net[q] \in Seq(Frames)
      /\ net'[p] \in Seq(Frames) /\ net'[q] \in Seq(Frames)
  BY <1>1 DEF IInv, Typed, Steps
<1>3. PICK a, b \in Int : a = Owed(e) /\ b = Owed(f)
  <2>1. e.requested \in Nat /\ e.drain.delivered \in Nat /\ f.requested \in Nat /\ f.drain.delivered \in Nat
    BY <1>1, Fields
  <2>2. PICK k, l, m, n \in Nat : k = e.requested /\ l = e.drain.delivered /\ m = f.requested /\ n = f.drain.delivered
    BY <2>1
  <2>3. Owed(e) = k - l /\ Owed(f) = m - n
    BY <2>2 DEF Owed
  <2>4. k - l \in Int /\ m - n \in Int
    OBVIOUS
  <2>. QED
    BY <2>3, <2>4
<1>4. PICK i, j, d, g \in Nat : /\ i = Weigh(ItemWeight, net[q]) /\ j = Weigh(ItemWeight, net'[q])
                                /\ d = Weigh(DemandWeight, net[p]) /\ g = Weigh(DemandWeight, net'[p])
  BY <1>2, FrameWeights, WeighType
<1>5. ASSUME NEW t, Sends(p, t) PROVE g = d
  BY <1>4, <1>5 DEF Sends
<1>6. ASSUME Moves(p, <<>>) PROVE j = i
  BY <1>2, <1>4, <1>6, WeightUnsent
<1>7. ASSUME NEW t, Takes(p, t) PROVE d = DemandWeight[Head(net[p])] + g
  BY <1>2, <1>4, <1>7, FrameWeights, WeightTaken
<1>8. ASSUME NEW x \in Frames, NEW c \in BOOLEAN, Moves(p, IF c THEN <<x>> ELSE <<>>)
      PROVE  j = i + IF c THEN ItemWeight[x] ELSE 0
  <2>1. PICK w \in [Frames -> Nat] : w = ItemWeight
    BY FrameWeights
  <2>2. Typed /\ p \in Peers /\ q = Other(p) /\ Moves(p, IF c THEN <<x>> ELSE <<>>)
    BY <1>2, <1>8
  <2>3. Weigh(w, net'[q]) = Weigh(w, net[q]) + IF c THEN w[x] ELSE 0
    BY ONLY <2>2, WeightSent, w \in [Frames -> Nat], x \in Frames, c \in BOOLEAN
  <2>. QED
    BY <1>4, <2>1, <2>3
<1>9. net[p] # <<>> => Head(net[p]) \in Frames
  BY <1>2, HeadTailProperties
<1>10. SUFFICES b + j + g = a + i + d
  BY <1>3, <1>4
<1>11. PICK y, z \in Frames : y = Frame("CANCEL", 0, FALSE) /\ z = Frame("ERROR", 0, FALSE)
  BY FrameFacts
<1>12. ItemWeight[y] = 0 /\ ItemWeight[z] = 0
  <2>1. y.type = "CANCEL" /\ z.type = "ERROR"
    BY <1>11 DEF Frame
  <2>. QED
    BY <2>1, FrameWeights
<1>13. CASE Turns(p, e, f) \/ Emits(p, e, f) \/ Finishes(p, e, f)
  <2>1. Sends(p, <<>>)
    BY <1>13 DEF Turns, Emits, Finishes
  <2>2. b = a
    BY <1>1, <1>3, <1>13 DEF Turns, Emits, Finishes, SameDemand, Owed
  <2>. QED
    BY <1>5, <1>6, <2>1, <2>2 DEF Moves
<1>14. CASE SendsItem(p, e, f)
  <2>1. PICK n \in Nat, c \in BOOLEAN : n = Head(e.buffer) /\ c = (Len(e.buffer) = 1 /\ e.ended # "no")
    BY <1>1, <1>14, Fields, HeadTailProperties DEF SendsItem
  <2>2. PICK x \in Frames : x = Frame("PAYLOAD", n, c)
    BY FrameFacts
  <2>3. x.type = "PAYLOAD" /\ x.n = n
    BY <2>2 DEF Frame
  <2>4. n > 0
    <3>1. e.buffer \in Seq(Nat) /\ e.buffer # <<>> /\ SourceInv(e)
      BY <1>1, <1>14, Fields, HereFacts DEF SendsItem
    <3>2. Head(e.buffer) = e.buffer[1] /\ 1 \in 1 .. Len(e.buffer)
      BY <3>1, TailFrames
    <3>. QED
      BY <2>1, <3>1, <3>2 DEF SourceInv
  <2>5. ItemWeight[x] = 1
    BY <2>3, <2>4, FrameWeights DEF IsItem
  <2>6. Sends(p, IF e.out THEN <<x>> ELSE <<>>)
    BY <1>14, <2>1, <2>2 DEF SendsItem
  <2>6a. b = a - 1
    BY <1>3, <1>14 DEF SendsItem
  <2>7. g = d
    BY <1>5, <2>6
  <2>8. j = i + 1
    <3>1. Moves(p, IF e.out THEN <<x>> ELSE <<>>) /\ e.out \in BOOLEAN
      BY <1>1, <2>6, Fields DEF Moves
    <3>2. j = i + IF e.out THEN ItemWeight[x] ELSE 0
      BY <1>8, <3>1
    <3>. QED
      BY <1>1, <2>5, <3>2
  <2>. QED
    BY <2>6a, <2>7, <2>8
<1>15. ~Completes(p, e, f) /\ ~Fails(p, e, f) /\ ~Responds(p, e, f) /\ ~TakesCancel(p, e, f) /\ ~TakesStop(p, e, f)
  BY <1>1 DEF Completes, Fails, Responds, TakesCancel, TakesStop
<1>16. CASE RunsTask(p, e, f)
  <2>1. PICK n \in Nat : n = Head(e.tasks)
    BY <1>1, <1>16, Fields, HeadTailProperties DEF RunsTask
  <2>2. PICK x \in Frames : x = Frame("REQUEST_N", n, FALSE)
    BY FrameFacts
  <2>3. x.type = "REQUEST_N"
    BY <2>2 DEF Frame
  <2>4. ItemWeight[x] = 0
    BY <2>3, FrameWeights
  <2>5. Sends(p, IF e.in THEN <<x>> ELSE <<>>) /\ b = a
    BY <1>3, <1>16, <2>1, <2>2 DEF RunsTask, SameDemand, Owed
  <2>6. e.in \in BOOLEAN /\ Moves(p, IF e.in THEN <<x>> ELSE <<>>)
    BY <1>1, <2>5, Fields DEF Moves
  <2>7. j = i + IF e.in THEN ItemWeight[x] ELSE 0
    BY <1>8, <2>6
  <2>8. g = d
    BY <1>5, <2>5
  <2>. QED
    BY <2>4, <2>5, <2>7, <2>8
<1>17. CASE Leaves(p, e, f)
  <2>1. Sends(p, CancelFrames(e)) /\ b = a
    BY <1>3, <1>17 DEF Leaves, SameDemand, Owed
  <2>2. g = d
    BY <1>5, <2>1
  <2>3. \/ Moves(p, IF TRUE THEN <<y>> ELSE <<>>) \/ Moves(p, IF TRUE THEN <<z>> ELSE <<>>) \/ Moves(p, <<>>)
    BY <1>11, <2>1 DEF CancelFrames, Moves
  <2>4. \A x \in Frames : Moves(p, IF TRUE THEN <<x>> ELSE <<>>) => j = i + ItemWeight[x]
    BY <1>8
  <2>5. i + 0 = i
    OBVIOUS
  <2>6. j = i
    BY <1>6, <1>11, <1>12, <2>3, <2>4, <2>5, Zenon
  <2>. QED
    BY <2>1, <2>2, <2>6
<1>18. ~Ignores(p, e, f)
  BY <1>1 DEF Ignores
<1>19. CASE TakesItem(p, e, f)
  <2>1. Takes(p, <<>>) /\ net[p] # <<>> /\ Head(net[p]).type = "PAYLOAD" /\ b = a
    BY <1>3, <1>19 DEF TakesItem, Takes, IsItem, SameDemand, Owed
  <2>2. DemandWeight[Head(net[p])] = 0
    BY <1>9, <2>1, FrameWeights
  <2>3. j = i
    BY <1>6, <2>1 DEF Moves
  <2>. QED
    BY <1>7, <2>1, <2>2, <2>3
<1>20. CASE TakesEnd(p, e, f)
  <2>1. /\ Takes(p, IF e.observer = "open" /\ e.out /\ p = Requester THEN <<z>> ELSE <<>>)
        /\ net[p] # <<>> /\ Head(net[p]).type = "PAYLOAD" /\ b = a
    BY <1>3, <1>11, <1>20 DEF TakesEnd, SameDemand, Owed
  <2>2. DemandWeight[Head(net[p])] = 0
    BY <1>9, <2>1, FrameWeights
  <2>3. j = i
    <3>1. PICK c \in BOOLEAN : c = (e.observer = "open" /\ e.out /\ p = Requester)
      OBVIOUS
    <3>2. Moves(p, IF c THEN <<z>> ELSE <<>>)
      BY <2>1, <3>1 DEF Moves
    <3>. QED
      BY <1>8, <1>12, <3>2
  <2>. QED
    BY <1>7, <2>1, <2>2, <2>3
<1>21. CASE TakesDemand(p, e, f)
  <2>1. Takes(p, <<>>) /\ net[p] # <<>> /\ Head(net[p]).type = "REQUEST_N" /\ b = a + Head(net[p]).n
    BY <1>3, <1>21 DEF TakesDemand, Takes
  <2>2. DemandWeight[Head(net[p])] = Head(net[p]).n
    BY <1>9, <2>1, FrameWeights
  <2>3. j = i
    BY <1>6, <2>1 DEF Moves
  <2>4. d = DemandWeight[Head(net[p])] + g
    BY <1>7, <2>1
  <2>5. PICK n \in Nat : n = Head(net[p]).n
    BY <1>9, <2>1 DEF Frames
  <2>6. b = a + n /\ d = n + g
    BY <2>1, <2>2, <2>4, <2>5
  <2>. QED
    BY <2>3, <2>6
<1>. QED
  BY <1>1, <1>13, <1>14, <1>15, <1>16, <1>17, <1>18, <1>19, <1>20, <1>21 DEF EffectOn

\* What a step does to the demand of the observer of the end that makes it, in
\* its tasks and on its way, and to the items on their way to it.
LEMMA DemandGot ==
  ASSUME IInv, NEW p \in Peers, Steps(p), NEW q, q = Other(p), NEW e, e = ends[p], NEW f, f = ends'[p],
         ~Accepts(p, e, f), f.in, case.kind # "response"
  PROVE  Weigh(ItemWeight, net'[p]) + Weigh(DemandWeight, net'[q]) + Total(f.tasks) + (f.received % Limit)
           = Weigh(ItemWeight, net[p]) + Weigh(DemandWeight, net[q]) + Total(e.tasks) + (e.received % Limit)
<1>1. e \in EndType /\ f \in EndType /\ EffectOn(p, e, f) /\ q \in Peers /\ e.in
  BY StepFacts DEF Onward
<1>2. /\ Typed /\ net[p] \in Seq(Frames) /\ net[q] \in Seq(Frames)
      /\ net'[p] \in Seq(Frames) /\ net'[q] \in Seq(Frames)
  BY <1>1 DEF IInv, Typed, Steps
<1>3. Limit \in Nat /\ Limit >= 1
  BY <1>2, CaseFacts
<1>4. PICK i, j, d, g \in Nat : /\ i = Weigh(ItemWeight, net[p]) /\ j = Weigh(ItemWeight, net'[p])
                                /\ d = Weigh(DemandWeight, net[q]) /\ g = Weigh(DemandWeight, net'[q])
  BY <1>2, FrameWeights, WeighType
<1>5. PICK s, t, r, u \in Nat : /\ s = Total(e.tasks) /\ t = Total(f.tasks)
                                /\ r = e.received % Limit /\ u = f.received % Limit
  <2>1. e.tasks \in Seq(Nat) /\ f.tasks \in Seq(Nat) /\ e.received \in Nat /\ f.received \in Nat
    BY <1>1, Fields
  <2>2. Total(e.tasks) \in Nat /\ Total(f.tasks) \in Nat
    BY <2>1, TotalType
  <2>3. e.received % Limit \in Nat /\ f.received % Limit \in Nat
    BY <1>3, <2>1, NextRemainder
  <2>. QED
    BY <2>2, <2>3
<1>6. SUFFICES j + g + t + u = i + d + s + r
  BY <1>4, <1>5
<1>7. ASSUME NEW l, Sends(p, l) PROVE j = i
  BY <1>4, <1>7 DEF Sends
<1>8. ASSUME Moves(p, <<>>) PROVE g = d
  BY <1>2, <1>4, <1>8, WeightUnsent
<1>9. ASSUME NEW l, Takes(p, l) PROVE i = ItemWeight[Head(net[p])] + j
  BY <1>2, <1>4, <1>9, FrameWeights, WeightTaken
<1>10. ASSUME NEW x \in Frames, NEW c \in BOOLEAN, Moves(p, IF c THEN <<x>> ELSE <<>>)
       PROVE  g = d + IF c THEN DemandWeight[x] ELSE 0
  <2>1. PICK w \in [Frames -> Nat] : w = DemandWeight
    BY FrameWeights
  <2>2. Typed /\ p \in Peers /\ q = Other(p) /\ Moves(p, IF c THEN <<x>> ELSE <<>>)
    BY <1>2, <1>10
  <2>3. Weigh(w, net'[q]) = Weigh(w, net[q]) + IF c THEN w[x] ELSE 0
    BY ONLY <2>2, WeightSent, w \in [Frames -> Nat], x \in Frames, c \in BOOLEAN
  <2>. QED
    BY <1>4, <2>1, <2>3
<1>11. net[p] # <<>> => Head(net[p]) \in Frames
  BY <1>2, HeadTailProperties
<1>12. f.tasks = e.tasks /\ f.received = e.received => t = s /\ u = r
  BY <1>5
<1>13. CASE Turns(p, e, f) \/ Emits(p, e, f) \/ Finishes(p, e, f)
  <2>1. Sends(p, <<>>) /\ f.tasks = e.tasks /\ f.received = e.received
    BY <1>13 DEF Turns, Emits, Finishes, SameSink, SameGot
  <2>2. Moves(p, <<>>)
    BY <2>1 DEF Moves
  <2>. QED
    BY <1>7, <1>8, <1>12, <2>1, <2>2
<1>14. CASE SendsItem(p, e, f) \/ Completes(p, e, f)
  <2>1. PICK n \in Nat, c \in BOOLEAN : Sends(p, IF e.out THEN <<Frame("PAYLOAD", n, c)>> ELSE <<>>)
    <3>1. CASE SendsItem(p, e, f)
      <4>1. PICK n \in Nat, c \in BOOLEAN : n = Head(e.buffer) /\ c = (Len(e.buffer) = 1 /\ e.ended # "no")
        BY <1>1, <3>1, Fields, HeadTailProperties DEF SendsItem
      <4>2. Sends(p, IF e.out THEN <<Frame("PAYLOAD", n, c)>> ELSE <<>>)
        BY <3>1, <4>1 DEF SendsItem
      <4>. QED
        BY <4>2
    <3>2. CASE Completes(p, e, f)
      <4>1. Sends(p, IF e.out THEN <<Frame("PAYLOAD", 0, TRUE)>> ELSE <<>>) /\ 0 \in Nat
        BY <3>2 DEF Completes
      <4>. QED
        BY <4>1, Zenon
    <3>. QED
      BY <1>14, <3>1, <3>2
  <2>2. PICK x \in Frames : x = Frame("PAYLOAD", n, c)
    BY FrameFacts
  <2>3. x.type = "PAYLOAD"
    BY <2>2 DEF Frame
  <2>4. DemandWeight[x] = 0
    BY <2>3, FrameWeights
  <2>5. e.out \in BOOLEAN /\ Moves(p, IF e.out THEN <<x>> ELSE <<>>)
    BY <1>1, <2>1, <2>2, Fields DEF Moves
  <2>6. g = d + IF e.out THEN DemandWeight[x] ELSE 0
    BY <1>10, <2>5
  <2>7. j = i
    BY <1>7, <2>1
  <2>8. f.tasks = e.tasks /\ f.received = e.received
    BY <1>14 DEF SendsItem, Completes, SameSink, SameGot
  <2>. QED
    BY <1>12, <2>4, <2>6, <2>7, <2>8
<1>15. CASE Fails(p, e, f)
  <2>1. Sends(p, <<>>) /\ f.tasks = e.tasks /\ f.received = e.received
    BY <1>15 DEF Fails, SameSink, SameGot
  <2>2. Moves(p, <<>>)
    BY <2>1 DEF Moves
  <2>. QED
    BY <1>7, <1>8, <1>12, <2>1, <2>2
<1>16. CASE RunsTask(p, e, f)
  <2>1. PICK n \in Nat : n = Head(e.tasks)
    BY <1>1, <1>16, Fields, HeadTailProperties DEF RunsTask
  <2>2. PICK x \in Frames : x = Frame("REQUEST_N", n, FALSE)
    BY FrameFacts
  <2>3. x.type = "REQUEST_N" /\ x.n = n
    BY <2>2 DEF Frame
  <2>4. DemandWeight[x] = n
    BY <2>3, FrameWeights
  <2>5. Sends(p, IF e.in THEN <<x>> ELSE <<>>)
    BY <1>16, <2>1, <2>2 DEF RunsTask
  <2>6. e.in \in BOOLEAN /\ Moves(p, IF e.in THEN <<x>> ELSE <<>>)
    BY <1>1, <2>5, Fields DEF Moves
  <2>7. g = d + IF e.in THEN DemandWeight[x] ELSE 0
    BY <1>10, <2>6
  <2>8. j = i
    BY <1>7, <2>5
  <2>9. s = n + t
    BY <1>1, <1>5, <1>16, <2>1, Fields, TotalTail DEF RunsTask
  <2>10. u = r
    BY <1>5, <1>16 DEF RunsTask
  <2>11. g = d + n
    BY <1>1, <2>4, <2>7
  <2>. QED
    BY <2>8, <2>9, <2>10, <2>11
<1>17. /\ ~Responds(p, e, f) /\ ~Leaves(p, e, f) /\ ~TakesEnd(p, e, f) /\ ~TakesStop(p, e, f)
  BY <1>1 DEF Responds, Leaves, TakesEnd, TakesStop
<1>18. CASE Ignores(p, e, f) \/ TakesDemand(p, e, f) \/ TakesCancel(p, e, f)
  <2>1. /\ Takes(p, <<>>) /\ net[p] # <<>> /\ Head(net[p]).type \in {"REQUEST_N", "CANCEL"}
        /\ f.tasks = e.tasks /\ f.received = e.received
    BY <1>1, <1>18 DEF Ignores, TakesDemand, TakesCancel, Takes, SameSink, SameGot
  <2>2. ItemWeight[Head(net[p])] = 0
    BY <1>11, <2>1, FrameWeights
  <2>3. g = d
    BY <1>8, <2>1 DEF Moves
  <2>4. i = ItemWeight[Head(net[p])] + j
    BY <1>9, <2>1
  <2>. QED
    BY <1>12, <2>1, <2>2, <2>3, <2>4
<1>19. CASE TakesItem(p, e, f)
  <2>1. /\ Takes(p, <<>>) /\ net[p] # <<>> /\ IsItem(Head(net[p])) /\ f.received = e.received + 1
        /\ f.tasks = IF f.received % Limit = 0 THEN Append(e.tasks, Limit) ELSE e.tasks
    BY <1>19 DEF TakesItem, Takes
  <2>2. ItemWeight[Head(net[p])] = 1
    BY <1>11, <2>1, FrameWeights
  <2>3. g = d
    BY <1>8, <2>1 DEF Moves
  <2>4. i = 1 + j
    BY <1>9, <2>1, <2>2
  <2>5. e.received \in Nat /\ e.tasks \in Seq(Nat)
    BY <1>1, Fields
  <2>6. r < Limit /\ u = IF r = Limit - 1 THEN 0 ELSE r + 1
    <3>1. PICK k, l \in Nat : k = e.received /\ l = Limit /\ l >= 1
      BY <1>3, <2>5
    <3>2. k % l < l /\ (k + 1) % l = IF k % l = l - 1 THEN 0 ELSE (k % l) + 1
      BY <3>1, NextRemainder
    <3>. QED
      BY <1>5, <2>1, <3>1, <3>2
  <2>7. t = IF u = 0 THEN s + Limit ELSE s
    <3>1. Total(Append(e.tasks, Limit)) = Total(e.tasks) + Limit
      BY <1>3, <2>5, TotalAppend, Zenon
    <3>2. t = IF u = 0 THEN Total(Append(e.tasks, Limit)) ELSE Total(e.tasks)
      BY <1>5, <2>1, Zenon
    <3>. QED
      BY <1>5, <3>1, <3>2, Zenon
  <2>8. t + u = s + r + 1
    <3>1. PICK l \in Nat : l = Limit
      BY <1>3
    <3>2. r < l /\ u = (IF r = l - 1 THEN 0 ELSE r + 1) /\ t = IF u = 0 THEN s + l ELSE s
      BY <2>6, <2>7, <3>1
    <3>. QED
      BY <3>2
  <2>. QED
    BY <2>3, <2>4, <2>8
<1>. QED
  BY <1>1, <1>13, <1>14, <1>15, <1>16, <1>17, <1>18, <1>19 DEF EffectOn

\* The request brings the demand for the prefetch, less the item of a channel.
LEMMA DemandStarted ==
  ASSUME IInv, NEW p \in Peers, Steps(p), NEW q, q = Other(p), Accepts(p, ends[p], ends'[p])
  PROVE  DemandInv(p)' /\ DemandInv(q)'
<1>1. PICK e, f, o : e = ends[p] /\ f = ends'[p] /\ o = ends[q]
  OBVIOUS
<1>2. /\ f \in EndType /\ ends'[q] = o /\ case' = case /\ o \in EndType /\ Accepts(p, e, f)
      /\ p = Responder /\ q = Requester /\ Other(p) = q /\ Other(q) = p /\ Unborn
  BY <1>1, StepFacts, UnbornStep, TwoEnds
<1>3. PICK P, L \in Nat : P = case.prefetch /\ L = Limit /\ L >= 1 /\ P >= 1
  BY CaseFacts DEF IInv
<1>4. /\ net[q] = <<>> /\ o.received = 0 /\ o.tasks = <<>> /\ o.requested = 0
      /\ \A i \in 1 .. Len(net[p]) : net[p][i].type \notin {"PAYLOAD", "REQUEST_N"}
  BY <1>1, <1>2 DEF IInv, UnbornInv
<1>5. /\ net[p] # <<>> /\ net'[p] = Tail(net[p]) /\ net'[q] = <<>> \o <<>> /\ net[p] \in Seq(Frames)
  BY <1>2, <1>4, HereFacts DEF Accepts, Takes
<1>6. net'[q] = <<>>
  BY <1>5
<1>7. PICK s \in Seq(Frames) : s = net'[p] /\ \A i \in 1 .. Len(s) : s[i] \in Frames /\ s[i].type \notin {"PAYLOAD", "REQUEST_N"}
  <2>1. Tail(net[p]) \in Seq(Frames)
    BY <1>5, TailFrames
  <2>2. \A i \in 1 .. Len(Tail(net[p])) : Tail(net[p])[i].type \notin {"PAYLOAD", "REQUEST_N"}
    BY <1>4, <1>5, TailFrames
  <2>3. \A i \in 1 .. Len(Tail(net[p])) : Tail(net[p])[i] \in Frames
    BY <2>1, ElementOfSeq
  <2>. QED
    BY <1>5, <2>1, <2>2, <2>3
<1>8. /\ Weigh(ItemWeight, net'[q]) = 0 /\ Weigh(DemandWeight, net'[q]) = 0
      /\ Weigh(ItemWeight, net'[p]) = 0 /\ Weigh(DemandWeight, net'[p]) = 0
  <2>1. \A i \in 1 .. Len(s) : ItemWeight[s[i]] = 0 /\ DemandWeight[s[i]] = 0
    BY <1>7, FrameWeights
  <2>2. Weigh(ItemWeight, s) = 0 /\ Weigh(DemandWeight, s) = 0
    BY <2>1, FrameWeights, WeighNothing
  <2>. QED
    BY <1>6, <1>7, <2>2, WeighEmpty
<1>9. Limit' = Limit
  BY <1>2 DEF Limit
\* The requester waits for what it asked for.
<1>10. DemandInv(q)'
  <2>1. ASSUME case.kind # "response"
        PROVE  Owed(f) + Weigh(ItemWeight, net'[q]) + Weigh(DemandWeight, net'[p]) + Total(o.tasks)
                 = case.prefetch - (o.received % Limit)
    <3>1. Owed(f) = P
      <4>1. f.requested = P /\ f.drain.delivered = 0
        BY <1>2, <1>3, <2>1 DEF Accepts
      <4>. QED
        BY <4>1 DEF Owed
    <3>2. Total(o.tasks) = 0 /\ o.received % Limit = 0
      <4>1. 0 % L = 0
        BY <1>3
      <4>. QED
        BY <1>3, <1>4, <4>1, TotalEmpty
    <3>. QED
      BY <1>3, <1>8, <3>1, <3>2
  <2>. QED
    BY <1>1, <1>2, <1>9, <2>1 DEF DemandInv, Owed
\* The responder of a channel asks for one less.
<1>11. DemandInv(p)'
  <2>1. ASSUME f.in
        PROVE  Owed(o) + Weigh(ItemWeight, net'[p]) + Weigh(DemandWeight, net'[q]) + Total(f.tasks)
                 = case.prefetch - (f.received % Limit)
    <3>1. Owed(o) = 0
      <4>1. LoopInv(o) /\ o.drain.delivered \in Nat
        <5>1. q \in Peers
          BY <1>2, TwoEnds
        <5>2. LoopInv(ends[q])
          BY <5>1 DEF IInv
        <5>3. o.drain.delivered \in Nat
          BY <1>2, Fields
        <5>. QED
          BY <1>1, <5>2, <5>3
      <4>2. o.drain.delivered = 0
        BY <1>4, <4>1 DEF LoopInv
      <4>. QED
        BY <1>4, <4>2 DEF Owed
    <3>2. f.received = 1 /\ f.tasks = IF 1 % L = 0 THEN <<L, P - 1>> ELSE <<P - 1>>
      BY <1>2, <1>3, <2>1 DEF Accepts
    <3>3. P - 1 \in Nat
      BY <1>3
    <3>4. CASE L = 1
      <4>1. 1 % L = 0
        BY <3>4
      <4>2. PICK t \in Seq(Nat) : t = <<L>>
        BY OneNumber
      <4>3. f.tasks = Append(t, P - 1)
        BY <3>2, <4>1, <4>2
      <4>4. Total(Append(t, P - 1)) = Total(t) + (P - 1)
        BY <3>3, TotalAppend
      <4>5. Total(t) = L
        BY <4>2, TotalSingle
      <4>6. Total(f.tasks) = P /\ f.received % Limit = 0
        <5>1. Total(f.tasks) = L + (P - 1)
          BY <4>3, <4>4, <4>5, Zenon
        <5>2. f.received % Limit = 0
          BY <1>3, <3>2, <4>1, Zenon
        <5>. QED
          BY <1>3, <3>4, <5>1, <5>2
      <4>. QED
        BY <1>3, <1>8, <3>1, <4>6
    <3>5. CASE L > 1
      <4>1. 1 % L = 1
        BY <3>5
      <4>2. Total(f.tasks) = P - 1
        BY <3>2, <3>3, <4>1, TotalSingle
      <4>3. f.received % Limit = 1
        BY <1>3, <3>2, <4>1
      <4>. QED
        BY <1>3, <1>8, <3>1, <4>2, <4>3
    <3>. QED
      BY <1>3, <3>4, <3>5
  <2>. QED
    BY <1>1, <1>2, <1>9, <2>1 DEF DemandInv, Owed
<1>. QED
  BY <1>10, <1>11

\* The demand of every observer is accounted for after a step.
LEMMA DemandKept ==
  ASSUME IInv, NEW p \in Peers, Steps(p)
  PROVE  \A r \in Peers : DemandInv(r)'
<1>1. PICK q, e, f, o : q = Other(p) /\ e = ends[p] /\ f = ends'[p] /\ o = ends[q]
  OBVIOUS
<1>2. /\ e \in EndType /\ f \in EndType /\ ends'[q] = o /\ case' = case /\ o \in EndType
      /\ q \in Peers /\ Peers = {p, q} /\ Other(p) = q /\ Other(q) = p
      /\ (Accepts(p, e, f) \/ Onward(e, f))
  BY <1>1, StepFacts, TwoEnds
<1>3. CASE Accepts(p, e, f)
  <2>1. DemandInv(p)' /\ DemandInv(q)'
    BY <1>1, <1>3, DemandStarted
  <2>. QED
    BY <1>2, <2>1
<1>4. CASE ~Accepts(p, e, f)
  <2>1. (Unborn' <=> Unborn) /\ Limit' = Limit
    BY <1>1, <1>2, <1>4, UnbornStep DEF Limit
  <2>2. DemandInv(p) /\ DemandInv(q) /\ Typed /\ Typed'
    BY <1>2 DEF IInv, Steps
  <2>3. (f.in => e.in) /\ (f.out => e.out)
    BY <1>2, <1>4 DEF Onward
  <2>4. /\ net[p] \in Seq(Frames) /\ net[q] \in Seq(Frames) /\ net'[p] \in Seq(Frames) /\ net'[q] \in Seq(Frames)
    BY <1>2, <2>2 DEF Typed
  <2>5. PICK A, B, C \in Int : A = Owed(e) /\ B = Owed(f) /\ C = Owed(o)
    <3>1. \A x \in EndType : x.requested \in Nat /\ x.drain.delivered \in Nat
      BY Fields
    <3>2. \A x \in EndType : Owed(x) \in Int
      BY <3>1 DEF Owed
    <3>. QED
      BY <1>2, <3>2
  <2>6. PICK i, j, d, g \in Nat : /\ i = Weigh(ItemWeight, net[p]) /\ j = Weigh(ItemWeight, net'[p])
                                  /\ d = Weigh(DemandWeight, net[p]) /\ g = Weigh(DemandWeight, net'[p])
    BY <2>4, FrameWeights, WeighType
  <2>7. PICK k, l, m, n \in Nat : /\ k = Weigh(ItemWeight, net[q]) /\ l = Weigh(ItemWeight, net'[q])
                                  /\ m = Weigh(DemandWeight, net[q]) /\ n = Weigh(DemandWeight, net'[q])
    BY <2>4, FrameWeights, WeighType
  <2>8. PICK s, t, u \in Nat : s = Total(e.tasks) /\ t = Total(f.tasks) /\ u = Total(o.tasks)
    <3>1. e.tasks \in Seq(Nat) /\ f.tasks \in Seq(Nat) /\ o.tasks \in Seq(Nat)
      BY <1>2, Fields
    <3>. QED
      BY <3>1, TotalType
  <2>9. PICK x, y, z, P \in Nat : /\ x = e.received % Limit /\ y = f.received % Limit /\ z = o.received % Limit
                                  /\ P = case.prefetch
    <3>1. e.received \in Nat /\ f.received \in Nat /\ o.received \in Nat
      BY <1>2, Fields
    <3>. QED
      BY <2>2, <3>1, CaseFacts, NextRemainder
  <2>10. DemandInv(p)'
    <3>1. ASSUME o.out, f.in, case.kind # "response", ~Unborn
          PROVE  C + j + n + t = P - y
      <4>1. C + i + m + s = P - x
        BY <1>1, <1>2, <2>2, <2>3, <2>5, <2>6, <2>7, <2>8, <2>9, <3>1 DEF DemandInv
      <4>2. j + n + t + y = i + m + s + x
        BY <1>1, <1>4, <2>6, <2>7, <2>8, <2>9, <3>1, DemandGot
      <4>. QED
        BY <4>1, <4>2
    <3>2. ASSUME o.out, f.in, case.kind # "response", ~Unborn
          PROVE  Owed(o) + Weigh(ItemWeight, net'[p]) + Weigh(DemandWeight, net'[q]) + Total(f.tasks)
                   = case.prefetch - (f.received % Limit)
      BY <2>5, <2>6, <2>7, <2>8, <2>9, <3>1, <3>2
    <3>. QED
      BY <1>1, <1>2, <2>1, <3>2 DEF DemandInv, Owed
  <2>11. DemandInv(q)'
    <3>1. ASSUME f.out, o.in, case.kind # "response", ~Unborn
          PROVE  B + l + g + u = P - z
      <4>1. A + k + d + u = P - z
        BY <1>1, <1>2, <2>2, <2>3, <2>5, <2>6, <2>7, <2>8, <2>9, <3>1 DEF DemandInv
      <4>2. B + l + g = A + k + d
        BY <1>1, <1>4, <2>5, <2>6, <2>7, <3>1, DemandSent
      <4>. QED
        BY <4>1, <4>2
    <3>2. ASSUME f.out, o.in, case.kind # "response", ~Unborn
          PROVE  Owed(f) + Weigh(ItemWeight, net'[q]) + Weigh(DemandWeight, net'[p]) + Total(o.tasks)
                   = case.prefetch - (o.received % Limit)
      BY <2>5, <2>6, <2>7, <2>8, <2>9, <3>1, <3>2
    <3>. QED
      BY <1>1, <1>2, <2>1, <3>2 DEF DemandInv, Owed
  <2>. QED
    BY <1>2, <2>10, <2>11
<1>. QED
  BY <1>3, <1>4

-----------------------------------------------------------------------------
(* The theorems. *)

\* What the ends are at first.
LEMMA FirstEnds ==
  ASSUME Init
  PROVE  /\ Typed /\ Unborn /\ Untouched(ends[Responder])
         /\ net[Requester] = <<>> /\ net[Responder] = <<Frame("REQUEST", 0, FALSE)>>
         /\ \A p \in Peers : LET e == ends[p] IN
              /\ e.ended = "no" /\ e.buffer = <<>> /\ e.items = <<>> /\ e.tasks = <<>> /\ e.received = 0
              /\ e.requested = 0 /\ ~e.closed /\ e.drain.at = "idle" /\ e.drain.delivered = 0
         /\ LET e == ends[Requester] IN
              /\ e.observer = "open" /\ e.in
              /\ IF case.kind = "channel" THEN e.source = "on" /\ e.out /\ e.emitted = 1
                 ELSE e.source = "none" /\ ~e.out /\ e.emitted = 0
<1>1. Requester \in Peers /\ Responder \in Peers /\ Requester # Responder /\ Peers = {Requester, Responder}
  BY DEF Peers, Requester, Responder
<1>2. case \in Cases
  BY DEF Init
<1>3. PICK c \in Flags : c = (case.kind = "channel")
  BY DEF Flags
<1>4. PICK e : e = End(Requester, IF c THEN "on" ELSE "none", 0, TRUE, c)
  OBVIOUS
<1>5. PICK a : a = Absent
  OBVIOUS
<1>6. Idle \in Loops /\ Idle.at = "idle" /\ Idle.delivered = 0
  BY DEF Idle, Loops
<1>7. /\ "on" \in Sources /\ "none" \in Sources /\ "no" \in Outcomes /\ "open" \in Observers /\ "none" \in Observers
      /\ TRUE \in Flags /\ FALSE \in Flags /\ 0 \in Numbers /\ 1 \in Numbers
      /\ <<>> \in NumberSeqs /\ <<>> \in FrameSeqs
  BY DEF Sources, Outcomes, Observers, Flags, Numbers, NumberSeqs, FrameSeqs
<1>8. /\ a \in EndType /\ a.role = Responder /\ a.source = "none" /\ a.emitted = 0 /\ a.ended = "no"
      /\ a.requested = 0 /\ a.buffer = <<>> /\ a.closed = FALSE /\ a.drain = Idle /\ a.observer = "none"
      /\ a.received = 0 /\ a.items = <<>> /\ a.tasks = <<>> /\ a.in = FALSE /\ a.out = FALSE /\ a.sent = <<>>
  BY <1>1, <1>5, <1>6, <1>7 DEF Absent, End, EndType
<1>9. /\ e \in EndType /\ e.role = Requester /\ e.source = (IF c THEN "on" ELSE "none") /\ e.emitted = 0
      /\ e.ended = "no" /\ e.requested = 0 /\ e.buffer = <<>> /\ e.closed = FALSE /\ e.drain = Idle
      /\ e.observer = "open" /\ e.received = 0 /\ e.items = <<>> /\ e.tasks = <<>> /\ e.in = TRUE /\ e.out = c
      /\ e.sent = <<>>
  BY <1>1, <1>4, <1>6, <1>7 DEF End, EndType
<1>10. PICK f : f = IF c THEN [e EXCEPT !.emitted = 1] ELSE e
  OBVIOUS
<1>11. /\ f \in EndType /\ f.role = Requester /\ f.source = (IF c THEN "on" ELSE "none")
       /\ f.emitted = (IF c THEN 1 ELSE 0)
       /\ f.ended = "no" /\ f.requested = 0 /\ f.buffer = <<>> /\ f.closed = FALSE /\ f.drain = Idle
       /\ f.observer = "open" /\ f.received = 0 /\ f.items = <<>> /\ f.tasks = <<>> /\ f.in = TRUE /\ f.out = c
       /\ f.sent = <<>>
  BY <1>7, <1>9, <1>10 DEF EndType
<1>12. ends = [p \in Peers |-> IF p = Responder THEN a ELSE f]
  BY <1>3, <1>4, <1>5, <1>10 DEF Init
<1>13. ends[Responder] = a /\ ends[Requester] = f /\ ends \in [Peers -> EndType]
  BY <1>1, <1>8, <1>11, <1>12
<1>14. PICK t \in Seq(Frames) : t = <<Frame("REQUEST", 0, FALSE)>>
  BY FrameFacts, OneFrame
<1>14a. PICK z \in Seq(Frames) : z = <<>>
  <2>1. <<>> \in Seq(Frames)
    OBVIOUS
  <2>. QED
    BY <2>1, Zenon
<1>15. net = [p \in Peers |-> IF p = Responder THEN t ELSE z]
  BY <1>14, <1>14a DEF Init
<1>16. net[Responder] = t /\ net[Requester] = z /\ net \in [Peers -> Seq(Frames)]
  BY <1>1, <1>15
<1>17. Typed
  BY <1>1, <1>2, <1>8, <1>11, <1>13, <1>16 DEF Typed
<1>18. Unborn /\ Untouched(ends[Responder])
  BY <1>8, <1>13 DEF Unborn, Untouched
<1>19. \A p \in Peers :
         /\ ends[p].ended = "no" /\ ends[p].buffer = <<>> /\ ends[p].items = <<>> /\ ends[p].tasks = <<>>
         /\ ends[p].received = 0 /\ ends[p].requested = 0 /\ ~ends[p].closed
         /\ ends[p].drain.at = "idle" /\ ends[p].drain.delivered = 0
  BY <1>1, <1>6, <1>8, <1>11, <1>13
<1>20. /\ f.observer = "open" /\ f.in
       /\ IF case.kind = "channel" THEN f.source = "on" /\ f.out /\ f.emitted = 1
          ELSE f.source = "none" /\ ~f.out /\ f.emitted = 0
  BY <1>3, <1>11
<1>. QED
  BY <1>13, <1>14, <1>14a, <1>16, <1>17, <1>18, <1>19, <1>20, Zenon

\* The invariant holds at first: the request is on its way.
LEMMA InitInv == Init => IInv
<1>1. SUFFICES ASSUME Init PROVE IInv
  OBVIOUS
<1>2. PICK e, a, x : e = ends[Requester] /\ a = ends[Responder] /\ x = Frame("REQUEST", 0, FALSE)
  OBVIOUS
<1>3. /\ Typed /\ Unborn /\ Untouched(a) /\ net[Requester] = <<>> /\ net[Responder] = <<x>>
      /\ \A p \in Peers :
           /\ ends[p].ended = "no" /\ ends[p].buffer = <<>> /\ ends[p].items = <<>> /\ ends[p].tasks = <<>>
           /\ ends[p].received = 0 /\ ends[p].requested = 0 /\ ~ends[p].closed
           /\ ends[p].drain.at = "idle" /\ ends[p].drain.delivered = 0
      /\ e.observer = "open" /\ e.in
      /\ IF case.kind = "channel" THEN e.source = "on" /\ e.out /\ e.emitted = 1
         ELSE e.source = "none" /\ ~e.out /\ e.emitted = 0
  BY <1>1, <1>2, FirstEnds
<1>4. /\ Requester \in Peers /\ Responder \in Peers /\ Requester # Responder /\ Peers = {Requester, Responder}
      /\ Other(Requester) = Responder /\ Other(Responder) = Requester
  BY DEF Peers, Requester, Responder, Other
<1>5. x.type = "REQUEST" /\ x.n = 0
  BY <1>2 DEF Frame
<1>5a. x \in Frames
  BY <1>2, FrameFacts
<1>5b. PICK t \in Seq(Frames) : t = <<x>> /\ Len(t) = 1 /\ t[1] = x
  BY <1>5a, OneFrame
<1>5c. t # <<>>
  BY <1>5b
<1>6. t = net[Responder] /\ Len(t) = 1 /\ t[1] = x /\ t # <<>> /\ Head(t) = x
  BY <1>3, <1>5b, <1>5c, TailFrames
<1>7. Len(net[Requester]) = 0
  BY <1>3
<1>8. UnbornInv
  <2>1. \A i \in 1 .. Len(t) : t[i] = x /\ i = 1
    BY <1>6
  <2>2. \A i \in 1 .. Len(net[Requester]) : FALSE
    BY <1>7
  <2>3. \A p \in Peers : \A i \in 1 .. Len(net[p]) : net[p][i].type = "REQUEST" => Unborn /\ p = Responder /\ i = 1
    BY <1>3, <1>4, <1>6, <2>1, <2>2
  <2>4. \A i \in 1 .. Len(net[Responder]) : net[Responder][i].type \notin {"PAYLOAD", "REQUEST_N"}
    BY <1>5, <1>6, <2>1
  <2>5. net[Responder] # <<>> /\ Head(net[Responder]).type = "REQUEST"
    BY <1>5, <1>6
  <2>6. case.kind # "channel" => e.source = "none" /\ ~e.out
    BY <1>3
  <2>. QED
    BY <1>2, <1>3, <1>4, <2>3, <2>4, <2>5, <2>6, Zenon DEF UnbornInv
<1>9. \A p \in Peers : Len(ends[p].buffer) = 0 /\ Len(ends[p].items) = 0
  BY <1>3
<1>10. \A p \in Peers : LoopInv(ends[p]) /\ SourceInv(ends[p]) /\ OpenInv(ends[p])
  <2>1. \A p \in Peers : LoopInv(ends[p])
    BY <1>3 DEF LoopInv
  <2>2. \A p \in Peers : SourceInv(ends[p])
    BY <1>3, <1>9 DEF SourceInv
  <2>3. OpenInv(e) /\ OpenInv(a)
    BY <1>3 DEF OpenInv, Untouched
  <2>. QED
    BY <1>2, <1>4, <2>1, <2>2, <2>3
<1>11. FlowInv(Requester)
  <2>1. Given(Requester) = 0 /\ a.emitted = 0 /\ ~a.out
    BY <1>3, <1>4, <1>9 DEF Given, Untouched
  <2>2. InOrder(net[Requester], 0, 0) /\ CompletesLast(net[Requester], a, 0)
    BY <1>7 DEF InOrder, CompletesLast
  <2>. QED
    BY <1>2, <1>3, <1>4, <1>7, <1>9, <2>1, <2>2 DEF FlowInv
<1>12. FlowInv(Responder)
  <2>1. PICK m \in Nat : m = e.emitted
    BY <1>3
  <2>2. Given(Responder) = m
    BY <1>3, <1>4, <1>9, <2>1 DEF Given
  <2>3. InOrder(t, m, m) /\ CompletesLast(t, e, m)
    BY <1>5, <1>6 DEF InOrder, CompletesLast, IsItem
  <2>4. Len(e.buffer) = 0 /\ Len(a.items) = 0 /\ a.observer = "none"
    BY <1>2, <1>3, <1>4, <1>9 DEF Untouched
  <2>5. m + Len(e.buffer) = e.emitted /\ Following(e.buffer, m)
    BY <2>1, <2>4 DEF Following
  <2>6. \A i \in 1 .. Len(t) : t[i].type # "PAYLOAD"
    BY <1>5, <1>6
  <2>. QED
    BY <1>2, <1>4, <1>6, <2>1, <2>2, <2>3, <2>4, <2>5, <2>6 DEF FlowInv
<1>13. FailureInv(Requester) /\ FailureInv(Responder)
  <2>1. FailureInv(Requester)
    BY <1>2, <1>3, <1>4, <1>7 DEF FailureInv
  <2>2. \A i \in 1 .. Len(t) : t[i].type = "REQUEST"
    BY <1>5, <1>6
  <2>3. a.observer = "none"
    BY <1>3 DEF Untouched
  <2>. QED
    BY <1>2, <1>4, <1>6, <2>1, <2>2, <2>3 DEF FailureInv
<1>14. DemandInv(Requester) /\ DemandInv(Responder)
  BY <1>3, <1>4 DEF DemandInv
<1>. QED
  BY <1>3, <1>4, <1>8, <1>10, <1>11, <1>12, <1>13, <1>14 DEF IInv

\* Every step keeps the invariant.
LEMMA NextInv == IInv /\ [Next]_vars => IInv'
<1>1. ASSUME IInv, Next PROVE IInv'
  <2>1. PICK p \in Peers : Steps(p)
    BY <1>1, StepEffect
  <2>2. PICK q \in Peers : q = Other(p) /\ Peers = {p, q}
    BY TwoEnds
  <2>3. FlowInv(p)'
    BY <1>1, <2>1, FlowReceived
  <2>4. FlowInv(q)'
    BY <1>1, <2>1, <2>2, FlowSent
  <2>5. \A r \in Peers : FlowInv(r)'
    BY <2>2, <2>3, <2>4
  <2>6. Typed' /\ (\A r \in Peers : LoopInv(ends'[r]))
    BY <2>1 DEF Steps
  <2>7. \A r \in Peers : LoopInv(ends[r])'
    BY <2>6 DEF LoopInv
  <2>8. /\ UnbornInv' /\ (\A r \in Peers : SourceInv(ends[r])') /\ (\A r \in Peers : OpenInv(ends[r])')
        /\ (\A r \in Peers : FailureInv(r)') /\ (\A r \in Peers : DemandInv(r)')
    BY <1>1, <2>1, UnbornKept, SourceKept, OpenKept, FailureKept, DemandKept
  <2>. QED
    BY <2>5, <2>6, <2>7, <2>8 DEF IInv, Peers, Requester, Responder
<1>2. ASSUME IInv, UNCHANGED vars PROVE IInv'
  <2>1. case' = case /\ ends' = ends /\ net' = net
    BY <1>2 DEF vars
  <2>2. Typed' = Typed /\ UnbornInv' = UnbornInv
    BY <2>1 DEF Typed, UnbornInv, Unborn, Untouched
  <2>3. ASSUME NEW p \in Peers PROVE LoopInv(ends[p])' = LoopInv(ends[p]) /\ SourceInv(ends[p])' = SourceInv(ends[p])
    BY <2>1 DEF LoopInv, SourceInv
  <2>4. ASSUME NEW p \in Peers PROVE OpenInv(ends[p])' = OpenInv(ends[p]) /\ FailureInv(p)' = FailureInv(p)
    BY <2>1 DEF OpenInv, FailureInv, Excused, Unborn
  <2>5. ASSUME NEW p \in Peers PROVE FlowInv(p)' = FlowInv(p)
    BY <2>1 DEF FlowInv, Given, Listens, InOrder, CompletesLast, Completed, Following, IsItem, Unborn
  <2>6. ASSUME NEW p \in Peers PROVE DemandInv(p)' = DemandInv(p)
    BY <2>1 DEF DemandInv, Owed, Unborn, Limit
  <2>. QED
    BY <1>2, <2>2, <2>3, <2>4, <2>5, <2>6 DEF IInv
<1>. QED
  BY <1>1, <1>2

\* The invariant holds in every reachable state.
THEOREM RxInvariant == Spec => []IInv
<1>1. Init => IInv
  BY InitInv
<1>2. IInv /\ [Next]_vars => IInv'
  BY NextInv
<1>. QED
  BY <1>1, <1>2, PTL DEF Spec

\* Over any transport that keeps frames in order, for every prefetch and any
\* number of items: an observer gets what the source emitted, in order and
\* once, completes only after all of it, and fails only for a reason.
THEOREM RxDeliveryCorrect == Spec => []RxDelivery
<1>1. ASSUME IInv, NEW p \in Peers
      PROVE  LET from == ends[p]  to == ends[Other(p)]
             IN /\ \A i \in DOMAIN to.items : to.items[i] = i
                /\ Len(to.items) <= from.emitted
                /\ to.observer = "complete" =>
                     /\ Len(to.items) = from.emitted
                     /\ from.ended = "complete" \/ (from.ended = "error" /\ from.waited)
                /\ to.observer = "error" =>
                     "error" \in {from.ended, to.ended} \/ from.observer \in {"complete", "error", "gone"}
  <2>1. PICK q \in Peers : q = Other(p) /\ Other(q) = p
    BY TwoEnds
  <2>2. PICK e, o : e = ends[p] /\ o = ends[q] /\ e \in EndType /\ o \in EndType
    BY <1>1 DEF IInv, Typed
  <2>3. /\ \A i \in 1 .. Len(o.items) : o.items[i] = i
        /\ Given(q) <= e.emitted
        /\ o.observer = "complete" => Len(o.items) = e.emitted /\ Completed(e)
        /\ o.observer = "error" => Excused(e, o)
    <3>1. FlowInv(q) /\ FailureInv(q)
      BY <1>1 DEF IInv
    <3>. QED
      BY <2>1, <2>2, <3>1, Zenon DEF FlowInv, FailureInv
  <2>4. o.items \in Seq(Nat) /\ e.emitted \in Nat /\ Len(o.items) \in Nat /\ DOMAIN o.items = 1 .. Len(o.items)
    BY <2>2, Fields, LenProperties
  <2>5. Len(o.items) <= e.emitted
    <3>1. CASE q = Responder /\ Unborn
      <4>1. o.items = <<>>
        BY <1>1, <2>2, <3>1 DEF IInv, UnbornInv, Untouched
      <4>. QED
        BY <2>4, <4>1
    <3>2. CASE ~(q = Responder /\ Unborn)
      BY <2>2, <2>3, <3>2 DEF Given
    <3>. QED
      BY <3>1, <3>2
  <2>. QED
    BY <2>1, <2>2, <2>3, <2>4, <2>5, Zenon DEF Completed, Excused
<1>2. IInv => RxDelivery
  BY <1>1 DEF RxDelivery
<1>. QED
  BY <1>2, RxInvariant, PTL

\* For every prefetch the demand of an observer is neither lost nor made up,
\* wherever it is, whatever is called from inside the loop.
THEOREM RxDemandConservedCorrect == Spec => []DemandConserved
<1>1. ASSUME NEW s \in Seq(Frames)
      PROVE  Items(s) = Weigh(ItemWeight, s) /\ Demand(s) = Weigh(DemandWeight, s)
  <2>1. \A i \in DOMAIN s : s[i] \in Frames
    BY <1>1, LenProperties, ElementOfSeq
  <2>2. [i \in DOMAIN s |-> IF IsItem(s[i]) THEN 1 ELSE 0] = [i \in DOMAIN s |-> ItemWeight[s[i]]]
    BY <2>1 DEF ItemWeight
  <2>3. [i \in DOMAIN s |-> Asks(s[i])] = [i \in DOMAIN s |-> DemandWeight[s[i]]]
    BY <2>1 DEF DemandWeight
  <2>. QED
    BY <2>2, <2>3, Zenon DEF Items, Demand, Weigh
<1>2. ASSUME IInv, NEW p \in Peers, ends[p].out, ends[Other(p)].in, case.kind # "response",
             ends[Responder].source # "none"
      PROVE  /\ ends[p].requested - ends[p].drain.delivered + Items(net[Other(p)])
                  + Demand(net[p]) + Total(ends[Other(p)].tasks)
                  = case.prefetch - (ends[Other(p)].received % Limit)
             /\ ends[p].drain.delivered <= ends[p].requested
  <2>1. PICK q \in Peers : q = Other(p) /\ Other(q) = p
    BY TwoEnds
  <2>2. net[p] \in Seq(Frames) /\ net[q] \in Seq(Frames) /\ ends[p] \in EndType
    BY <1>2 DEF IInv, Typed
  <2>3. /\ Items(net[q]) = Weigh(ItemWeight, net[q]) /\ Demand(net[p]) = Weigh(DemandWeight, net[p])
    BY <1>1, <2>2
  <2>4. DemandInv(q) /\ LoopInv(ends[p])
    BY <1>2 DEF IInv
  <2>5. ends[p].requested \in Nat /\ ends[p].drain.delivered \in Nat
    BY <2>2, Fields
  <2>6. ends[p].drain.delivered <= ends[p].requested
    BY <2>4, <2>5 DEF LoopInv
  <2>7. Owed(ends[p]) + Weigh(ItemWeight, net[q]) + Weigh(DemandWeight, net[p]) + Total(ends[q].tasks)
          = case.prefetch - (ends[q].received % Limit)
    BY <1>2, <2>1, <2>4 DEF DemandInv, Unborn
  <2>. QED
    BY <2>1, <2>3, <2>6, <2>7 DEF Owed
<1>3. IInv => DemandConserved
  BY <1>2 DEF DemandConserved
<1>. QED
  BY <1>3, RxInvariant, PTL
=============================================================================
