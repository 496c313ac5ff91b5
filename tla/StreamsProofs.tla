---------------------------- MODULE StreamsProofs ----------------------------
(***************************************************************************)
(* What one stream owes its applications and the two registries, proved    *)
(* for every MaxDemand and for payloads of one frame and of two.           *)
(*                                                                         *)
(* The three interactions share an inductive invariant, IInv.  A step of   *)
(* any of them has one of nineteen effects, which say of the steps only    *)
(* what the invariant needs; the first part shows that, the second that    *)
(* each effect preserves each part of the invariant.                       *)
(***************************************************************************)
EXTENDS Streams, SumsProofs

asker == stream[Requester]
answerer == stream[Responder]

\* A frame sent now is not lost.
IsOpen == connected[Requester] /\ connected[Responder]
After(frames, sent) == IF IsOpen THEN frames \o sent ELSE frames

-----------------------------------------------------------------------------
(* The invariant. *)

\* A frame after which the responder sends none.
Ends(frame) == frame.type = "ERROR" \/ (frame.type = "PAYLOAD" /\ frame.complete)
Completes(frame) == frame.type = "PAYLOAD" /\ frame.complete
EndsLast(frames) == \A i \in 1 .. Len(frames) - 1 : ~Ends(frames[i])

\* Nothing is on its way before the request is, and nothing comes back before
\* the request arrived.
PhaseInv ==
  /\ asker.phase \in {"new", "ready"}
  /\ answerer.phase \in {"none", "assembling", "handler", "ready", "failed", "rejected"}
  /\ asker.phase = "new" => answerer.phase = "none" /\ pipe[Responder] = <<>>
  /\ answerer.phase = "none" => ~answerer.done /\ ~registered[Responder] /\ pipe[Requester] = <<>>
  /\ answerer.phase = "failed" /\ kind # "fnf" => answerer.done
  /\ answerer.hasFragments => answerer.phase = "assembling"
  /\ ~connected[Requester] => pipe[Requester] = <<>>
  /\ ~connected[Responder] => pipe[Responder] = <<>>

\* The first clause of RegistryAgrees, one end at a time.
RegistryInv ==
  /\ connected[Requester] =>
       (registered[Requester] <=> kind # "fnf" /\ asker.phase = "ready" /\ ~asker.done)
  /\ connected[Responder] =>
       (registered[Responder] <=>
          /\ ~answerer.done
          /\ \/ kind # "fnf" /\ answerer.phase \in {"ready", "assembling", "handler"}
             \/ kind = "fnf" /\ answerer.phase = "assembling")

\* The request comes first and once, and its last fragment right after it.
RequestInv ==
  /\ answerer.phase = "none" /\ pipe[Responder] # <<>> =>
       /\ Head(pipe[Responder]).type = "REQUEST"
       /\ Head(pipe[Responder]).follows =>
            /\ Tail(pipe[Responder]) # <<>>
            /\ Head(Tail(pipe[Responder])).type = "PAYLOAD"
  /\ answerer.phase # "none" => \A f \in Range(pipe[Responder]) : f.type # "REQUEST"
  /\ pipe[Responder] # <<>> => \A f \in Range(Tail(pipe[Responder])) : f.type # "REQUEST"
  /\ answerer.phase = "none" /\ asker.phase = "ready" /\ IsOpen => pipe[Responder] # <<>>
  /\ answerer.phase = "assembling" /\ connected[Responder] =>
       /\ ~answerer.done
       /\ pipe[Responder] # <<>>
       /\ Head(pipe[Responder]).type = "PAYLOAD"

\* When one end is over and the other is not, what will end it is on its way.
EndsInv ==
  /\ (\E f \in Range(pipe[Responder]) : f.type = "CANCEL") => asker.done
  /\ (\E f \in Range(pipe[Requester]) : Ends(f)) => answerer.done \/ answerer.phase = "rejected"
  /\ \A f \in Range(pipe[Requester]) : f.type = "PAYLOAD" =>
       /\ f.follows => ~f.complete
       /\ kind = "response" /\ ~f.follows => f.complete
  /\ EndsLast(pipe[Requester])
  /\ IsOpen /\ kind # "fnf" /\ asker.phase = "ready" /\ asker.done
       /\ ~answerer.done /\ answerer.phase # "rejected"
       => \E f \in Range(pipe[Responder]) : f.type = "CANCEL"
  /\ IsOpen /\ kind # "fnf" /\ answerer.done /\ ~asker.done
       => \E f \in Range(pipe[Requester]) : Ends(f)

\* The subscriber's signals are items, and a last one that is not if it is
\* done and did not cancel.
SignalsInv ==
  /\ \A i \in 1 .. Len(subscriber.signals) - 1 : subscriber.signals[i] = "next"
  /\ ~asker.done \/ subscriber.cancelled =>
       \A i \in 1 .. Len(subscriber.signals) : subscriber.signals[i] = "next"
  /\ subscriber.cancelled => asker.done
  /\ asker.done /\ ~subscriber.cancelled =>
       /\ Len(subscriber.signals) > 0
       /\ subscriber.signals[Len(subscriber.signals)] # "next"

PublisherInv ==
  /\ publisher.handled <= 1
  /\ answerer.phase \in {"none", "assembling", "rejected"} =>
       publisher.handled = 0 /\ publisher.credit = 0
  /\ publisher.cancels <= 1
  /\ publisher.cancels = 1 => answerer.done \/ ~connected[Responder]
  /\ publisher.ended => answerer.done
  /\ publisher.cancels = 1 /\ publisher.ended => ~connected[Responder]

\* The items in frames on their way to the requester, a fragmented one in its
\* last frame.
Item(frame) == IF frame.type = "PAYLOAD" /\ frame.next /\ ~frame.follows THEN 1 ELSE 0
ItemWeight == [f \in Frames |-> Item(f)]
DemandWeight == [f \in Frames |-> Demand(f)]

\* Items are neither lost nor made up, and none is sent after the completion.
AllPublished ==
  Count("next") + Weigh(ItemWeight, pipe[Requester]) = publisher.published

ItemsInv ==
  kind # "fnf" =>
    /\ IsOpen /\ ~asker.done => AllPublished
    /\ ~asker.done /\ (\E f \in Range(pipe[Requester]) : Completes(f)) =>
         publisher.ended /\ publisher.cancels = 0 /\ AllPublished
    /\ Count("complete") > 0 =>
         publisher.ended /\ publisher.cancels = 0 /\ Count("next") = publisher.published

Asked == publisher.credit + Weigh(DemandWeight, pipe[Responder]) + Held

DemandInv ==
  kind = "stream" =>
    /\ Asked <= subscriber.demand
    /\ IsOpen /\ ~asker.done /\ ~answerer.done /\ answerer.phase # "rejected"
         => Asked = subscriber.demand

KindInv == kind \in {"stream", "response", "fnf"}

IInv ==
  /\ TypeOK /\ KindInv /\ PhaseInv /\ RegistryInv /\ RequestInv /\ EndsInv
  /\ SignalsInv /\ PublisherInv /\ ItemsInv /\ DemandInv

-----------------------------------------------------------------------------
(* The effects of the requester's steps. *)

SameAsker ==
  /\ asker'.phase = asker.phase /\ asker'.done = asker.done
  /\ asker'.initialRequestN = asker.initialRequestN
  /\ registered'[Requester] = registered[Requester]

SameAnswerer ==
  /\ answerer' = answerer
  /\ registered'[Responder] = registered[Responder]

SameConnection == connected' = connected /\ kind' = kind
SameResponder ==
  SameAnswerer /\ publisher' = publisher /\ connected'[Responder] = connected[Responder] /\ kind' = kind

Signalled(s) ==
  /\ subscriber'.signals = subscriber.signals \o s
  /\ subscriber'.demand = subscriber.demand
  /\ subscriber'.cancelled = subscriber.cancelled

\* handleReady; with an extension the connection closes; a request to forget
\* is complete.
Asks(n, fragmented) ==
  /\ asker.phase = "new" /\ ~asker.done /\ connected[Requester]
  /\ n \in Nat /\ fragmented \in BOOLEAN /\ (kind = "stream" => n = asker.initialRequestN)
  /\ asker'.phase = "ready"
  /\ pipe'[Requester] = pipe[Requester]
  /\ pipe'[Responder] = After(pipe[Responder], Request(n, fragmented))
  /\ SameResponder
  /\ \/ /\ kind # "fnf" /\ ~asker'.done /\ subscriber' = subscriber
        /\ registered'[Requester] /\ connected'[Requester]
     \/ kind # "fnf" /\ asker'.done /\ ~connected'[Requester] /\ Signalled(<<"error">>)
     \/ /\ kind = "fnf" /\ asker'.done /\ Signalled(<<"complete">>)
        /\ registered'[Requester] = registered[Requester] /\ connected'[Requester]

\* What happens before the request is sent.
Waits ==
  /\ asker.phase = "new" /\ ~asker.done /\ asker'.phase = "new"
  /\ registered'[Requester] => registered[Requester]
  /\ pipe' = pipe /\ connected' = connected /\ SameResponder
  /\ \/ \E n \in Nat :
          /\ ~asker'.done
          /\ asker'.initialRequestN = asker.initialRequestN + n
          /\ subscriber'.demand = subscriber.demand + n
          /\ subscriber'.signals = subscriber.signals
          /\ subscriber'.cancelled = subscriber.cancelled
     \/ /\ asker'.done /\ asker'.initialRequestN = asker.initialRequestN
        /\ Signalled(<<"error">>)
     \/ /\ asker'.done /\ asker'.initialRequestN = asker.initialRequestN
        /\ subscriber'.cancelled
        /\ subscriber'.signals = subscriber.signals /\ subscriber'.demand = subscriber.demand

AsksMore(n) ==
  /\ kind = "stream" /\ asker.phase = "ready" /\ ~asker.done /\ n \in Nat \ {0}
  /\ SameAsker /\ SameResponder /\ connected' = connected
  /\ subscriber'.demand = subscriber.demand + n
  /\ subscriber'.signals = subscriber.signals /\ subscriber'.cancelled = subscriber.cancelled
  /\ pipe'[Requester] = pipe[Requester]
  /\ pipe'[Responder] = After(pipe[Responder], <<RequestNFrame(n)>>)

Cancels ==
  /\ kind # "fnf" /\ asker.phase = "ready" /\ ~asker.done
  /\ asker'.phase = "ready" /\ asker'.done /\ ~registered'[Requester]
  /\ SameResponder /\ connected' = connected
  /\ subscriber'.cancelled
  /\ subscriber'.signals = subscriber.signals /\ subscriber'.demand = subscriber.demand
  /\ pipe'[Requester] = pipe[Requester]
  /\ pipe'[Responder] = After(pipe[Responder], <<CancelFrame>>)

\* The requester takes a frame; none is sent.
TakesAtRequester ==
  /\ pipe[Requester] # <<>>
  /\ pipe'[Requester] = Tail(pipe[Requester]) /\ pipe'[Responder] = pipe[Responder]
  /\ SameResponder /\ connected' = connected

DropsAtRequester ==
  ~registered[Requester] /\ TakesAtRequester /\ SameAsker /\ subscriber' = subscriber

TakesFragment ==
  /\ kind # "fnf" /\ TakesAtRequester
  /\ Head(pipe[Requester]).type = "PAYLOAD" /\ Head(pipe[Requester]).follows
  /\ SameAsker /\ subscriber' = subscriber

SignalsOf(frame) ==
  (IF frame.next THEN <<"next">> ELSE <<>>) \o (IF frame.complete THEN <<"complete">> ELSE <<>>)

TakesPayload ==
  LET frame == Head(pipe[Requester]) IN
  /\ kind # "fnf" /\ TakesAtRequester
  /\ frame.type = "PAYLOAD" /\ ~frame.follows /\ registered[Requester]
  /\ asker'.phase = asker.phase /\ asker'.initialRequestN = asker.initialRequestN
  /\ asker'.done = (asker.done \/ frame.complete)
  /\ registered'[Requester] = ~frame.complete
  /\ Signalled(SignalsOf(frame))

TakesError ==
  /\ kind # "fnf" /\ TakesAtRequester
  /\ Head(pipe[Requester]).type = "ERROR" /\ registered[Requester]
  /\ asker'.phase = asker.phase /\ asker'.initialRequestN = asker.initialRequestN
  /\ asker'.done /\ ~registered'[Requester]
  /\ Signalled(<<"error">>)

ClosesRequester ==
  /\ connected[Requester] /\ ~connected'[Requester]
  /\ pipe'[Requester] = <<>> /\ pipe'[Responder] = pipe[Responder]
  /\ SameResponder
  /\ \/ SameAsker /\ subscriber' = subscriber
     \/ /\ registered[Requester] /\ asker'.done
        /\ asker'.phase = asker.phase /\ asker'.initialRequestN = asker.initialRequestN
        /\ Signalled(<<"error">>)

-----------------------------------------------------------------------------
(* The effects of the responder's steps. *)

SameRequester ==
  /\ asker' = asker /\ registered'[Requester] = registered[Requester]
  /\ connected'[Requester] = connected[Requester]
  /\ subscriber' = subscriber /\ kind' = kind

\* The responder takes a frame and sends some.
TakesAtResponder(frames) ==
  /\ pipe[Responder] # <<>> /\ answerer.phase # "handler"
  /\ pipe'[Responder] = Tail(pipe[Responder])
  /\ pipe'[Requester] = After(pipe[Requester], frames)
  /\ SameRequester /\ connected' = connected

DropsAtResponder ==
  /\ TakesAtResponder(<<>>)
  /\ Head(pipe[Responder]).type # "REQUEST" /\ ~registered[Responder]
  /\ SameAnswerer /\ publisher' = publisher

\* The handler is called with a whole request, or with the last fragment of it.
CallsHandler(n) ==
  LET frame == Head(pipe[Responder]) IN
  /\ n \in Nat /\ TakesAtResponder(<<>>)
  /\ \/ /\ frame.type = "REQUEST"
        /\ registered'[Responder] = (kind # "fnf" \/ registered[Responder])
        /\ kind = "stream" => n = frame.requestN
     \/ /\ frame.type = "PAYLOAD" /\ answerer.phase = "assembling" /\ registered[Responder]
        /\ registered'[Responder] = (kind # "fnf")
        /\ kind = "stream" => n = answerer.initialRequestN
  /\ answerer'.phase = "handler" /\ answerer'.done = answerer.done /\ ~answerer'.hasFragments
  /\ publisher' = [publisher EXCEPT !.handled = @ + 1, !.credit = n]

TakesFirstFragment ==
  LET frame == Head(pipe[Responder]) IN
  /\ TakesAtResponder(<<>>) /\ frame.type = "REQUEST" /\ frame.follows
  /\ answerer'.phase = "assembling" /\ answerer'.done = answerer.done
  /\ kind = "stream" => answerer'.initialRequestN = frame.requestN
  /\ registered'[Responder] /\ publisher' = publisher

\* Nobody handles the request; one to forget is not answered.
Rejects(frames) ==
  /\ TakesAtResponder(frames) /\ Head(pipe[Responder]).type = "REQUEST"
  /\ frames = IF kind = "fnf" THEN <<>> ELSE <<ErrorFrame>>
  /\ answerer'.phase = "rejected" /\ answerer'.done = answerer.done
  /\ answerer'.hasFragments = answerer.hasFragments
  /\ registered'[Responder] = registered[Responder] /\ publisher' = publisher

HandlerEnds ==
  /\ answerer.phase = "handler"
  /\ answerer'.phase = "ready" \/ (kind = "fnf" /\ answerer'.phase = "failed")
  /\ answerer'.done = answerer.done /\ answerer'.hasFragments = answerer.hasFragments
  /\ pipe' = pipe /\ SameRequester /\ connected' = connected
  /\ registered'[Responder] = registered[Responder] /\ publisher' = publisher

HandlerFails(frames) ==
  /\ kind # "fnf" /\ answerer.phase = "handler"
  /\ frames = IF answerer.done THEN <<>> ELSE <<ErrorFrame>>
  /\ answerer'.phase = "failed" /\ answerer'.done
  /\ answerer'.hasFragments = answerer.hasFragments
  /\ pipe'[Responder] = pipe[Responder] /\ pipe'[Requester] = After(pipe[Requester], frames)
  /\ SameRequester /\ connected' = connected
  /\ registered'[Responder] = (registered[Responder] /\ answerer.done) /\ publisher' = publisher

TakesDemand ==
  /\ kind = "stream" /\ TakesAtResponder(<<>>)
  /\ Head(pipe[Responder]).type = "REQUEST_N" /\ answerer.phase = "ready"
  /\ SameAnswerer
  /\ publisher' = [publisher EXCEPT !.credit = @ + Head(pipe[Responder]).requestN]

TakesCancel ==
  /\ kind # "fnf" /\ TakesAtResponder(<<>>)
  /\ Head(pipe[Responder]).type = "CANCEL" /\ registered[Responder]
  /\ answerer'.phase = answerer.phase /\ answerer'.done /\ ~answerer'.hasFragments
  /\ answerer'.initialRequestN = answerer.initialRequestN
  /\ ~registered'[Responder]
  /\ publisher' = publisher \/ publisher' = [publisher EXCEPT !.cancels = @ + 1]

ClosesResponder ==
  /\ connected[Responder] /\ ~connected'[Responder] /\ answerer.phase # "handler"
  /\ pipe'[Responder] = <<>> /\ pipe'[Requester] = pipe[Requester]
  /\ SameRequester /\ registered'[Responder] = registered[Responder]
  /\ answerer'.phase = answerer.phase /\ answerer'.initialRequestN = answerer.initialRequestN
  /\ answerer'.hasFragments => answerer.hasFragments
  /\ answerer'.done = answerer.done \/ (kind = "fnf" /\ registered[Responder] /\ answerer'.done)
  /\ \/ publisher' = publisher
     \/ registered[Responder] /\ publisher' = [publisher EXCEPT !.cancels = @ + 1]

\* The publisher sends an item, completes or fails.
Publishes(frames, items, ends) ==
  /\ kind # "fnf" /\ answerer.phase \in {"handler", "ready"} /\ ~answerer.done
  /\ pipe'[Responder] = pipe[Responder] /\ pipe'[Requester] = After(pipe[Requester], frames)
  /\ SameRequester /\ connected' = connected
  /\ answerer'.phase = answerer.phase /\ answerer'.done = ends
  /\ answerer'.hasFragments = answerer.hasFragments
  /\ registered'[Responder] = (registered[Responder] /\ ~ends)
  /\ publisher'.published = publisher.published + items /\ publisher'.ended = ends
  /\ publisher'.handled = publisher.handled /\ publisher'.credit = publisher.credit
  /\ publisher'.cancels = publisher.cancels
  /\ \/ /\ items = 1 /\ (kind = "response" => ends)
        /\ \E fragmented \in BOOLEAN : frames = Payload(ends, fragmented)
     \/ items = 0 /\ ends /\ frames = <<PayloadFrame(FALSE, TRUE, FALSE)>>
     \/ items = 0 /\ ends /\ frames = <<ErrorFrame>>

RequesterEffect ==
  \/ \E n \in Nat, fragmented \in BOOLEAN : Asks(n, fragmented)
  \/ Waits
  \/ \E n \in Nat : AsksMore(n)
  \/ Cancels
  \/ DropsAtRequester
  \/ TakesFragment
  \/ TakesPayload
  \/ TakesError
  \/ ClosesRequester

ResponderEffect ==
  \/ DropsAtResponder
  \/ \E n \in Nat : CallsHandler(n)
  \/ TakesFirstFragment
  \/ \E frames \in Seq(Frames) : Rejects(frames)
  \/ HandlerEnds
  \/ \E frames \in Seq(Frames) : HandlerFails(frames)
  \/ TakesDemand
  \/ TakesCancel
  \/ ClosesResponder
  \/ \E frames \in Seq(Frames), items \in {0, 1}, ends \in BOOLEAN : Publishes(frames, items, ends)

Effect == RequesterEffect \/ ResponderEffect

-----------------------------------------------------------------------------
(* Every step has one of the effects. *)

\* What the two ends send is a sequence of frames.
LEMMA FramesType ==
  /\ \A n \in Nat, fragmented \in BOOLEAN : Request(n, fragmented) \in Seq(Frames)
  /\ \A complete, fragmented \in BOOLEAN : Payload(complete, fragmented) \in Seq(Frames)
  /\ <<PayloadFrame(FALSE, TRUE, FALSE)>> \in Seq(Frames)
  /\ <<CancelFrame>> \in Seq(Frames)
  /\ <<ErrorFrame>> \in Seq(Frames)
  /\ <<>> \in Seq(Frames)
  /\ \A n \in Nat \ {0} : <<RequestNFrame(n)>> \in Seq(Frames)
<1>1. /\ \A n \in Nat, follows \in BOOLEAN : RequestFrame(n, follows) \in Frames
      /\ \A next, complete, follows \in BOOLEAN : PayloadFrame(next, complete, follows) \in Frames
      /\ \A n \in Nat \ {0} : RequestNFrame(n) \in Frames
      /\ CancelFrame \in Frames /\ ErrorFrame \in Frames
  BY DEF RequestFrame, PayloadFrame, CancelFrame, ErrorFrame, RequestNFrame, Frames
<1>2. ASSUME NEW f \in Frames, NEW g \in Frames
      PROVE  <<f>> \in Seq(Frames) /\ <<f, g>> \in Seq(Frames)
  OBVIOUS
<1>3. ASSUME NEW n \in Nat, NEW fragmented \in BOOLEAN
      PROVE  Request(n, fragmented) \in Seq(Frames)
  BY <1>1, <1>2 DEF Request
<1>4. ASSUME NEW complete \in BOOLEAN, NEW fragmented \in BOOLEAN
      PROVE  Payload(complete, fragmented) \in Seq(Frames)
  BY <1>1, <1>2 DEF Payload
<1>5. PayloadFrame(FALSE, TRUE, FALSE) \in Frames
  BY <1>1
<1>6. <<>> \in Seq(Frames)
  OBVIOUS
<1>7. ASSUME NEW n \in Nat \ {0}
      PROVE  <<RequestNFrame(n)>> \in Seq(Frames)
  BY <1>1, <1>2
<1>. QED
  BY <1>1, <1>2, <1>3, <1>4, <1>5, <1>6, <1>7, Zenon

\* What Transfer does to the two pipes.
LEMMA TransferEffect ==
  ASSUME TypeOK, NEW p \in Peers, NEW takes \in BOOLEAN, NEW frames \in Seq(Frames),
         Transfer(p, takes, frames), takes => pipe[p] # <<>>
  PROVE  /\ pipe' \in [Peers -> Seq(Frames)]
         /\ pipe'[p] = IF takes THEN Tail(pipe[p]) ELSE pipe[p]
         /\ pipe'[Other(p)] = After(pipe[Other(p)], frames)
<1>. USE DEF Peers, Other, Requester, Responder
<1>1. PICK q \in Peers : q = Other(p)
  OBVIOUS
<1>2. pipe[p] \in Seq(Frames) /\ pipe[q] \in Seq(Frames) /\ p # q
  BY <1>1 DEF TypeOK
<1>3. pipe' = [pipe EXCEPT ![p] = IF takes THEN Tail(pipe[p]) ELSE pipe[p],
                           ![q] = After(pipe[q], frames)]
  BY <1>1 DEF Transfer, TypeOK, After, IsOpen
<1>4. Tail(pipe[p]) \in Seq(Frames) \/ ~takes
  BY <1>2
<1>5. After(pipe[q], frames) \in Seq(Frames)
  BY <1>2 DEF After
<1>. QED
  BY <1>1, <1>2, <1>3, <1>4, <1>5 DEF TypeOK

\* The frame a peer takes is one of the frames.
LEMMA HeadType ==
  ASSUME TypeOK, NEW p \in Peers, pipe[p] # <<>>
  PROVE  Head(pipe[p]) \in Frames
<1>1. pipe[p] \in Seq(Frames)
  BY DEF TypeOK
<1>. QED
  BY <1>1

\* What is sent with nothing leaves the pipe as it is.
LEMMA AfterNothing ==
  ASSUME TypeOK, NEW p \in Peers
  PROVE  After(pipe[p], <<>>) = pipe[p]
<1>1. pipe[p] \in Seq(Frames)
  BY DEF TypeOK
<1>. QED
  BY <1>1 DEF After

Signals == {"next", "complete", "error"}

\* The sequences of signals that a step adds.
LEMMA SignalsType ==
  /\ <<"next">> \in Seq(Signals) /\ <<"complete">> \in Seq(Signals)
  /\ <<"error">> \in Seq(Signals) /\ <<"next", "complete">> \in Seq(Signals)
  /\ <<>> \in Seq(Signals)
BY DEF Signals

\* A signal is appended, and changes nothing else of the subscriber.
LEMMA SignalEffect ==
  ASSUME TypeOK, NEW s \in Seq(Signals), Signal(s)
  PROVE  /\ Signalled(s)
         /\ subscriber' \in [signals : Seq({"next", "complete", "error"}), demand : Nat, cancelled : BOOLEAN]
<1>1. subscriber.signals \in Seq(Signals)
  BY DEF TypeOK, Signals
<1>2. subscriber.signals \o s \in Seq(Signals)
  BY <1>1
<1>. QED
  BY <1>2 DEF TypeOK, Signal, Signalled, Signals

\* What a payload frame signals is an item, a completion, both or neither.
LEMMA SignalsOfType ==
  ASSUME NEW frame
  PROVE  SignalsOf(frame) \in Seq(Signals)
<1>1. (IF frame.next THEN <<"next">> ELSE <<>>) \in Seq(Signals)
  BY SignalsType
<1>2. (IF frame.complete THEN <<"complete">> ELSE <<>>) \in Seq(Signals)
  BY SignalsType
<1>. QED
  BY <1>1, <1>2, ConcatProperties DEF SignalsOf

\* An item and the completion in one are an item and then the completion.
LEMMA NextComplete ==
  /\ <<"next">> \o <<"complete">> = <<"next", "complete">>
  /\ <<>> \o <<"complete">> = <<"complete">>
<1>1. PICK s : s = <<"next">> \o <<"complete">>
  OBVIOUS
<1>2. PICK t : t = <<"next", "complete">>
  OBVIOUS
<1>3. <<"next">> \in Seq(Signals) /\ <<"complete">> \in Seq(Signals)
  BY DEF Signals
<1>4. s \in Seq(Signals)
  BY <1>1, <1>3, ConcatProperties
<1>5. Len(s) = 2 /\ s[1] = "next" /\ s[2] = "complete"
  BY <1>1, <1>3, <1>4
<1>6. t \in Seq(Signals) /\ Len(t) = 2 /\ t[1] = "next" /\ t[2] = "complete"
  BY <1>2 DEF Signals
<1>7. \A i \in 1 .. Len(s) : s[i] = t[i]
  BY <1>5, <1>6
<1>8. s = t
  BY <1>4, <1>5, <1>6, <1>7, SeqEqual
<1>. QED
  BY <1>1, <1>2, <1>3, <1>8, ConcatEmptySeq

\* A step of RequestStream has one of the effects: what each handler of
\* RequestStreamRequesterStream and RequestStreamResponderStream does to a stream.
LEMMA StreamSteps ==
  ASSUME TypeOK, kind = "stream", kind' = kind, Stream!Next
  PROVE  TypeOK' /\ Effect
<1>. USE StreamAssumption DEF TypeOK, StreamFields, Peers, Requester, Responder, Stream!Requester, Stream!Responder
<1>0. /\ stream \in [Peers -> StreamFields]
      /\ subscriber \in [signals : Seq({"next", "complete", "error"}), demand : Nat, cancelled : BOOLEAN]
      /\ publisher \in [handled : Nat, credit : Nat, published : Nat, ended : BOOLEAN, cancels : Nat]
  OBVIOUS
<1>1. ASSUME Stream!HandleReady
      PROVE  TypeOK' /\ Effect
  <2>1. PICK fragmented \in Fragmented :
            Stream!Send(Requester, Stream!Request(stream[Requester].initialRequestN, fragmented))
    BY <1>1 DEF Stream!HandleReady
  <2>2. Transfer(Requester, FALSE, Request(stream[Requester].initialRequestN, fragmented))
    BY <2>1 DEF Stream!Send, Stream!Transfer, Transfer, Stream!Other, Other, Stream!Request, Request, Stream!RequestFrame, RequestFrame, Stream!PayloadFrame, PayloadFrame
  <2>3. Request(stream[Requester].initialRequestN, fragmented) \in Seq(Frames)
    BY <2>1, FramesType
  <2>4. /\ pipe' \in [Peers -> Seq(Frames)]
        /\ pipe'[Requester] = pipe[Requester]
        /\ pipe'[Responder] = After(pipe[Responder], Request(stream[Requester].initialRequestN, fragmented))
    BY <2>2, <2>3, TransferEffect DEF Other
  <2>5. TypeOK'
    BY ZenonT(40), <1>1, <2>4 DEF Stream!HandleReady, Stream!Connect, Stream!IsNew
  <2>6. Asks(stream[Requester].initialRequestN, fragmented)
    BY <1>1, <2>4 DEF Stream!HandleReady, Stream!Connect, Stream!IsNew, Asks, SameResponder, SameAnswerer, asker, answerer
  <2>7. \E n \in Nat, f \in BOOLEAN : Asks(n, f)
    BY ONLY <2>6 DEF Asks
  <2>. QED
    BY ONLY <2>5, <2>7, Zenon DEF Effect, RequesterEffect
<1>2. ASSUME Stream!HandleReadyExtension
      PROVE  TypeOK' /\ Effect
  <2>1. PICK fragmented \in Fragmented :
            Stream!Send(Requester, Stream!Request(stream[Requester].initialRequestN, fragmented))
    BY <1>2 DEF Stream!HandleReadyExtension
  <2>2. Transfer(Requester, FALSE, Request(stream[Requester].initialRequestN, fragmented))
    BY <2>1 DEF Stream!Send, Stream!Transfer, Transfer, Stream!Other, Other, Stream!Request, Request, Stream!RequestFrame, RequestFrame, Stream!PayloadFrame, PayloadFrame
  <2>3. Request(stream[Requester].initialRequestN, fragmented) \in Seq(Frames)
    BY <2>1, FramesType
  <2>4. /\ pipe' \in [Peers -> Seq(Frames)]
        /\ pipe'[Requester] = pipe[Requester]
        /\ pipe'[Responder] = After(pipe[Responder], Request(stream[Requester].initialRequestN, fragmented))
    BY <2>2, <2>3, TransferEffect DEF Other
  <2>5. Signal(<<"error">>) /\ <<"error">> \in Seq(Signals)
    BY <1>2, SignalsType DEF Stream!HandleReadyExtension, Stream!Signal, Signal
  <2>6. /\ Signalled(<<"error">>)
        /\ subscriber' \in [signals : Seq({"next", "complete", "error"}), demand : Nat, cancelled : BOOLEAN]
    BY <2>5, SignalEffect
  <2>7. TypeOK'
    <3>1. stream' \in [Peers -> StreamFields]
      <4>1. stream' = [stream EXCEPT ![Requester] = [[@ EXCEPT !.done = TRUE, !.hasFragments = FALSE] EXCEPT !.phase = "ready"]]
        BY <1>2, <2>4, <2>6 DEF Stream!HandleReadyExtension, Stream!Connect, Stream!IsNew, Stream!Finished
      <4>. QED
        BY ONLY ZenonT(40), <1>0, <4>1 DEF Peers, StreamFields, Requester, Responder
    <3>2. registered' \in [Peers -> BOOLEAN] /\ connected' \in [Peers -> BOOLEAN]
      BY <1>2, <2>4, <2>6 DEF Stream!HandleReadyExtension, Stream!Connect, Stream!IsNew, Stream!Finished
    <3>3. publisher' \in [handled : Nat, credit : Nat, published : Nat, ended : BOOLEAN, cancels : Nat]
      BY <1>2, <2>4, <2>6 DEF Stream!HandleReadyExtension, Stream!Connect, Stream!IsNew, Stream!Finished
    <3>4. subscriber' \in [signals : Seq({"next", "complete", "error"}), demand : Nat, cancelled : BOOLEAN]
      BY <1>2, <2>4, <2>6 DEF Stream!HandleReadyExtension, Stream!Connect, Stream!IsNew, Stream!Finished
    <3>. QED
      BY <3>1, <3>2, <3>3, <3>4, <1>2, <2>4, <2>6
  <2>8. Asks(stream[Requester].initialRequestN, fragmented)
    BY <1>2, <2>4, <2>6 DEF Stream!HandleReadyExtension, Stream!Connect, Stream!IsNew, Stream!Finished, Asks, SameResponder, SameAnswerer, asker, answerer
  <2>9. \E n \in Nat, f \in BOOLEAN : Asks(n, f)
    BY ONLY <2>8 DEF Asks
  <2>. QED
    BY ONLY <2>7, <2>9, Zenon DEF Effect, RequesterEffect
<1>3. ASSUME Stream!OnExtensionUnready
      PROVE  TypeOK' /\ Effect
  <2>1. TypeOK'
    BY ZenonT(40), <1>3 DEF Stream!OnExtensionUnready, Stream!IsNew
  <2>2. subscriber.demand + 0 = subscriber.demand /\ stream[Requester].initialRequestN + 0 = stream[Requester].initialRequestN /\ 0 \in Nat
    OBVIOUS
  <2>3. Waits
    BY <1>3, <2>2 DEF Stream!OnExtensionUnready, Stream!IsNew, Waits, SameResponder, SameAnswerer, asker, answerer
  <2>. QED
    BY <2>1, <2>3 DEF Effect, RequesterEffect
<1>4. ASSUME Stream!HandleReject
      PROVE  TypeOK' /\ Effect
  <2>1. Signal(<<"error">>) /\ <<"error">> \in Seq(Signals)
    BY <1>4, SignalsType DEF Stream!HandleReject, Stream!Signal, Signal
  <2>2. /\ Signalled(<<"error">>)
        /\ subscriber' \in [signals : Seq({"next", "complete", "error"}), demand : Nat, cancelled : BOOLEAN]
    BY <2>1, SignalEffect
  <2>3. TypeOK'
    <3>1. stream' \in [Peers -> StreamFields]
      <4>1. stream' = [stream EXCEPT ![Requester] = [@ EXCEPT !.done = TRUE, !.hasFragments = FALSE]]
        BY <1>4, <2>2 DEF Stream!HandleReject, Stream!IsNew, Stream!Finish, Stream!Finished
      <4>. QED
        BY ONLY ZenonT(40), <1>0, <4>1 DEF Peers, StreamFields, Requester, Responder
    <3>2. registered' \in [Peers -> BOOLEAN] /\ connected' \in [Peers -> BOOLEAN]
      BY <1>4, <2>2 DEF Stream!HandleReject, Stream!IsNew, Stream!Finish, Stream!Finished
    <3>3. publisher' \in [handled : Nat, credit : Nat, published : Nat, ended : BOOLEAN, cancels : Nat]
      BY <1>4, <2>2 DEF Stream!HandleReject, Stream!IsNew, Stream!Finish, Stream!Finished
    <3>4. subscriber' \in [signals : Seq({"next", "complete", "error"}), demand : Nat, cancelled : BOOLEAN]
      BY <1>4, <2>2 DEF Stream!HandleReject, Stream!IsNew, Stream!Finish, Stream!Finished
    <3>. QED
      BY <3>1, <3>2, <3>3, <3>4, <1>4, <2>2 DEF Stream!HandleReject, Stream!IsNew, Stream!Finish, Stream!Finished
  <2>4. Waits
    BY <1>4, <2>2 DEF Stream!HandleReject, Stream!IsNew, Stream!Finish, Stream!Finished, Waits, SameResponder, SameAnswerer, asker, answerer
  <2>. QED
    BY <2>3, <2>4 DEF Effect, RequesterEffect
<1>5. ASSUME NEW n \in 1 .. MaxDemand - subscriber.demand, Stream!RequestUnready(n)
      PROVE  TypeOK' /\ Effect
  <2>1. TypeOK'
    <3>1. stream' \in [Peers -> StreamFields]
      <4>1. stream' = [stream EXCEPT ![Requester].initialRequestN = @ + n]
        BY <1>5 DEF Stream!RequestUnready, Stream!IsNew
      <4>2. stream[Requester].initialRequestN + n \in Nat
        BY SMTT(40), <1>5
      <4>. QED
        BY ONLY ZenonT(40), <1>0, <4>1, <4>2 DEF Peers, StreamFields, Requester, Responder
    <3>2. registered' \in [Peers -> BOOLEAN] /\ connected' \in [Peers -> BOOLEAN]
      BY <1>5 DEF Stream!RequestUnready, Stream!IsNew
    <3>3. publisher' \in [handled : Nat, credit : Nat, published : Nat, ended : BOOLEAN, cancels : Nat]
      BY <1>5 DEF Stream!RequestUnready, Stream!IsNew
    <3>4. subscriber' \in [signals : Seq({"next", "complete", "error"}), demand : Nat, cancelled : BOOLEAN]
      <4>1. subscriber' = [subscriber EXCEPT !.demand = @ + n]
        BY <1>5 DEF Stream!RequestUnready, Stream!IsNew
      <4>2. subscriber.demand + n \in Nat
        BY SMTT(40), <1>5
      <4>. QED
        BY ONLY <1>0, <4>1, <4>2
    <3>. QED
      BY <3>1, <3>2, <3>3, <3>4, <1>5 DEF Stream!RequestUnready, Stream!IsNew
  <2>2. Waits
    BY <1>5 DEF Stream!RequestUnready, Stream!IsNew, Waits, SameResponder, SameAnswerer, asker, answerer
  <2>. QED
    BY <2>1, <2>2 DEF Effect, RequesterEffect
<1>6. ASSUME Stream!CancelUnready
      PROVE  TypeOK' /\ Effect
  <2>1. TypeOK'
    BY ZenonT(40), <1>6 DEF Stream!CancelUnready, Stream!IsNew, Stream!Finish, Stream!Finished
  <2>2. Waits
    BY <1>6 DEF Stream!CancelUnready, Stream!IsNew, Stream!Finish, Stream!Finished, Waits, SameResponder, SameAnswerer, asker, answerer
  <2>. QED
    BY <2>1, <2>2 DEF Effect, RequesterEffect
<1>7. ASSUME NEW n \in 1 .. MaxDemand - subscriber.demand, Stream!RequestMore(n)
      PROVE  TypeOK' /\ Effect
  <2>1. Transfer(Requester, FALSE, <<RequestNFrame(n)>>)
    BY <1>7 DEF Stream!Send, Stream!Transfer, Transfer, Stream!Other, Other, Stream!RequestMore, Stream!RequestNFrame, RequestNFrame
  <2>2. <<RequestNFrame(n)>> \in Seq(Frames)
    BY FramesType
  <2>3. /\ pipe' \in [Peers -> Seq(Frames)]
        /\ pipe'[Requester] = pipe[Requester]
        /\ pipe'[Responder] = After(pipe[Responder], <<RequestNFrame(n)>>)
    BY <2>1, <2>2, TransferEffect DEF Other
  <2>4. TypeOK'
    <3>1. stream' \in [Peers -> StreamFields]
      BY <1>7, <2>3 DEF Stream!RequestMore, Stream!IsActive
    <3>2. registered' \in [Peers -> BOOLEAN] /\ connected' \in [Peers -> BOOLEAN]
      BY <1>7, <2>3 DEF Stream!RequestMore, Stream!IsActive
    <3>3. publisher' \in [handled : Nat, credit : Nat, published : Nat, ended : BOOLEAN, cancels : Nat]
      BY <1>7, <2>3 DEF Stream!RequestMore, Stream!IsActive
    <3>4. subscriber' \in [signals : Seq({"next", "complete", "error"}), demand : Nat, cancelled : BOOLEAN]
      <4>1. subscriber' = [subscriber EXCEPT !.demand = @ + n]
        BY <1>7, <2>3 DEF Stream!RequestMore, Stream!IsActive
      <4>2. subscriber.demand + n \in Nat
        BY SMTT(40), <1>7, <2>3
      <4>. QED
        BY ONLY <1>0, <4>1, <4>2
    <3>. QED
      BY <3>1, <3>2, <3>3, <3>4, <1>7, <2>3
  <2>5. AsksMore(n)
    BY SMTT(40), <1>7, <2>3 DEF Stream!RequestMore, Stream!IsActive, AsksMore, SameAsker, SameResponder, SameAnswerer, asker, answerer
  <2>. QED
    BY <2>4, <2>5 DEF Effect, RequesterEffect
<1>8. ASSUME Stream!Cancel
      PROVE  TypeOK' /\ Effect
  <2>1. Transfer(Requester, FALSE, <<CancelFrame>>)
    BY <1>8 DEF Stream!Send, Stream!Transfer, Transfer, Stream!Other, Other, Stream!Cancel, Stream!CancelFrame, CancelFrame
  <2>2. <<CancelFrame>> \in Seq(Frames)
    BY FramesType
  <2>3. /\ pipe' \in [Peers -> Seq(Frames)]
        /\ pipe'[Requester] = pipe[Requester]
        /\ pipe'[Responder] = After(pipe[Responder], <<CancelFrame>>)
    BY <2>1, <2>2, TransferEffect DEF Other
  <2>4. TypeOK'
    BY ZenonT(40), <1>8, <2>3 DEF Stream!Cancel, Stream!IsActive, Stream!Finish, Stream!Finished, Stream!Disconnect
  <2>5. Cancels
    BY <1>8, <2>3 DEF Stream!Cancel, Stream!IsActive, Stream!Finish, Stream!Finished, Stream!Disconnect, Cancels, SameResponder, SameAnswerer, asker, answerer
  <2>. QED
    BY <2>4, <2>5 DEF Effect, RequesterEffect
<1>9. ASSUME Stream!HandleFragment
      PROVE  TypeOK' /\ Effect
  <2>1. Transfer(Requester, TRUE, <<>>)
    BY <1>9 DEF Stream!Reply, Stream!Transfer, Transfer, Stream!Other, Other, Stream!HandleFragment
  <2>2. pipe[Requester] # <<>> /\ Head(pipe[Requester]) \in Frames
    BY <1>9, HeadType DEF Stream!HandleFragment, Stream!Routed, Stream!Received
  <2>3. <<>> \in Seq(Frames)
    BY FramesType
  <2>4. /\ pipe' \in [Peers -> Seq(Frames)]
        /\ pipe'[Requester] = Tail(pipe[Requester])
        /\ pipe'[Responder] = pipe[Responder]
    BY <2>1, <2>2, <2>3, TransferEffect, AfterNothing DEF Other
  <2>5. TypeOK'
    BY ZenonT(40), <1>9, <2>2, <2>4 DEF Stream!HandleFragment, Stream!Routed, Stream!Received
  <2>6. TakesFragment
    BY ZenonT(40), <1>9, <2>2, <2>4 DEF Stream!HandleFragment, Stream!Routed, Stream!Received, TakesFragment, TakesAtRequester, SameAsker, SameResponder, SameAnswerer, asker, answerer
  <2>. QED
    BY <2>5, <2>6 DEF Effect, RequesterEffect
<1>10. ASSUME Stream!HandlePayload
      PROVE  TypeOK' /\ Effect
  <2>1. Transfer(Requester, TRUE, <<>>)
    BY <1>10 DEF Stream!Reply, Stream!Transfer, Transfer, Stream!Other, Other, Stream!HandlePayload
  <2>2. pipe[Requester] # <<>> /\ Head(pipe[Requester]) \in Frames
    BY <1>10, HeadType DEF Stream!HandlePayload, Stream!Routed, Stream!Received
  <2>3. Signal(SignalsOf(Head(pipe[Requester])))
    BY <1>10 DEF Stream!HandlePayload, Stream!Signal, Signal, SignalsOf
  <2>4. /\ pipe' \in [Peers -> Seq(Frames)]
        /\ pipe'[Requester] = Tail(pipe[Requester]) /\ pipe'[Responder] = pipe[Responder]
    BY <2>1, <2>2, FramesType, TransferEffect, AfterNothing DEF Other
  <2>5. /\ Signalled(SignalsOf(Head(pipe[Requester])))
        /\ subscriber' \in [signals : Seq({"next", "complete", "error"}), demand : Nat, cancelled : BOOLEAN]
    BY <2>3, SignalsOfType, SignalEffect
  <2>6. PICK c \in BOOLEAN : c = Head(pipe[Requester]).complete
    BY <1>10, <2>2 DEF Stream!HandlePayload, Stream!Routed, Stream!Received, Frames
  <2>7. PICK x \in BOOLEAN : x = Head(pipe[Requester]).next
    BY <1>10, <2>2 DEF Stream!HandlePayload, Stream!Routed, Stream!Received, Frames
  <2>7a. PICK d \in BOOLEAN : d = (stream[Requester].done \/ c)
    <3>1. (stream[Requester].done \/ c) \in BOOLEAN
      BY <1>0, <2>6
    <3>. QED
      BY <3>1, Zenon
  <2>8. /\ stream' = [stream EXCEPT ![Requester].done = d, ![Requester].hasFragments = @ /\ ~x]
        /\ registered' = [registered EXCEPT ![Requester] = @ /\ ~c]
        /\ connected' = connected /\ publisher' = publisher
        /\ registered[Requester] /\ Head(pipe[Requester]).type = "PAYLOAD" /\ ~Head(pipe[Requester]).follows
    BY <1>10, <2>6, <2>7, <2>7a DEF Stream!HandlePayload, Stream!Routed, Stream!Received, Stream!Disconnect
  <2>9. stream' \in [Peers -> StreamFields]
    BY ONLY ZenonT(40), <1>0, <2>8 DEF Peers, StreamFields, Requester, Responder
  <2>10. TypeOK'
    BY <2>4, <2>5, <2>8, <2>9
  <2>11. TakesPayload
    BY ZenonT(40), <2>2, <2>4, <2>5, <2>6, <2>7a, <2>8 DEF TakesPayload, TakesAtRequester, SameResponder, SameAnswerer, asker, answerer
  <2>. QED
    BY <2>10, <2>11 DEF Effect, RequesterEffect
<1>11. ASSUME Stream!HandleError
      PROVE  TypeOK' /\ Effect
  <2>1. Transfer(Requester, TRUE, <<>>)
    BY <1>11 DEF Stream!Reply, Stream!Transfer, Transfer, Stream!Other, Other, Stream!HandleError
  <2>2. pipe[Requester] # <<>> /\ Head(pipe[Requester]) \in Frames
    BY <1>11, HeadType DEF Stream!HandleError, Stream!Routed, Stream!Received
  <2>3. <<>> \in Seq(Frames)
    BY FramesType
  <2>4. /\ pipe' \in [Peers -> Seq(Frames)]
        /\ pipe'[Requester] = Tail(pipe[Requester])
        /\ pipe'[Responder] = pipe[Responder]
    BY <2>1, <2>2, <2>3, TransferEffect, AfterNothing DEF Other
  <2>5. Signal(<<"error">>) /\ <<"error">> \in Seq(Signals)
    BY <1>11, SignalsType DEF Stream!HandleError, Stream!Signal, Signal
  <2>6. /\ Signalled(<<"error">>)
        /\ subscriber' \in [signals : Seq({"next", "complete", "error"}), demand : Nat, cancelled : BOOLEAN]
    BY <2>5, SignalEffect
  <2>7. TypeOK'
    <3>1. stream' \in [Peers -> StreamFields]
      <4>1. stream' = [stream EXCEPT ![Requester] = [@ EXCEPT !.done = TRUE, !.hasFragments = FALSE]]
        BY <1>11, <2>2, <2>4, <2>6 DEF Stream!HandleError, Stream!Routed, Stream!Received, Stream!Disconnect, Stream!Finish, Stream!Finished
      <4>. QED
        BY ONLY ZenonT(40), <1>0, <4>1 DEF Peers, StreamFields, Requester, Responder
    <3>2. registered' \in [Peers -> BOOLEAN] /\ connected' \in [Peers -> BOOLEAN]
      BY <1>11, <2>2, <2>4, <2>6 DEF Stream!HandleError, Stream!Routed, Stream!Received, Stream!Disconnect, Stream!Finish, Stream!Finished
    <3>3. publisher' \in [handled : Nat, credit : Nat, published : Nat, ended : BOOLEAN, cancels : Nat]
      BY <1>11, <2>2, <2>4, <2>6 DEF Stream!HandleError, Stream!Routed, Stream!Received, Stream!Disconnect, Stream!Finish, Stream!Finished
    <3>4. subscriber' \in [signals : Seq({"next", "complete", "error"}), demand : Nat, cancelled : BOOLEAN]
      BY <1>11, <2>2, <2>4, <2>6 DEF Stream!HandleError, Stream!Routed, Stream!Received, Stream!Disconnect, Stream!Finish, Stream!Finished
    <3>. QED
      BY <3>1, <3>2, <3>3, <3>4, <1>11, <2>2, <2>4, <2>6
  <2>8. TakesError
    BY ZenonT(40), <1>11, <2>2, <2>4, <2>6 DEF Stream!HandleError, Stream!Routed, Stream!Received, Stream!Disconnect, Stream!Finish, Stream!Finished, TakesError, TakesAtRequester, SameResponder, SameAnswerer, asker, answerer
  <2>. QED
    BY <2>7, <2>8 DEF Effect, RequesterEffect
<1>12. ASSUME Stream!CloseRequester
      PROVE  TypeOK' /\ Effect
  <2>1. /\ connected[Requester] /\ connected' = [connected EXCEPT ![Requester] = FALSE]
        /\ pipe' = [pipe EXCEPT ![Requester] = <<>>]
        /\ registered' = registered /\ publisher' = publisher
    BY <1>12 DEF Stream!CloseRequester, Stream!Hangup
  <2>2. /\ pipe' \in [Peers -> Seq(Frames)] /\ connected' \in [Peers -> BOOLEAN]
        /\ pipe'[Requester] = <<>> /\ pipe'[Responder] = pipe[Responder]
        /\ ~connected'[Requester] /\ connected'[Responder] = connected[Responder]
    BY <2>1
  <2>3. CASE registered[Requester]
    <3>1. /\ Signal(<<"error">>) /\ <<"error">> \in Seq(Signals)
          /\ stream' = [stream EXCEPT ![Requester] = [@ EXCEPT !.done = TRUE, !.hasFragments = FALSE]]
      BY <1>12, <2>3, SignalsType DEF Stream!CloseRequester, Stream!Signal, Signal, Stream!Finish, Stream!Finished
    <3>2. /\ Signalled(<<"error">>)
          /\ subscriber' \in [signals : Seq({"next", "complete", "error"}), demand : Nat, cancelled : BOOLEAN]
      BY <3>1, SignalEffect
    <3>3. TypeOK'
      BY ZenonT(40), <2>1, <2>2, <3>1, <3>2
    <3>4. ClosesRequester
      BY <2>1, <2>2, <2>3, <3>1, <3>2 DEF ClosesRequester, SameResponder, SameAnswerer, asker, answerer
    <3>. QED
      BY <3>3, <3>4 DEF Effect, RequesterEffect
  <2>4. CASE ~registered[Requester]
    <3>1. stream' = stream /\ subscriber' = subscriber
      BY <1>12, <2>4 DEF Stream!CloseRequester
    <3>2. TypeOK'
      BY <2>1, <2>2, <3>1
    <3>3. ClosesRequester
      BY <2>1, <2>2, <3>1 DEF ClosesRequester, SameAsker, SameResponder, SameAnswerer, asker, answerer
    <3>. QED
      BY <3>2, <3>3 DEF Effect, RequesterEffect
  <2>. QED
    BY <2>3, <2>4
<1>13. ASSUME Stream!DropFrame(Requester)
      PROVE  TypeOK' /\ Effect
  <2>1. Transfer(Requester, TRUE, <<>>)
    BY <1>13 DEF Stream!Reply, Stream!Transfer, Transfer, Stream!Other, Other, Stream!DropFrame
  <2>2. pipe[Requester] # <<>> /\ Head(pipe[Requester]) \in Frames
    BY <1>13, HeadType DEF Stream!DropFrame, Stream!Routed, Stream!Received
  <2>3. <<>> \in Seq(Frames)
    BY FramesType
  <2>4. /\ pipe' \in [Peers -> Seq(Frames)]
        /\ pipe'[Requester] = Tail(pipe[Requester])
        /\ pipe'[Responder] = pipe[Responder]
    BY <2>1, <2>2, <2>3, TransferEffect, AfterNothing DEF Other
  <2>5. TypeOK'
    BY <1>13, <2>2, <2>4 DEF Stream!DropFrame
  <2>6. DropsAtRequester
    BY <1>13, <2>2, <2>4 DEF Stream!DropFrame, DropsAtRequester, TakesAtRequester, SameAsker, SameResponder, SameAnswerer, asker, answerer
  <2>. QED
    BY <2>5, <2>6 DEF Effect, RequesterEffect
<1>14. ASSUME Stream!DropFrame(Responder)
      PROVE  TypeOK' /\ Effect
  <2>1. Transfer(Responder, TRUE, <<>>)
    BY <1>14 DEF Stream!Reply, Stream!Transfer, Transfer, Stream!Other, Other, Stream!DropFrame
  <2>2. pipe[Responder] # <<>> /\ Head(pipe[Responder]) \in Frames
    BY <1>14, HeadType DEF Stream!DropFrame, Stream!Routed, Stream!Received
  <2>3. <<>> \in Seq(Frames)
    BY FramesType
  <2>4. /\ pipe' \in [Peers -> Seq(Frames)]
        /\ pipe'[Responder] = Tail(pipe[Responder])
        /\ pipe'[Requester] = After(pipe[Requester], <<>>)
    BY <2>1, <2>2, <2>3, TransferEffect DEF Other
  <2>5. TypeOK'
    BY <1>14, <2>2, <2>4 DEF Stream!DropFrame
  <2>6. DropsAtResponder
    BY <1>14, <2>2, <2>4 DEF Stream!DropFrame, DropsAtResponder, TakesAtResponder, SameRequester, SameAnswerer, asker, answerer
  <2>. QED
    BY <2>5, <2>6 DEF Effect, ResponderEffect
<1>15. ASSUME Stream!HandleRequest
      PROVE  TypeOK' /\ Effect
  <2>1. Transfer(Responder, TRUE, <<>>)
    BY <1>15 DEF Stream!Reply, Stream!Transfer, Transfer, Stream!Other, Other, Stream!HandleRequest, Stream!CallHandler
  <2>2. pipe[Responder] # <<>> /\ Head(pipe[Responder]) \in Frames
    BY <1>15, HeadType DEF Stream!HandleRequest, Stream!Routed, Stream!Received
  <2>3. <<>> \in Seq(Frames)
    BY FramesType
  <2>4. /\ pipe' \in [Peers -> Seq(Frames)]
        /\ pipe'[Responder] = Tail(pipe[Responder])
        /\ pipe'[Requester] = After(pipe[Requester], <<>>)
    BY <2>1, <2>2, <2>3, TransferEffect DEF Other
  <2>5. Head(pipe[Responder]).requestN \in Nat
    BY <1>15, <2>2 DEF Stream!HandleRequest, Frames, Stream!Received, Stream!Routed
  <2>6. TypeOK'
    <3>1. stream' \in [Peers -> StreamFields]
      <4>1. stream' = [stream EXCEPT ![Responder].phase = "handler", ![Responder].hasFragments = FALSE]
        BY <1>15, <2>2, <2>4, <2>5 DEF Stream!HandleRequest, Stream!Received, Stream!Connect, Stream!CallHandler
      <4>. QED
        BY ONLY ZenonT(40), <1>0, <4>1 DEF Peers, StreamFields, Requester, Responder
    <3>2. registered' \in [Peers -> BOOLEAN] /\ connected' \in [Peers -> BOOLEAN]
      BY <1>15, <2>2, <2>4, <2>5 DEF Stream!HandleRequest, Stream!Received, Stream!Connect, Stream!CallHandler
    <3>3. publisher' \in [handled : Nat, credit : Nat, published : Nat, ended : BOOLEAN, cancels : Nat]
      <4>1. publisher' = [publisher EXCEPT !.handled = @ + 1, !.credit = Head(pipe[Responder]).requestN]
        BY <1>15, <2>2, <2>4, <2>5 DEF Stream!HandleRequest, Stream!Received, Stream!Connect, Stream!CallHandler
      <4>2. publisher.handled + 1 \in Nat /\ Head(pipe[Responder]).requestN \in Nat
        BY SMTT(40), <1>15, <2>2, <2>4, <2>5
      <4>. QED
        BY ONLY <1>0, <4>1, <4>2
    <3>4. subscriber' \in [signals : Seq({"next", "complete", "error"}), demand : Nat, cancelled : BOOLEAN]
      BY <1>15, <2>2, <2>4, <2>5 DEF Stream!HandleRequest, Stream!Received, Stream!Connect, Stream!CallHandler
    <3>. QED
      BY <3>1, <3>2, <3>3, <3>4, <1>15, <2>2, <2>4, <2>5
  <2>7. CallsHandler(Head(pipe[Responder]).requestN)
    BY ZenonT(40), <1>15, <2>2, <2>4, <2>5 DEF Stream!HandleRequest, Stream!Received, Stream!Connect, Stream!CallHandler, CallsHandler, TakesAtResponder, SameRequester, asker, answerer
  <2>. QED
    BY <2>6, <2>5, <2>7 DEF Effect, ResponderEffect
<1>16. ASSUME Stream!HandleFirstFragment
      PROVE  TypeOK' /\ Effect
  <2>1. Transfer(Responder, TRUE, <<>>)
    BY <1>16 DEF Stream!Reply, Stream!Transfer, Transfer, Stream!Other, Other, Stream!HandleFirstFragment
  <2>2. pipe[Responder] # <<>> /\ Head(pipe[Responder]) \in Frames
    BY <1>16, HeadType DEF Stream!HandleFirstFragment, Stream!Routed, Stream!Received
  <2>3. <<>> \in Seq(Frames)
    BY FramesType
  <2>4. /\ pipe' \in [Peers -> Seq(Frames)]
        /\ pipe'[Responder] = Tail(pipe[Responder])
        /\ pipe'[Requester] = After(pipe[Requester], <<>>)
    BY <2>1, <2>2, <2>3, TransferEffect DEF Other
  <2>5. Head(pipe[Responder]).requestN \in Nat
    BY <1>16, <2>2 DEF Stream!HandleFirstFragment, Frames, Stream!Received, Stream!Routed
  <2>6. TypeOK'
    <3>1. stream' \in [Peers -> StreamFields]
      <4>1. stream' = [stream EXCEPT ![Responder].phase = "assembling", ![Responder].hasFragments = TRUE, ![Responder].initialRequestN = Head(pipe[Responder]).requestN]
        BY <1>16, <2>2, <2>4, <2>5 DEF Stream!HandleFirstFragment, Stream!Received, Stream!Connect
      <4>2. Head(pipe[Responder]).requestN \in Nat
        BY <1>16, <2>2, <2>4, <2>5
      <4>. QED
        BY ONLY ZenonT(40), <1>0, <4>1, <4>2 DEF Peers, StreamFields, Requester, Responder
    <3>2. registered' \in [Peers -> BOOLEAN] /\ connected' \in [Peers -> BOOLEAN]
      BY <1>16, <2>2, <2>4, <2>5 DEF Stream!HandleFirstFragment, Stream!Received, Stream!Connect
    <3>3. publisher' \in [handled : Nat, credit : Nat, published : Nat, ended : BOOLEAN, cancels : Nat]
      BY <1>16, <2>2, <2>4, <2>5 DEF Stream!HandleFirstFragment, Stream!Received, Stream!Connect
    <3>4. subscriber' \in [signals : Seq({"next", "complete", "error"}), demand : Nat, cancelled : BOOLEAN]
      BY <1>16, <2>2, <2>4, <2>5 DEF Stream!HandleFirstFragment, Stream!Received, Stream!Connect
    <3>. QED
      BY <3>1, <3>2, <3>3, <3>4, <1>16, <2>2, <2>4, <2>5
  <2>7. TakesFirstFragment
    BY ZenonT(40), <1>16, <2>2, <2>4, <2>5 DEF Stream!HandleFirstFragment, Stream!Received, Stream!Connect, TakesFirstFragment, TakesAtResponder, SameRequester, asker, answerer
  <2>. QED
    BY <2>6, <2>5, <2>7 DEF Effect, ResponderEffect
<1>17. ASSUME Stream!HandleLastFragment
      PROVE  TypeOK' /\ Effect
  <2>1. Transfer(Responder, TRUE, <<>>)
    BY <1>17 DEF Stream!Reply, Stream!Transfer, Transfer, Stream!Other, Other, Stream!HandleLastFragment, Stream!CallHandler
  <2>2. pipe[Responder] # <<>> /\ Head(pipe[Responder]) \in Frames
    BY <1>17, HeadType DEF Stream!HandleLastFragment, Stream!Routed, Stream!Received
  <2>3. <<>> \in Seq(Frames)
    BY FramesType
  <2>4. /\ pipe' \in [Peers -> Seq(Frames)]
        /\ pipe'[Responder] = Tail(pipe[Responder])
        /\ pipe'[Requester] = After(pipe[Requester], <<>>)
    BY <2>1, <2>2, <2>3, TransferEffect DEF Other
  <2>5. TypeOK'
    <3>1. stream' \in [Peers -> StreamFields]
      <4>1. stream' = [stream EXCEPT ![Responder].phase = "handler", ![Responder].hasFragments = FALSE]
        BY <1>17, <2>2, <2>4 DEF Stream!HandleLastFragment, Stream!Routed, Stream!Received, Stream!Disconnect, Stream!CallHandler
      <4>. QED
        BY ONLY ZenonT(40), <1>0, <4>1 DEF Peers, StreamFields, Requester, Responder
    <3>2. registered' \in [Peers -> BOOLEAN] /\ connected' \in [Peers -> BOOLEAN]
      BY <1>17, <2>2, <2>4 DEF Stream!HandleLastFragment, Stream!Routed, Stream!Received, Stream!Disconnect, Stream!CallHandler
    <3>3. publisher' \in [handled : Nat, credit : Nat, published : Nat, ended : BOOLEAN, cancels : Nat]
      <4>1. publisher' = [publisher EXCEPT !.handled = @ + 1, !.credit = stream[Responder].initialRequestN]
        BY <1>17, <2>2, <2>4 DEF Stream!HandleLastFragment, Stream!Routed, Stream!Received, Stream!Disconnect, Stream!CallHandler
      <4>2. publisher.handled + 1 \in Nat /\ stream[Responder].initialRequestN \in Nat
        BY SMTT(40), <1>17, <2>2, <2>4
      <4>. QED
        BY ONLY <1>0, <4>1, <4>2
    <3>4. subscriber' \in [signals : Seq({"next", "complete", "error"}), demand : Nat, cancelled : BOOLEAN]
      BY <1>17, <2>2, <2>4 DEF Stream!HandleLastFragment, Stream!Routed, Stream!Received, Stream!Disconnect, Stream!CallHandler
    <3>. QED
      BY <3>1, <3>2, <3>3, <3>4, <1>17, <2>2, <2>4
  <2>6. CallsHandler(stream[Responder].initialRequestN)
    BY ZenonT(40), <1>17, <2>2, <2>4 DEF Stream!HandleLastFragment, Stream!Routed, Stream!Received, Stream!Disconnect, Stream!CallHandler, CallsHandler, TakesAtResponder, SameRequester, asker, answerer
  <2>. QED
    BY <2>5, <2>6 DEF Effect, ResponderEffect
<1>18. ASSUME Stream!RejectRequest
      PROVE  TypeOK' /\ Effect
  <2>1. Transfer(Responder, TRUE, <<ErrorFrame>>)
    BY <1>18 DEF Stream!Reply, Stream!Transfer, Transfer, Stream!Other, Other, Stream!RejectRequest, Stream!ErrorFrame, ErrorFrame
  <2>2. pipe[Responder] # <<>> /\ Head(pipe[Responder]) \in Frames
    BY <1>18, HeadType DEF Stream!RejectRequest, Stream!Routed, Stream!Received
  <2>3. <<ErrorFrame>> \in Seq(Frames)
    BY FramesType
  <2>4. /\ pipe' \in [Peers -> Seq(Frames)]
        /\ pipe'[Responder] = Tail(pipe[Responder])
        /\ pipe'[Requester] = After(pipe[Requester], <<ErrorFrame>>)
    BY <2>1, <2>2, <2>3, TransferEffect DEF Other
  <2>5. TypeOK'
    BY ZenonT(40), <1>18, <2>2, <2>3, <2>4 DEF Stream!RejectRequest, Stream!Received
  <2>6. Rejects(<<ErrorFrame>>)
    BY <1>18, <2>2, <2>3, <2>4 DEF Stream!RejectRequest, Stream!Received, Rejects, TakesAtResponder, SameRequester, asker, answerer
  <2>. QED
    BY <2>5, <2>3, <2>6 DEF Effect, ResponderEffect
<1>19. ASSUME Stream!HandlerReturns
      PROVE  TypeOK' /\ Effect
  <2>1. TypeOK'
    BY ZenonT(40), <1>19 DEF Stream!HandlerReturns
  <2>2. HandlerEnds
    BY <1>19 DEF Stream!HandlerReturns, HandlerEnds, SameRequester, asker, answerer
  <2>. QED
    BY <2>1, <2>2 DEF Effect, ResponderEffect
<1>20. ASSUME Stream!HandlerThrows
      PROVE  TypeOK' /\ Effect
  <2>1. Transfer(Responder, FALSE, (IF stream[Responder].done THEN <<>> ELSE <<ErrorFrame>>))
    BY <1>20 DEF Stream!Send, Stream!Transfer, Transfer, Stream!Other, Other, Stream!HandlerThrows, Stream!ErrorFrame, ErrorFrame
  <2>2. (IF stream[Responder].done THEN <<>> ELSE <<ErrorFrame>>) \in Seq(Frames)
    BY FramesType
  <2>3. /\ pipe' \in [Peers -> Seq(Frames)]
        /\ pipe'[Responder] = pipe[Responder]
        /\ pipe'[Requester] = After(pipe[Requester], (IF stream[Responder].done THEN <<>> ELSE <<ErrorFrame>>))
    BY <2>1, <2>2, TransferEffect DEF Other
  <2>4. TypeOK'
    <3>1. stream' \in [Peers -> StreamFields]
      <4>1. stream' = [stream EXCEPT ![Responder].phase = "failed", ![Responder].done = TRUE]
        BY <1>20, <2>2, <2>3 DEF Stream!HandlerThrows, Stream!Disconnect
      <4>. QED
        BY ONLY ZenonT(40), <1>0, <4>1 DEF Peers, StreamFields, Requester, Responder
    <3>2. registered' \in [Peers -> BOOLEAN] /\ connected' \in [Peers -> BOOLEAN]
      BY <1>20, <2>2, <2>3 DEF Stream!HandlerThrows, Stream!Disconnect
    <3>3. publisher' \in [handled : Nat, credit : Nat, published : Nat, ended : BOOLEAN, cancels : Nat]
      BY <1>20, <2>2, <2>3 DEF Stream!HandlerThrows, Stream!Disconnect
    <3>4. subscriber' \in [signals : Seq({"next", "complete", "error"}), demand : Nat, cancelled : BOOLEAN]
      BY <1>20, <2>2, <2>3 DEF Stream!HandlerThrows, Stream!Disconnect
    <3>. QED
      BY <3>1, <3>2, <3>3, <3>4, <1>20, <2>2, <2>3
  <2>5. HandlerFails((IF stream[Responder].done THEN <<>> ELSE <<ErrorFrame>>))
    BY ZenonT(40), <1>20, <2>2, <2>3 DEF Stream!HandlerThrows, Stream!Disconnect, HandlerFails, SameRequester, asker, answerer
  <2>. QED
    BY <2>4, <2>2, <2>5 DEF Effect, ResponderEffect
<1>21. ASSUME Stream!HandleRequestN
      PROVE  TypeOK' /\ Effect
  <2>1. Transfer(Responder, TRUE, <<>>)
    BY <1>21 DEF Stream!Reply, Stream!Transfer, Transfer, Stream!Other, Other, Stream!HandleRequestN
  <2>2. pipe[Responder] # <<>> /\ Head(pipe[Responder]) \in Frames
    BY <1>21, HeadType DEF Stream!HandleRequestN, Stream!Routed, Stream!Received
  <2>3. <<>> \in Seq(Frames)
    BY FramesType
  <2>4. /\ pipe' \in [Peers -> Seq(Frames)]
        /\ pipe'[Responder] = Tail(pipe[Responder])
        /\ pipe'[Requester] = After(pipe[Requester], <<>>)
    BY <2>1, <2>2, <2>3, TransferEffect DEF Other
  <2>5. Head(pipe[Responder]).requestN \in Nat
    BY <1>21, <2>2 DEF Stream!HandleRequestN, Frames, Stream!Received, Stream!Routed
  <2>6. TypeOK'
    <3>1. stream' \in [Peers -> StreamFields]
      BY <1>21, <2>2, <2>4, <2>5 DEF Stream!HandleRequestN, Stream!Routed, Stream!Received
    <3>2. registered' \in [Peers -> BOOLEAN] /\ connected' \in [Peers -> BOOLEAN]
      BY <1>21, <2>2, <2>4, <2>5 DEF Stream!HandleRequestN, Stream!Routed, Stream!Received
    <3>3. publisher' \in [handled : Nat, credit : Nat, published : Nat, ended : BOOLEAN, cancels : Nat]
      <4>1. publisher' = [publisher EXCEPT !.credit = @ + Head(pipe[Responder]).requestN]
        BY <1>21, <2>2, <2>4, <2>5 DEF Stream!HandleRequestN, Stream!Routed, Stream!Received
      <4>2. publisher.credit + Head(pipe[Responder]).requestN \in Nat
        BY SMTT(40), <1>21, <2>2, <2>4, <2>5
      <4>. QED
        BY ONLY <1>0, <4>1, <4>2
    <3>4. subscriber' \in [signals : Seq({"next", "complete", "error"}), demand : Nat, cancelled : BOOLEAN]
      BY <1>21, <2>2, <2>4, <2>5 DEF Stream!HandleRequestN, Stream!Routed, Stream!Received
    <3>. QED
      BY <3>1, <3>2, <3>3, <3>4, <1>21, <2>2, <2>4, <2>5
  <2>7. TakesDemand
    BY <1>21, <2>2, <2>4, <2>5 DEF Stream!HandleRequestN, Stream!Routed, Stream!Received, TakesDemand, TakesAtResponder, SameRequester, SameAnswerer, asker, answerer
  <2>. QED
    BY <2>6, <2>5, <2>7 DEF Effect, ResponderEffect
<1>22. ASSUME Stream!HandleCancel
      PROVE  TypeOK' /\ Effect
  <2>1. Transfer(Responder, TRUE, <<>>)
    BY <1>22 DEF Stream!Reply, Stream!Transfer, Transfer, Stream!Other, Other, Stream!HandleCancel
  <2>2. pipe[Responder] # <<>> /\ Head(pipe[Responder]) \in Frames
    BY <1>22, HeadType DEF Stream!HandleCancel, Stream!Routed, Stream!Received
  <2>3. <<>> \in Seq(Frames)
    BY FramesType
  <2>4. /\ pipe' \in [Peers -> Seq(Frames)]
        /\ pipe'[Responder] = Tail(pipe[Responder])
        /\ pipe'[Requester] = After(pipe[Requester], <<>>)
    BY <2>1, <2>2, <2>3, TransferEffect DEF Other
  <2>5. TypeOK'
    <3>1. stream' \in [Peers -> StreamFields]
      <4>1. stream' = [stream EXCEPT ![Responder] = [@ EXCEPT !.done = TRUE, !.hasFragments = FALSE]]
        BY <1>22, <2>2, <2>4 DEF Stream!HandleCancel, Stream!Routed, Stream!Received, Stream!Finish, Stream!Finished, Stream!CancelPublisher, Stream!Disconnect
      <4>. QED
        BY ONLY ZenonT(40), <1>0, <4>1 DEF Peers, StreamFields, Requester, Responder
    <3>2. registered' \in [Peers -> BOOLEAN] /\ connected' \in [Peers -> BOOLEAN]
      BY <1>22, <2>2, <2>4 DEF Stream!HandleCancel, Stream!Routed, Stream!Received, Stream!Finish, Stream!Finished, Stream!CancelPublisher, Stream!Disconnect
    <3>3. publisher' \in [handled : Nat, credit : Nat, published : Nat, ended : BOOLEAN, cancels : Nat]
      <4>1. publisher' = [publisher EXCEPT !.cancels = IF stream[Responder].phase = "ready" THEN @ + 1 ELSE @]
        BY <1>22, <2>2, <2>4 DEF Stream!HandleCancel, Stream!Routed, Stream!Received, Stream!Finish, Stream!Finished, Stream!CancelPublisher, Stream!Disconnect
      <4>2. publisher.cancels + 1 \in Nat
        BY <1>22, <2>2, <2>4
      <4>. QED
        BY ONLY <1>0, <4>1, <4>2
    <3>4. subscriber' \in [signals : Seq({"next", "complete", "error"}), demand : Nat, cancelled : BOOLEAN]
      BY <1>22, <2>2, <2>4 DEF Stream!HandleCancel, Stream!Routed, Stream!Received, Stream!Finish, Stream!Finished, Stream!CancelPublisher, Stream!Disconnect
    <3>. QED
      BY <3>1, <3>2, <3>3, <3>4, <1>22, <2>2, <2>4
  <2>6. TakesCancel
    BY ZenonT(40), <1>22, <2>2, <2>4 DEF Stream!HandleCancel, Stream!Routed, Stream!Received, Stream!Finish, Stream!Finished, Stream!CancelPublisher, Stream!Disconnect, TakesCancel, TakesAtResponder, SameRequester, asker, answerer
  <2>. QED
    BY <2>5, <2>6 DEF Effect, ResponderEffect
<1>23. ASSUME Stream!CloseResponder
      PROVE  TypeOK' /\ Effect
  <2>1. TypeOK'
    <3>1. stream' \in [Peers -> StreamFields]
      BY ZenonT(40), <1>23 DEF Stream!CloseResponder, Stream!Hangup, Stream!CancelPublisher
    <3>2. registered' \in [Peers -> BOOLEAN] /\ connected' \in [Peers -> BOOLEAN]
      BY <1>23 DEF Stream!CloseResponder, Stream!Hangup, Stream!CancelPublisher
    <3>3. publisher' \in [handled : Nat, credit : Nat, published : Nat, ended : BOOLEAN, cancels : Nat]
      <4>1. publisher' = [publisher EXCEPT !.cancels = IF registered[Responder] /\ stream[Responder].phase = "ready" THEN @ + 1 ELSE @]
        BY <1>23 DEF Stream!CloseResponder, Stream!Hangup, Stream!CancelPublisher
      <4>2. publisher.cancels + 1 \in Nat
        BY <1>23
      <4>. QED
        BY ONLY <1>0, <4>1, <4>2
    <3>4. subscriber' \in [signals : Seq({"next", "complete", "error"}), demand : Nat, cancelled : BOOLEAN]
      BY <1>23 DEF Stream!CloseResponder, Stream!Hangup, Stream!CancelPublisher
    <3>. QED
      BY SMTT(40), <3>1, <3>2, <3>3, <3>4, <1>23 DEF Stream!CloseResponder, Stream!Hangup, Stream!CancelPublisher
  <2>2. ClosesResponder
    BY ZenonT(40), <1>23 DEF Stream!CloseResponder, Stream!Hangup, Stream!CancelPublisher, ClosesResponder, SameRequester, asker, answerer
  <2>. QED
    BY <2>1, <2>2 DEF Effect, ResponderEffect
<1>24. ASSUME NEW isCompletion \in BOOLEAN, NEW fragmented \in Fragmented, Stream!OnNext(isCompletion, fragmented)
      PROVE  TypeOK' /\ Effect
  <2>1. Transfer(Responder, FALSE, Payload(isCompletion, fragmented))
    BY <1>24 DEF Stream!Send, Stream!Transfer, Transfer, Stream!Other, Other, Stream!OnNext, Stream!Payload, Payload, Stream!PayloadFrame, PayloadFrame
  <2>2. Payload(isCompletion, fragmented) \in Seq(Frames)
    BY FramesType
  <2>3. /\ pipe' \in [Peers -> Seq(Frames)]
        /\ pipe'[Responder] = pipe[Responder]
        /\ pipe'[Requester] = After(pipe[Requester], Payload(isCompletion, fragmented))
    BY <2>1, <2>2, TransferEffect DEF Other
  <2>4. TypeOK'
    <3>1. stream' \in [Peers -> StreamFields]
      <4>1. stream' = [stream EXCEPT ![Responder].done = isCompletion]
        BY <1>24, <2>2, <2>3 DEF Stream!OnNext, Stream!CanEmit, Stream!Disconnect
      <4>2. isCompletion \in BOOLEAN
        BY <1>24, <2>2, <2>3
      <4>. QED
        BY ONLY ZenonT(40), <1>0, <4>1, <4>2 DEF Peers, StreamFields, Requester, Responder
    <3>2. registered' \in [Peers -> BOOLEAN] /\ connected' \in [Peers -> BOOLEAN]
      BY <1>24, <2>2, <2>3 DEF Stream!OnNext, Stream!CanEmit, Stream!Disconnect
    <3>3. publisher' \in [handled : Nat, credit : Nat, published : Nat, ended : BOOLEAN, cancels : Nat]
      <4>1. publisher' = [publisher EXCEPT !.published = @ + 1, !.ended = isCompletion]
        BY <1>24, <2>2, <2>3 DEF Stream!OnNext, Stream!CanEmit, Stream!Disconnect
      <4>2. publisher.published + 1 \in Nat /\ isCompletion \in BOOLEAN
        BY <1>24, <2>2, <2>3
      <4>. QED
        BY ONLY <1>0, <4>1, <4>2
    <3>4. subscriber' \in [signals : Seq({"next", "complete", "error"}), demand : Nat, cancelled : BOOLEAN]
      BY <1>24, <2>2, <2>3 DEF Stream!OnNext, Stream!CanEmit, Stream!Disconnect
    <3>. QED
      BY <3>1, <3>2, <3>3, <3>4, <1>24, <2>2, <2>3
  <2>5. Publishes(Payload(isCompletion, fragmented), 1, isCompletion)
    BY <1>24, <2>2, <2>3 DEF Stream!OnNext, Stream!CanEmit, Stream!Disconnect, Publishes, SameRequester, asker, answerer
  <2>. QED
    BY <2>4, <2>2, <2>5 DEF Effect, ResponderEffect
<1>25. ASSUME Stream!OnComplete
      PROVE  TypeOK' /\ Effect
  <2>1. Transfer(Responder, FALSE, <<PayloadFrame(FALSE, TRUE, FALSE)>>)
    BY <1>25 DEF Stream!Send, Stream!Transfer, Transfer, Stream!Other, Other, Stream!OnComplete, Stream!PayloadFrame, PayloadFrame
  <2>2. <<PayloadFrame(FALSE, TRUE, FALSE)>> \in Seq(Frames)
    BY FramesType
  <2>3. /\ pipe' \in [Peers -> Seq(Frames)]
        /\ pipe'[Responder] = pipe[Responder]
        /\ pipe'[Requester] = After(pipe[Requester], <<PayloadFrame(FALSE, TRUE, FALSE)>>)
    BY <2>1, <2>2, TransferEffect DEF Other
  <2>4. TypeOK'
    BY ZenonT(40), <1>25, <2>2, <2>3 DEF Stream!OnComplete, Stream!CanEmit, Stream!Disconnect
  <2>5. Publishes(<<PayloadFrame(FALSE, TRUE, FALSE)>>, 0, TRUE)
    BY <1>25, <2>2, <2>3 DEF Stream!OnComplete, Stream!CanEmit, Stream!Disconnect, Publishes, SameRequester, asker, answerer
  <2>. QED
    BY <2>4, <2>2, <2>5 DEF Effect, ResponderEffect
<1>26. ASSUME Stream!OnError
      PROVE  TypeOK' /\ Effect
  <2>1. Transfer(Responder, FALSE, <<ErrorFrame>>)
    BY <1>26 DEF Stream!Send, Stream!Transfer, Transfer, Stream!Other, Other, Stream!OnError, Stream!ErrorFrame, ErrorFrame
  <2>2. <<ErrorFrame>> \in Seq(Frames)
    BY FramesType
  <2>3. /\ pipe' \in [Peers -> Seq(Frames)]
        /\ pipe'[Responder] = pipe[Responder]
        /\ pipe'[Requester] = After(pipe[Requester], <<ErrorFrame>>)
    BY <2>1, <2>2, TransferEffect DEF Other
  <2>4. TypeOK'
    BY ZenonT(40), <1>26, <2>2, <2>3 DEF Stream!OnError, Stream!CanEmit, Stream!Disconnect
  <2>5. Publishes(<<ErrorFrame>>, 0, TRUE)
    BY <1>26, <2>2, <2>3 DEF Stream!OnError, Stream!CanEmit, Stream!Disconnect, Publishes, SameRequester, asker, answerer
  <2>. QED
    BY <2>4, <2>2, <2>5 DEF Effect, ResponderEffect
<1>. QED
  BY <1>1, <1>2, <1>3, <1>4, <1>5, <1>6, <1>7, <1>8, <1>9, <1>10, <1>11, <1>12, <1>13, <1>14, <1>15, <1>16, <1>17, <1>18, <1>19, <1>20, <1>21, <1>22, <1>23, <1>24, <1>25, <1>26 DEF Stream!Next, Stream!Subscriber, Stream!Publisher, Stream!Receive, Stream!Handler, Stream!Peers

\* A step of RequestResponse has one of the effects.  A payload there ends the
\* stream because the responder marks the only one it sends complete.
LEMMA ResponseSteps ==
  ASSUME TypeOK, PhaseInv, EndsInv, kind = "response", kind' = kind, Response!Next
  PROVE  TypeOK' /\ Effect
<1>. USE StreamAssumption DEF TypeOK, StreamFields, Peers, Requester, Responder, Response!Requester, Response!Responder
<1>0. /\ stream \in [Peers -> StreamFields]
      /\ subscriber \in [signals : Seq({"next", "complete", "error"}), demand : Nat, cancelled : BOOLEAN]
      /\ publisher \in [handled : Nat, credit : Nat, published : Nat, ended : BOOLEAN, cancels : Nat]
  OBVIOUS
<1>1. ASSUME Response!HandleReady
      PROVE  TypeOK' /\ Effect
  <2>1. PICK fragmented \in Fragmented :
            Response!Send(Requester, Response!Request(0, fragmented))
    BY <1>1 DEF Response!HandleReady
  <2>2. Transfer(Requester, FALSE, Request(0, fragmented))
    BY <2>1 DEF Response!Send, Response!Transfer, Transfer, Response!Other, Other, Response!Request, Request, Response!RequestFrame, RequestFrame, Response!PayloadFrame, PayloadFrame
  <2>3. Request(0, fragmented) \in Seq(Frames)
    BY <2>1, FramesType
  <2>4. /\ pipe' \in [Peers -> Seq(Frames)]
        /\ pipe'[Requester] = pipe[Requester]
        /\ pipe'[Responder] = After(pipe[Responder], Request(0, fragmented))
    BY <2>2, <2>3, TransferEffect DEF Other
  <2>5. TypeOK'
    BY ZenonT(40), <1>1, <2>4 DEF Response!HandleReady, Response!Connect, Response!IsNew
  <2>6. Asks(0, fragmented)
    BY <1>1, <2>4 DEF Response!HandleReady, Response!Connect, Response!IsNew, Asks, SameResponder, SameAnswerer, asker, answerer
  <2>. QED
    BY <2>5, <2>6 DEF Effect, RequesterEffect
<1>2. ASSUME Response!HandleReadyExtension
      PROVE  TypeOK' /\ Effect
  <2>1. PICK fragmented \in Fragmented :
            Response!Send(Requester, Response!Request(0, fragmented))
    BY <1>2 DEF Response!HandleReadyExtension
  <2>2. Transfer(Requester, FALSE, Request(0, fragmented))
    BY <2>1 DEF Response!Send, Response!Transfer, Transfer, Response!Other, Other, Response!Request, Request, Response!RequestFrame, RequestFrame, Response!PayloadFrame, PayloadFrame
  <2>3. Request(0, fragmented) \in Seq(Frames)
    BY <2>1, FramesType
  <2>4. /\ pipe' \in [Peers -> Seq(Frames)]
        /\ pipe'[Requester] = pipe[Requester]
        /\ pipe'[Responder] = After(pipe[Responder], Request(0, fragmented))
    BY <2>2, <2>3, TransferEffect DEF Other
  <2>5. Signal(<<"error">>) /\ <<"error">> \in Seq(Signals)
    BY <1>2, SignalsType DEF Response!HandleReadyExtension, Response!Signal, Signal
  <2>6. /\ Signalled(<<"error">>)
        /\ subscriber' \in [signals : Seq({"next", "complete", "error"}), demand : Nat, cancelled : BOOLEAN]
    BY <2>5, SignalEffect
  <2>7. TypeOK'
    <3>1. stream' \in [Peers -> StreamFields]
      <4>1. stream' = [stream EXCEPT ![Requester] = [[@ EXCEPT !.done = TRUE, !.hasFragments = FALSE] EXCEPT !.phase = "ready"]]
        BY <1>2, <2>4, <2>6 DEF Response!HandleReadyExtension, Response!Connect, Response!IsNew, Response!Finished
      <4>. QED
        BY ONLY ZenonT(40), <1>0, <4>1 DEF Peers, StreamFields, Requester, Responder
    <3>2. registered' \in [Peers -> BOOLEAN] /\ connected' \in [Peers -> BOOLEAN]
      BY <1>2, <2>4, <2>6 DEF Response!HandleReadyExtension, Response!Connect, Response!IsNew, Response!Finished
    <3>3. publisher' \in [handled : Nat, credit : Nat, published : Nat, ended : BOOLEAN, cancels : Nat]
      BY <1>2, <2>4, <2>6 DEF Response!HandleReadyExtension, Response!Connect, Response!IsNew, Response!Finished
    <3>4. subscriber' \in [signals : Seq({"next", "complete", "error"}), demand : Nat, cancelled : BOOLEAN]
      BY <1>2, <2>4, <2>6 DEF Response!HandleReadyExtension, Response!Connect, Response!IsNew, Response!Finished
    <3>. QED
      BY <3>1, <3>2, <3>3, <3>4, <1>2, <2>4, <2>6
  <2>8. Asks(0, fragmented)
    BY <1>2, <2>4, <2>6 DEF Response!HandleReadyExtension, Response!Connect, Response!IsNew, Response!Finished, Asks, SameResponder, SameAnswerer, asker, answerer
  <2>. QED
    BY <2>7, <2>8 DEF Effect, RequesterEffect
<1>3. ASSUME Response!OnExtensionUnready
      PROVE  TypeOK' /\ Effect
  <2>1. TypeOK'
    BY ZenonT(40), <1>3 DEF Response!OnExtensionUnready, Response!IsNew
  <2>2. subscriber.demand + 0 = subscriber.demand /\ stream[Requester].initialRequestN + 0 = stream[Requester].initialRequestN /\ 0 \in Nat
    OBVIOUS
  <2>3. Waits
    BY <1>3, <2>2 DEF Response!OnExtensionUnready, Response!IsNew, Waits, SameResponder, SameAnswerer, asker, answerer
  <2>. QED
    BY <2>1, <2>3 DEF Effect, RequesterEffect
<1>4. ASSUME Response!HandleReject
      PROVE  TypeOK' /\ Effect
  <2>1. Signal(<<"error">>) /\ <<"error">> \in Seq(Signals)
    BY <1>4, SignalsType DEF Response!HandleReject, Response!Signal, Signal
  <2>2. /\ Signalled(<<"error">>)
        /\ subscriber' \in [signals : Seq({"next", "complete", "error"}), demand : Nat, cancelled : BOOLEAN]
    BY <2>1, SignalEffect
  <2>3. TypeOK'
    <3>1. stream' \in [Peers -> StreamFields]
      <4>1. stream' = [stream EXCEPT ![Requester] = [@ EXCEPT !.done = TRUE, !.hasFragments = FALSE]]
        BY <1>4, <2>2 DEF Response!HandleReject, Response!IsNew, Response!Finish, Response!Finished
      <4>. QED
        BY ONLY ZenonT(40), <1>0, <4>1 DEF Peers, StreamFields, Requester, Responder
    <3>2. registered' \in [Peers -> BOOLEAN] /\ connected' \in [Peers -> BOOLEAN]
      BY <1>4, <2>2 DEF Response!HandleReject, Response!IsNew, Response!Finish, Response!Finished
    <3>3. publisher' \in [handled : Nat, credit : Nat, published : Nat, ended : BOOLEAN, cancels : Nat]
      BY <1>4, <2>2 DEF Response!HandleReject, Response!IsNew, Response!Finish, Response!Finished
    <3>4. subscriber' \in [signals : Seq({"next", "complete", "error"}), demand : Nat, cancelled : BOOLEAN]
      BY <1>4, <2>2 DEF Response!HandleReject, Response!IsNew, Response!Finish, Response!Finished
    <3>. QED
      BY <3>1, <3>2, <3>3, <3>4, <1>4, <2>2 DEF Response!HandleReject, Response!IsNew, Response!Finish, Response!Finished
  <2>4. Waits
    BY <1>4, <2>2 DEF Response!HandleReject, Response!IsNew, Response!Finish, Response!Finished, Waits, SameResponder, SameAnswerer, asker, answerer
  <2>. QED
    BY <2>3, <2>4 DEF Effect, RequesterEffect
<1>5. ASSUME Response!Cancel
      PROVE  TypeOK' /\ Effect
  <2>1. /\ ~stream[Requester].done
        /\ stream' = [stream EXCEPT ![Requester] = [@ EXCEPT !.done = TRUE, !.hasFragments = FALSE]]
        /\ subscriber' = [subscriber EXCEPT !.cancelled = TRUE]
        /\ registered' = [registered EXCEPT ![Requester] = FALSE]
        /\ connected' = connected /\ publisher' = publisher
    BY <1>5 DEF Response!Cancel, Response!Finish, Response!Finished, Response!Disconnect
  <2>2. stream' \in [Peers -> StreamFields]
    BY ONLY ZenonT(40), <1>0, <2>1 DEF Peers, StreamFields, Requester, Responder
  <2>3. CASE stream[Requester].phase = "new"
    <3>1. Transfer(Requester, FALSE, <<>>)
      BY <1>5, <2>3 DEF Response!Cancel, Response!IsNew, Response!Send, Response!Transfer, Transfer, Response!Other, Other
    <3>2. /\ pipe' \in [Peers -> Seq(Frames)]
          /\ pipe'[Requester] = pipe[Requester] /\ pipe'[Responder] = pipe[Responder]
      BY <3>1, FramesType, TransferEffect, AfterNothing DEF Other
    <3>3. pipe' = pipe
      BY SMTT(40), <3>2
    <3>4. TypeOK'
      BY <2>1, <2>2, <3>2
    <3>5. Waits
      BY <2>1, <2>3, <3>3 DEF Response!IsNew, Waits, SameResponder, SameAnswerer, asker, answerer
    <3>. QED
      BY <3>4, <3>5 DEF Effect, RequesterEffect
  <2>4. CASE stream[Requester].phase = "ready"
    <3>1. Transfer(Requester, FALSE, <<CancelFrame>>)
      BY <1>5, <2>4 DEF Response!Cancel, Response!IsNew, Response!Send, Response!Transfer, Transfer, Response!Other, Other, Response!CancelFrame, CancelFrame
    <3>2. /\ pipe' \in [Peers -> Seq(Frames)]
          /\ pipe'[Requester] = pipe[Requester]
          /\ pipe'[Responder] = After(pipe[Responder], <<CancelFrame>>)
      BY <3>1, FramesType, TransferEffect DEF Other
    <3>3. TypeOK'
      BY <2>1, <2>2, <3>2
    <3>4. Cancels
      BY <2>1, <2>4, <3>2 DEF Cancels, SameResponder, SameAnswerer, asker, answerer
    <3>. QED
      BY <3>3, <3>4 DEF Effect, RequesterEffect
  <2>. QED
    BY <2>3, <2>4 DEF PhaseInv, asker
<1>6. ASSUME Response!HandleFragment
      PROVE  TypeOK' /\ Effect
  <2>1. Transfer(Requester, TRUE, <<>>)
    BY <1>6 DEF Response!Reply, Response!Transfer, Transfer, Response!Other, Other, Response!HandleFragment
  <2>2. pipe[Requester] # <<>> /\ Head(pipe[Requester]) \in Frames
    BY <1>6, HeadType DEF Response!HandleFragment, Response!Routed, Response!Received
  <2>3. <<>> \in Seq(Frames)
    BY FramesType
  <2>4. /\ pipe' \in [Peers -> Seq(Frames)]
        /\ pipe'[Requester] = Tail(pipe[Requester])
        /\ pipe'[Responder] = pipe[Responder]
    BY <2>1, <2>2, <2>3, TransferEffect, AfterNothing DEF Other
  <2>5. TypeOK'
    BY ZenonT(40), <1>6, <2>2, <2>4 DEF Response!HandleFragment, Response!Routed, Response!Received
  <2>6. TakesFragment
    BY ZenonT(40), <1>6, <2>2, <2>4 DEF Response!HandleFragment, Response!Routed, Response!Received, TakesFragment, TakesAtRequester, SameAsker, SameResponder, SameAnswerer, asker, answerer
  <2>. QED
    BY <2>5, <2>6 DEF Effect, RequesterEffect
<1>7. ASSUME Response!HandlePayload
      PROVE  TypeOK' /\ Effect
  <2>1. Transfer(Requester, TRUE, <<>>)
    BY <1>7 DEF Response!Reply, Response!Transfer, Transfer, Response!Other, Other, Response!HandlePayload
  <2>2. pipe[Requester] # <<>> /\ Head(pipe[Requester]) \in Frames
    BY <1>7, HeadType DEF Response!HandlePayload, Response!Routed, Response!Received
  <2>0. Head(pipe[Requester]).complete = TRUE
    <3>1. Head(pipe[Requester]) \in Range(pipe[Requester])
      <4>1. pipe[Requester] \in Seq(Frames)
        OBVIOUS
      <4>. QED
        BY <2>2, <4>1 DEF Range
    <3>. QED
      BY <1>7, <2>2, <3>1 DEF EndsInv, Response!HandlePayload, Response!Routed, Response!Received, Frames
  <2>3. Signal(SignalsOf(Head(pipe[Requester])))
    <3>0. <<"next">> \o <<"complete">> = <<"next", "complete">> /\ <<>> \o <<"complete">> = <<"complete">>
      BY NextComplete
    <3>1. CASE Head(pipe[Requester]).next
      BY <1>7, <2>0, <3>0, <3>1, Zenon DEF Response!HandlePayload, Response!Signal, Signal, SignalsOf
    <3>2. CASE ~Head(pipe[Requester]).next
      BY <1>7, <2>0, <3>0, <3>2, Zenon DEF Response!HandlePayload, Response!Signal, Signal, SignalsOf
    <3>. QED
      BY <3>1, <3>2
  <2>4. /\ pipe' \in [Peers -> Seq(Frames)]
        /\ pipe'[Requester] = Tail(pipe[Requester]) /\ pipe'[Responder] = pipe[Responder]
    BY <2>1, <2>2, FramesType, TransferEffect, AfterNothing DEF Other
  <2>5. /\ Signalled(SignalsOf(Head(pipe[Requester])))
        /\ subscriber' \in [signals : Seq({"next", "complete", "error"}), demand : Nat, cancelled : BOOLEAN]
    BY <2>3, SignalsOfType, SignalEffect
  <2>6. PICK c \in BOOLEAN : c = Head(pipe[Requester]).complete
    BY <1>7, <2>2 DEF Response!HandlePayload, Response!Routed, Response!Received, Frames
  <2>7. PICK x \in BOOLEAN : x = Head(pipe[Requester]).next
    BY <1>7, <2>2 DEF Response!HandlePayload, Response!Routed, Response!Received, Frames
  <2>7a. PICK d \in BOOLEAN : d = TRUE
    <3>1. TRUE \in BOOLEAN
      BY <1>0, <2>6
    <3>. QED
      BY <3>1, Zenon
  <2>8. /\ stream' = [stream EXCEPT ![Requester].done = d, ![Requester].hasFragments = @ /\ ~x]
        /\ registered' = [registered EXCEPT ![Requester] = @ /\ ~c]
        /\ connected' = connected /\ publisher' = publisher
        /\ registered[Requester] /\ Head(pipe[Requester]).type = "PAYLOAD" /\ ~Head(pipe[Requester]).follows
    BY <1>7, <2>6, <2>7, <2>7a, <2>0 DEF Response!HandlePayload, Response!Routed, Response!Received, Response!Disconnect
  <2>9. stream' \in [Peers -> StreamFields]
    BY ONLY ZenonT(40), <1>0, <2>8 DEF Peers, StreamFields, Requester, Responder
  <2>10. TypeOK'
    BY <2>4, <2>5, <2>8, <2>9
  <2>11. TakesPayload
    BY ZenonT(40), <2>2, <2>4, <2>5, <2>6, <2>7a, <2>8, <2>0 DEF TakesPayload, TakesAtRequester, SameResponder, SameAnswerer, asker, answerer
  <2>. QED
    BY <2>10, <2>11 DEF Effect, RequesterEffect
<1>8. ASSUME Response!HandleError
      PROVE  TypeOK' /\ Effect
  <2>1. Transfer(Requester, TRUE, <<>>)
    BY <1>8 DEF Response!Reply, Response!Transfer, Transfer, Response!Other, Other, Response!HandleError
  <2>2. pipe[Requester] # <<>> /\ Head(pipe[Requester]) \in Frames
    BY <1>8, HeadType DEF Response!HandleError, Response!Routed, Response!Received
  <2>3. <<>> \in Seq(Frames)
    BY FramesType
  <2>4. /\ pipe' \in [Peers -> Seq(Frames)]
        /\ pipe'[Requester] = Tail(pipe[Requester])
        /\ pipe'[Responder] = pipe[Responder]
    BY <2>1, <2>2, <2>3, TransferEffect, AfterNothing DEF Other
  <2>5. Signal(<<"error">>) /\ <<"error">> \in Seq(Signals)
    BY <1>8, SignalsType DEF Response!HandleError, Response!Signal, Signal
  <2>6. /\ Signalled(<<"error">>)
        /\ subscriber' \in [signals : Seq({"next", "complete", "error"}), demand : Nat, cancelled : BOOLEAN]
    BY <2>5, SignalEffect
  <2>7. TypeOK'
    <3>1. stream' \in [Peers -> StreamFields]
      <4>1. stream' = [stream EXCEPT ![Requester] = [@ EXCEPT !.done = TRUE, !.hasFragments = FALSE]]
        BY <1>8, <2>2, <2>4, <2>6 DEF Response!HandleError, Response!Routed, Response!Received, Response!Disconnect, Response!Finish, Response!Finished
      <4>. QED
        BY ONLY ZenonT(40), <1>0, <4>1 DEF Peers, StreamFields, Requester, Responder
    <3>2. registered' \in [Peers -> BOOLEAN] /\ connected' \in [Peers -> BOOLEAN]
      BY <1>8, <2>2, <2>4, <2>6 DEF Response!HandleError, Response!Routed, Response!Received, Response!Disconnect, Response!Finish, Response!Finished
    <3>3. publisher' \in [handled : Nat, credit : Nat, published : Nat, ended : BOOLEAN, cancels : Nat]
      BY <1>8, <2>2, <2>4, <2>6 DEF Response!HandleError, Response!Routed, Response!Received, Response!Disconnect, Response!Finish, Response!Finished
    <3>4. subscriber' \in [signals : Seq({"next", "complete", "error"}), demand : Nat, cancelled : BOOLEAN]
      BY <1>8, <2>2, <2>4, <2>6 DEF Response!HandleError, Response!Routed, Response!Received, Response!Disconnect, Response!Finish, Response!Finished
    <3>. QED
      BY <3>1, <3>2, <3>3, <3>4, <1>8, <2>2, <2>4, <2>6
  <2>8. TakesError
    BY ZenonT(40), <1>8, <2>2, <2>4, <2>6 DEF Response!HandleError, Response!Routed, Response!Received, Response!Disconnect, Response!Finish, Response!Finished, TakesError, TakesAtRequester, SameResponder, SameAnswerer, asker, answerer
  <2>. QED
    BY <2>7, <2>8 DEF Effect, RequesterEffect
<1>9. ASSUME Response!CloseRequester
      PROVE  TypeOK' /\ Effect
  <2>1. /\ connected[Requester] /\ connected' = [connected EXCEPT ![Requester] = FALSE]
        /\ pipe' = [pipe EXCEPT ![Requester] = <<>>]
        /\ registered' = registered /\ publisher' = publisher
    BY <1>9 DEF Response!CloseRequester, Response!Hangup
  <2>2. /\ pipe' \in [Peers -> Seq(Frames)] /\ connected' \in [Peers -> BOOLEAN]
        /\ pipe'[Requester] = <<>> /\ pipe'[Responder] = pipe[Responder]
        /\ ~connected'[Requester] /\ connected'[Responder] = connected[Responder]
    BY <2>1
  <2>3. CASE registered[Requester]
    <3>1. /\ Signal(<<"error">>) /\ <<"error">> \in Seq(Signals)
          /\ stream' = [stream EXCEPT ![Requester] = [@ EXCEPT !.done = TRUE, !.hasFragments = FALSE]]
      BY <1>9, <2>3, SignalsType DEF Response!CloseRequester, Response!Signal, Signal, Response!Finish, Response!Finished
    <3>2. /\ Signalled(<<"error">>)
          /\ subscriber' \in [signals : Seq({"next", "complete", "error"}), demand : Nat, cancelled : BOOLEAN]
      BY <3>1, SignalEffect
    <3>3. TypeOK'
      BY ZenonT(40), <2>1, <2>2, <3>1, <3>2
    <3>4. ClosesRequester
      BY <2>1, <2>2, <2>3, <3>1, <3>2 DEF ClosesRequester, SameResponder, SameAnswerer, asker, answerer
    <3>. QED
      BY <3>3, <3>4 DEF Effect, RequesterEffect
  <2>4. CASE ~registered[Requester]
    <3>1. stream' = stream /\ subscriber' = subscriber
      BY <1>9, <2>4 DEF Response!CloseRequester
    <3>2. TypeOK'
      BY <2>1, <2>2, <3>1
    <3>3. ClosesRequester
      BY <2>1, <2>2, <3>1 DEF ClosesRequester, SameAsker, SameResponder, SameAnswerer, asker, answerer
    <3>. QED
      BY <3>2, <3>3 DEF Effect, RequesterEffect
  <2>. QED
    BY <2>3, <2>4
<1>10. ASSUME Response!DropFrame(Requester)
      PROVE  TypeOK' /\ Effect
  <2>1. Transfer(Requester, TRUE, <<>>)
    BY <1>10 DEF Response!Reply, Response!Transfer, Transfer, Response!Other, Other, Response!DropFrame
  <2>2. pipe[Requester] # <<>> /\ Head(pipe[Requester]) \in Frames
    BY <1>10, HeadType DEF Response!DropFrame, Response!Routed, Response!Received
  <2>3. <<>> \in Seq(Frames)
    BY FramesType
  <2>4. /\ pipe' \in [Peers -> Seq(Frames)]
        /\ pipe'[Requester] = Tail(pipe[Requester])
        /\ pipe'[Responder] = pipe[Responder]
    BY <2>1, <2>2, <2>3, TransferEffect, AfterNothing DEF Other
  <2>5. TypeOK'
    BY <1>10, <2>2, <2>4 DEF Response!DropFrame
  <2>6. DropsAtRequester
    BY <1>10, <2>2, <2>4 DEF Response!DropFrame, DropsAtRequester, TakesAtRequester, SameAsker, SameResponder, SameAnswerer, asker, answerer
  <2>. QED
    BY <2>5, <2>6 DEF Effect, RequesterEffect
<1>11. ASSUME Response!DropFrame(Responder)
      PROVE  TypeOK' /\ Effect
  <2>1. Transfer(Responder, TRUE, <<>>)
    BY <1>11 DEF Response!Reply, Response!Transfer, Transfer, Response!Other, Other, Response!DropFrame
  <2>2. pipe[Responder] # <<>> /\ Head(pipe[Responder]) \in Frames
    BY <1>11, HeadType DEF Response!DropFrame, Response!Routed, Response!Received
  <2>3. <<>> \in Seq(Frames)
    BY FramesType
  <2>4. /\ pipe' \in [Peers -> Seq(Frames)]
        /\ pipe'[Responder] = Tail(pipe[Responder])
        /\ pipe'[Requester] = After(pipe[Requester], <<>>)
    BY <2>1, <2>2, <2>3, TransferEffect DEF Other
  <2>5. TypeOK'
    BY <1>11, <2>2, <2>4 DEF Response!DropFrame
  <2>6. DropsAtResponder
    BY <1>11, <2>2, <2>4 DEF Response!DropFrame, DropsAtResponder, TakesAtResponder, SameRequester, SameAnswerer, asker, answerer
  <2>. QED
    BY <2>5, <2>6 DEF Effect, ResponderEffect
<1>12. ASSUME Response!HandleRequest
      PROVE  TypeOK' /\ Effect
  <2>1. Transfer(Responder, TRUE, <<>>)
    BY <1>12 DEF Response!Reply, Response!Transfer, Transfer, Response!Other, Other, Response!HandleRequest, Response!CallHandler
  <2>2. pipe[Responder] # <<>> /\ Head(pipe[Responder]) \in Frames
    BY <1>12, HeadType DEF Response!HandleRequest, Response!Routed, Response!Received
  <2>3. <<>> \in Seq(Frames)
    BY FramesType
  <2>4. /\ pipe' \in [Peers -> Seq(Frames)]
        /\ pipe'[Responder] = Tail(pipe[Responder])
        /\ pipe'[Requester] = After(pipe[Requester], <<>>)
    BY <2>1, <2>2, <2>3, TransferEffect DEF Other
  <2>5. Head(pipe[Responder]).requestN \in Nat
    BY <1>12, <2>2 DEF Response!HandleRequest, Frames, Response!Received, Response!Routed
  <2>6. TypeOK'
    <3>1. stream' \in [Peers -> StreamFields]
      <4>1. stream' = [stream EXCEPT ![Responder].phase = "handler", ![Responder].hasFragments = FALSE]
        BY <1>12, <2>2, <2>4, <2>5 DEF Response!HandleRequest, Response!Received, Response!Connect, Response!CallHandler
      <4>. QED
        BY ONLY ZenonT(40), <1>0, <4>1 DEF Peers, StreamFields, Requester, Responder
    <3>2. registered' \in [Peers -> BOOLEAN] /\ connected' \in [Peers -> BOOLEAN]
      BY <1>12, <2>2, <2>4, <2>5 DEF Response!HandleRequest, Response!Received, Response!Connect, Response!CallHandler
    <3>3. publisher' \in [handled : Nat, credit : Nat, published : Nat, ended : BOOLEAN, cancels : Nat]
      <4>1. publisher' = [publisher EXCEPT !.handled = @ + 1, !.credit = 1]
        BY <1>12, <2>2, <2>4, <2>5 DEF Response!HandleRequest, Response!Received, Response!Connect, Response!CallHandler
      <4>2. publisher.handled + 1 \in Nat /\ 1 \in Nat
        BY SMTT(40), <1>12, <2>2, <2>4, <2>5
      <4>. QED
        BY ONLY <1>0, <4>1, <4>2
    <3>4. subscriber' \in [signals : Seq({"next", "complete", "error"}), demand : Nat, cancelled : BOOLEAN]
      BY <1>12, <2>2, <2>4, <2>5 DEF Response!HandleRequest, Response!Received, Response!Connect, Response!CallHandler
    <3>. QED
      BY <3>1, <3>2, <3>3, <3>4, <1>12, <2>2, <2>4, <2>5
  <2>7. CallsHandler(1)
    BY ZenonT(40), <1>12, <2>2, <2>4, <2>5 DEF Response!HandleRequest, Response!Received, Response!Connect, Response!CallHandler, CallsHandler, TakesAtResponder, SameRequester, asker, answerer
  <2>. QED
    BY <2>6, <2>5, <2>7 DEF Effect, ResponderEffect
<1>13. ASSUME Response!HandleFirstFragment
      PROVE  TypeOK' /\ Effect
  <2>1. Transfer(Responder, TRUE, <<>>)
    BY <1>13 DEF Response!Reply, Response!Transfer, Transfer, Response!Other, Other, Response!HandleFirstFragment
  <2>2. pipe[Responder] # <<>> /\ Head(pipe[Responder]) \in Frames
    BY <1>13, HeadType DEF Response!HandleFirstFragment, Response!Routed, Response!Received
  <2>3. <<>> \in Seq(Frames)
    BY FramesType
  <2>4. /\ pipe' \in [Peers -> Seq(Frames)]
        /\ pipe'[Responder] = Tail(pipe[Responder])
        /\ pipe'[Requester] = After(pipe[Requester], <<>>)
    BY <2>1, <2>2, <2>3, TransferEffect DEF Other
  <2>5. Head(pipe[Responder]).requestN \in Nat
    BY <1>13, <2>2 DEF Response!HandleFirstFragment, Frames, Response!Received, Response!Routed
  <2>6. TypeOK'
    <3>1. stream' \in [Peers -> StreamFields]
      <4>1. stream' = [stream EXCEPT ![Responder].phase = "assembling", ![Responder].hasFragments = TRUE]
        BY <1>13, <2>2, <2>4, <2>5 DEF Response!HandleFirstFragment, Response!Received, Response!Connect
      <4>2. Head(pipe[Responder]).requestN \in Nat
        BY <1>13, <2>2, <2>4, <2>5
      <4>. QED
        BY ONLY ZenonT(40), <1>0, <4>1, <4>2 DEF Peers, StreamFields, Requester, Responder
    <3>2. registered' \in [Peers -> BOOLEAN] /\ connected' \in [Peers -> BOOLEAN]
      BY <1>13, <2>2, <2>4, <2>5 DEF Response!HandleFirstFragment, Response!Received, Response!Connect
    <3>3. publisher' \in [handled : Nat, credit : Nat, published : Nat, ended : BOOLEAN, cancels : Nat]
      BY <1>13, <2>2, <2>4, <2>5 DEF Response!HandleFirstFragment, Response!Received, Response!Connect
    <3>4. subscriber' \in [signals : Seq({"next", "complete", "error"}), demand : Nat, cancelled : BOOLEAN]
      BY <1>13, <2>2, <2>4, <2>5 DEF Response!HandleFirstFragment, Response!Received, Response!Connect
    <3>. QED
      BY <3>1, <3>2, <3>3, <3>4, <1>13, <2>2, <2>4, <2>5
  <2>7. TakesFirstFragment
    BY ZenonT(40), <1>13, <2>2, <2>4, <2>5 DEF Response!HandleFirstFragment, Response!Received, Response!Connect, TakesFirstFragment, TakesAtResponder, SameRequester, asker, answerer
  <2>. QED
    BY <2>6, <2>5, <2>7 DEF Effect, ResponderEffect
<1>14. ASSUME Response!HandleLastFragment
      PROVE  TypeOK' /\ Effect
  <2>1. Transfer(Responder, TRUE, <<>>)
    BY <1>14 DEF Response!Reply, Response!Transfer, Transfer, Response!Other, Other, Response!HandleLastFragment, Response!CallHandler
  <2>2. pipe[Responder] # <<>> /\ Head(pipe[Responder]) \in Frames
    BY <1>14, HeadType DEF Response!HandleLastFragment, Response!Routed, Response!Received
  <2>3. <<>> \in Seq(Frames)
    BY FramesType
  <2>4. /\ pipe' \in [Peers -> Seq(Frames)]
        /\ pipe'[Responder] = Tail(pipe[Responder])
        /\ pipe'[Requester] = After(pipe[Requester], <<>>)
    BY <2>1, <2>2, <2>3, TransferEffect DEF Other
  <2>5. TypeOK'
    <3>1. stream' \in [Peers -> StreamFields]
      <4>1. stream' = [stream EXCEPT ![Responder].phase = "handler", ![Responder].hasFragments = FALSE]
        BY <1>14, <2>2, <2>4 DEF Response!HandleLastFragment, Response!Routed, Response!Received, Response!Disconnect, Response!CallHandler
      <4>. QED
        BY ONLY ZenonT(40), <1>0, <4>1 DEF Peers, StreamFields, Requester, Responder
    <3>2. registered' \in [Peers -> BOOLEAN] /\ connected' \in [Peers -> BOOLEAN]
      BY <1>14, <2>2, <2>4 DEF Response!HandleLastFragment, Response!Routed, Response!Received, Response!Disconnect, Response!CallHandler
    <3>3. publisher' \in [handled : Nat, credit : Nat, published : Nat, ended : BOOLEAN, cancels : Nat]
      <4>1. publisher' = [publisher EXCEPT !.handled = @ + 1, !.credit = 1]
        BY <1>14, <2>2, <2>4 DEF Response!HandleLastFragment, Response!Routed, Response!Received, Response!Disconnect, Response!CallHandler
      <4>2. publisher.handled + 1 \in Nat /\ 1 \in Nat
        BY <1>14, <2>2, <2>4
      <4>. QED
        BY ONLY <1>0, <4>1, <4>2
    <3>4. subscriber' \in [signals : Seq({"next", "complete", "error"}), demand : Nat, cancelled : BOOLEAN]
      BY <1>14, <2>2, <2>4 DEF Response!HandleLastFragment, Response!Routed, Response!Received, Response!Disconnect, Response!CallHandler
    <3>. QED
      BY <3>1, <3>2, <3>3, <3>4, <1>14, <2>2, <2>4
  <2>6. CallsHandler(1)
    BY ZenonT(40), <1>14, <2>2, <2>4 DEF Response!HandleLastFragment, Response!Routed, Response!Received, Response!Disconnect, Response!CallHandler, CallsHandler, TakesAtResponder, SameRequester, asker, answerer
  <2>. QED
    BY <2>5, <2>6 DEF Effect, ResponderEffect
<1>15. ASSUME Response!RejectRequest
      PROVE  TypeOK' /\ Effect
  <2>1. Transfer(Responder, TRUE, <<ErrorFrame>>)
    BY <1>15 DEF Response!Reply, Response!Transfer, Transfer, Response!Other, Other, Response!RejectRequest, Response!ErrorFrame, ErrorFrame
  <2>2. pipe[Responder] # <<>> /\ Head(pipe[Responder]) \in Frames
    BY <1>15, HeadType DEF Response!RejectRequest, Response!Routed, Response!Received
  <2>3. <<ErrorFrame>> \in Seq(Frames)
    BY FramesType
  <2>4. /\ pipe' \in [Peers -> Seq(Frames)]
        /\ pipe'[Responder] = Tail(pipe[Responder])
        /\ pipe'[Requester] = After(pipe[Requester], <<ErrorFrame>>)
    BY <2>1, <2>2, <2>3, TransferEffect DEF Other
  <2>5. TypeOK'
    BY ZenonT(40), <1>15, <2>2, <2>3, <2>4 DEF Response!RejectRequest, Response!Received
  <2>6. Rejects(<<ErrorFrame>>)
    BY <1>15, <2>2, <2>3, <2>4 DEF Response!RejectRequest, Response!Received, Rejects, TakesAtResponder, SameRequester, asker, answerer
  <2>. QED
    BY <2>5, <2>3, <2>6 DEF Effect, ResponderEffect
<1>16. ASSUME Response!HandlerReturns
      PROVE  TypeOK' /\ Effect
  <2>1. TypeOK'
    BY ZenonT(40), <1>16 DEF Response!HandlerReturns
  <2>2. HandlerEnds
    BY <1>16 DEF Response!HandlerReturns, HandlerEnds, SameRequester, asker, answerer
  <2>. QED
    BY <2>1, <2>2 DEF Effect, ResponderEffect
<1>17. ASSUME Response!HandlerThrows
      PROVE  TypeOK' /\ Effect
  <2>1. Transfer(Responder, FALSE, (IF stream[Responder].done THEN <<>> ELSE <<ErrorFrame>>))
    BY <1>17 DEF Response!Send, Response!Transfer, Transfer, Response!Other, Other, Response!HandlerThrows, Response!ErrorFrame, ErrorFrame
  <2>2. (IF stream[Responder].done THEN <<>> ELSE <<ErrorFrame>>) \in Seq(Frames)
    BY FramesType
  <2>3. /\ pipe' \in [Peers -> Seq(Frames)]
        /\ pipe'[Responder] = pipe[Responder]
        /\ pipe'[Requester] = After(pipe[Requester], (IF stream[Responder].done THEN <<>> ELSE <<ErrorFrame>>))
    BY <2>1, <2>2, TransferEffect DEF Other
  <2>4. TypeOK'
    <3>1. stream' \in [Peers -> StreamFields]
      <4>1. stream' = [stream EXCEPT ![Responder].phase = "failed", ![Responder].done = TRUE]
        BY <1>17, <2>2, <2>3 DEF Response!HandlerThrows, Response!Disconnect
      <4>. QED
        BY ONLY ZenonT(40), <1>0, <4>1 DEF Peers, StreamFields, Requester, Responder
    <3>2. registered' \in [Peers -> BOOLEAN] /\ connected' \in [Peers -> BOOLEAN]
      BY <1>17, <2>2, <2>3 DEF Response!HandlerThrows, Response!Disconnect
    <3>3. publisher' \in [handled : Nat, credit : Nat, published : Nat, ended : BOOLEAN, cancels : Nat]
      BY <1>17, <2>2, <2>3 DEF Response!HandlerThrows, Response!Disconnect
    <3>4. subscriber' \in [signals : Seq({"next", "complete", "error"}), demand : Nat, cancelled : BOOLEAN]
      BY <1>17, <2>2, <2>3 DEF Response!HandlerThrows, Response!Disconnect
    <3>. QED
      BY <3>1, <3>2, <3>3, <3>4, <1>17, <2>2, <2>3
  <2>5. HandlerFails((IF stream[Responder].done THEN <<>> ELSE <<ErrorFrame>>))
    BY ZenonT(40), <1>17, <2>2, <2>3 DEF Response!HandlerThrows, Response!Disconnect, HandlerFails, SameRequester, asker, answerer
  <2>. QED
    BY <2>4, <2>2, <2>5 DEF Effect, ResponderEffect
<1>18. ASSUME Response!HandleCancel
      PROVE  TypeOK' /\ Effect
  <2>1. Transfer(Responder, TRUE, <<>>)
    BY <1>18 DEF Response!Reply, Response!Transfer, Transfer, Response!Other, Other, Response!HandleCancel
  <2>2. pipe[Responder] # <<>> /\ Head(pipe[Responder]) \in Frames
    BY <1>18, HeadType DEF Response!HandleCancel, Response!Routed, Response!Received
  <2>3. <<>> \in Seq(Frames)
    BY FramesType
  <2>4. /\ pipe' \in [Peers -> Seq(Frames)]
        /\ pipe'[Responder] = Tail(pipe[Responder])
        /\ pipe'[Requester] = After(pipe[Requester], <<>>)
    BY <2>1, <2>2, <2>3, TransferEffect DEF Other
  <2>5. TypeOK'
    <3>1. stream' \in [Peers -> StreamFields]
      <4>1. stream' = [stream EXCEPT ![Responder] = [@ EXCEPT !.done = TRUE, !.hasFragments = FALSE]]
        BY <1>18, <2>2, <2>4 DEF Response!HandleCancel, Response!Routed, Response!Received, Response!Finish, Response!Finished, Response!CancelPublisher, Response!Disconnect
      <4>. QED
        BY ONLY ZenonT(40), <1>0, <4>1 DEF Peers, StreamFields, Requester, Responder
    <3>2. registered' \in [Peers -> BOOLEAN] /\ connected' \in [Peers -> BOOLEAN]
      BY <1>18, <2>2, <2>4 DEF Response!HandleCancel, Response!Routed, Response!Received, Response!Finish, Response!Finished, Response!CancelPublisher, Response!Disconnect
    <3>3. publisher' \in [handled : Nat, credit : Nat, published : Nat, ended : BOOLEAN, cancels : Nat]
      <4>1. publisher' = [publisher EXCEPT !.cancels = IF stream[Responder].phase = "ready" THEN @ + 1 ELSE @]
        BY <1>18, <2>2, <2>4 DEF Response!HandleCancel, Response!Routed, Response!Received, Response!Finish, Response!Finished, Response!CancelPublisher, Response!Disconnect
      <4>2. publisher.cancels + 1 \in Nat
        BY <1>18, <2>2, <2>4
      <4>. QED
        BY ONLY <1>0, <4>1, <4>2
    <3>4. subscriber' \in [signals : Seq({"next", "complete", "error"}), demand : Nat, cancelled : BOOLEAN]
      BY <1>18, <2>2, <2>4 DEF Response!HandleCancel, Response!Routed, Response!Received, Response!Finish, Response!Finished, Response!CancelPublisher, Response!Disconnect
    <3>. QED
      BY <3>1, <3>2, <3>3, <3>4, <1>18, <2>2, <2>4
  <2>6. TakesCancel
    BY ZenonT(40), <1>18, <2>2, <2>4 DEF Response!HandleCancel, Response!Routed, Response!Received, Response!Finish, Response!Finished, Response!CancelPublisher, Response!Disconnect, TakesCancel, TakesAtResponder, SameRequester, asker, answerer
  <2>. QED
    BY <2>5, <2>6 DEF Effect, ResponderEffect
<1>19. ASSUME Response!CloseResponder
      PROVE  TypeOK' /\ Effect
  <2>1. TypeOK'
    <3>1. stream' \in [Peers -> StreamFields]
      BY ZenonT(40), <1>19 DEF Response!CloseResponder, Response!Hangup, Response!CancelPublisher
    <3>2. registered' \in [Peers -> BOOLEAN] /\ connected' \in [Peers -> BOOLEAN]
      BY <1>19 DEF Response!CloseResponder, Response!Hangup, Response!CancelPublisher
    <3>3. publisher' \in [handled : Nat, credit : Nat, published : Nat, ended : BOOLEAN, cancels : Nat]
      <4>1. publisher' = [publisher EXCEPT !.cancels = IF registered[Responder] /\ stream[Responder].phase = "ready" THEN @ + 1 ELSE @]
        BY <1>19 DEF Response!CloseResponder, Response!Hangup, Response!CancelPublisher
      <4>2. publisher.cancels + 1 \in Nat
        BY <1>19
      <4>. QED
        BY ONLY <1>0, <4>1, <4>2
    <3>4. subscriber' \in [signals : Seq({"next", "complete", "error"}), demand : Nat, cancelled : BOOLEAN]
      BY <1>19 DEF Response!CloseResponder, Response!Hangup, Response!CancelPublisher
    <3>. QED
      BY SMTT(40), <3>1, <3>2, <3>3, <3>4, <1>19 DEF Response!CloseResponder, Response!Hangup, Response!CancelPublisher
  <2>2. ClosesResponder
    BY SMTT(40), <1>19 DEF Response!CloseResponder, Response!Hangup, Response!CancelPublisher, ClosesResponder, SameRequester, asker, answerer
  <2>. QED
    BY <2>1, <2>2 DEF Effect, ResponderEffect
<1>20. ASSUME NEW fragmented \in Fragmented, Response!OnNext(fragmented)
      PROVE  TypeOK' /\ Effect
  <2>1. Transfer(Responder, FALSE, Payload(TRUE, fragmented))
    BY <1>20 DEF Response!Send, Response!Transfer, Transfer, Response!Other, Other, Response!OnNext, Response!Payload, Payload, Response!PayloadFrame, PayloadFrame
  <2>2. Payload(TRUE, fragmented) \in Seq(Frames)
    BY FramesType
  <2>3. /\ pipe' \in [Peers -> Seq(Frames)]
        /\ pipe'[Responder] = pipe[Responder]
        /\ pipe'[Requester] = After(pipe[Requester], Payload(TRUE, fragmented))
    BY <2>1, <2>2, TransferEffect DEF Other
  <2>4. TypeOK'
    <3>1. stream' \in [Peers -> StreamFields]
      <4>1. stream' = [stream EXCEPT ![Responder].done = TRUE]
        BY <1>20, <2>2, <2>3 DEF Response!OnNext, Response!CanEmit, Response!Disconnect
      <4>. QED
        BY ONLY ZenonT(40), <1>0, <4>1 DEF Peers, StreamFields, Requester, Responder
    <3>2. registered' \in [Peers -> BOOLEAN] /\ connected' \in [Peers -> BOOLEAN]
      BY <1>20, <2>2, <2>3 DEF Response!OnNext, Response!CanEmit, Response!Disconnect
    <3>3. publisher' \in [handled : Nat, credit : Nat, published : Nat, ended : BOOLEAN, cancels : Nat]
      <4>1. publisher' = [publisher EXCEPT !.published = @ + 1, !.ended = TRUE]
        BY <1>20, <2>2, <2>3 DEF Response!OnNext, Response!CanEmit, Response!Disconnect
      <4>2. publisher.published + 1 \in Nat
        BY <1>20, <2>2, <2>3
      <4>. QED
        BY ONLY <1>0, <4>1, <4>2
    <3>4. subscriber' \in [signals : Seq({"next", "complete", "error"}), demand : Nat, cancelled : BOOLEAN]
      BY <1>20, <2>2, <2>3 DEF Response!OnNext, Response!CanEmit, Response!Disconnect
    <3>. QED
      BY <3>1, <3>2, <3>3, <3>4, <1>20, <2>2, <2>3
  <2>5. Publishes(Payload(TRUE, fragmented), 1, TRUE)
    BY ZenonT(40), <1>20, <2>2, <2>3 DEF Response!OnNext, Response!CanEmit, Response!Disconnect, Publishes, SameRequester, asker, answerer
  <2>. QED
    BY <2>4, <2>2, <2>5 DEF Effect, ResponderEffect
<1>21. ASSUME Response!OnComplete
      PROVE  TypeOK' /\ Effect
  <2>1. Transfer(Responder, FALSE, <<PayloadFrame(FALSE, TRUE, FALSE)>>)
    BY <1>21 DEF Response!Send, Response!Transfer, Transfer, Response!Other, Other, Response!OnComplete, Response!PayloadFrame, PayloadFrame
  <2>2. <<PayloadFrame(FALSE, TRUE, FALSE)>> \in Seq(Frames)
    BY FramesType
  <2>3. /\ pipe' \in [Peers -> Seq(Frames)]
        /\ pipe'[Responder] = pipe[Responder]
        /\ pipe'[Requester] = After(pipe[Requester], <<PayloadFrame(FALSE, TRUE, FALSE)>>)
    BY <2>1, <2>2, TransferEffect DEF Other
  <2>4. TypeOK'
    BY ZenonT(40), <1>21, <2>2, <2>3 DEF Response!OnComplete, Response!CanEmit, Response!Disconnect
  <2>5. Publishes(<<PayloadFrame(FALSE, TRUE, FALSE)>>, 0, TRUE)
    BY <1>21, <2>2, <2>3 DEF Response!OnComplete, Response!CanEmit, Response!Disconnect, Publishes, SameRequester, asker, answerer
  <2>. QED
    BY <2>4, <2>2, <2>5 DEF Effect, ResponderEffect
<1>22. ASSUME Response!OnError
      PROVE  TypeOK' /\ Effect
  <2>1. Transfer(Responder, FALSE, <<ErrorFrame>>)
    BY <1>22 DEF Response!Send, Response!Transfer, Transfer, Response!Other, Other, Response!OnError, Response!ErrorFrame, ErrorFrame
  <2>2. <<ErrorFrame>> \in Seq(Frames)
    BY FramesType
  <2>3. /\ pipe' \in [Peers -> Seq(Frames)]
        /\ pipe'[Responder] = pipe[Responder]
        /\ pipe'[Requester] = After(pipe[Requester], <<ErrorFrame>>)
    BY <2>1, <2>2, TransferEffect DEF Other
  <2>4. TypeOK'
    BY ZenonT(40), <1>22, <2>2, <2>3 DEF Response!OnError, Response!CanEmit, Response!Disconnect
  <2>5. Publishes(<<ErrorFrame>>, 0, TRUE)
    BY <1>22, <2>2, <2>3 DEF Response!OnError, Response!CanEmit, Response!Disconnect, Publishes, SameRequester, asker, answerer
  <2>. QED
    BY <2>4, <2>2, <2>5 DEF Effect, ResponderEffect
<1>. QED
  BY <1>1, <1>2, <1>3, <1>4, <1>5, <1>6, <1>7, <1>8, <1>9, <1>10, <1>11, <1>12, <1>13, <1>14, <1>15, <1>16, <1>17, <1>18, <1>19, <1>20, <1>21, <1>22 DEF Response!Next, Response!Subscriber, Response!Publisher, Response!Receive, Response!Handler, Response!Peers

\* A step of RequestFnF has one of the effects.
LEMMA FnfSteps ==
  ASSUME TypeOK, kind = "fnf", kind' = kind, Fnf!Next
  PROVE  TypeOK' /\ Effect
<1>. USE StreamAssumption DEF TypeOK, StreamFields, Peers, Requester, Responder, Fnf!Requester, Fnf!Responder
<1>0. /\ stream \in [Peers -> StreamFields]
      /\ subscriber \in [signals : Seq({"next", "complete", "error"}), demand : Nat, cancelled : BOOLEAN]
      /\ publisher \in [handled : Nat, credit : Nat, published : Nat, ended : BOOLEAN, cancels : Nat]
  OBVIOUS
<1>1. ASSUME Fnf!HandleReady
      PROVE  TypeOK' /\ Effect
  <2>1. PICK fragmented \in Fragmented :
            Fnf!Send(Requester, Fnf!Request(0, fragmented))
    BY <1>1 DEF Fnf!HandleReady
  <2>2. Transfer(Requester, FALSE, Request(0, fragmented))
    BY <2>1 DEF Fnf!Send, Fnf!Transfer, Transfer, Fnf!Other, Other, Fnf!Request, Request, Fnf!RequestFrame, RequestFrame, Fnf!PayloadFrame, PayloadFrame
  <2>3. Request(0, fragmented) \in Seq(Frames)
    BY <2>1, FramesType
  <2>4. /\ pipe' \in [Peers -> Seq(Frames)]
        /\ pipe'[Requester] = pipe[Requester]
        /\ pipe'[Responder] = After(pipe[Responder], Request(0, fragmented))
    BY <2>2, <2>3, TransferEffect DEF Other
  <2>5. Signal(<<"complete">>) /\ <<"complete">> \in Seq(Signals)
    BY <1>1, SignalsType DEF Fnf!HandleReady, Fnf!Signal, Signal
  <2>6. /\ Signalled(<<"complete">>)
        /\ subscriber' \in [signals : Seq({"next", "complete", "error"}), demand : Nat, cancelled : BOOLEAN]
    BY <2>5, SignalEffect
  <2>7. TypeOK'
    <3>1. stream' \in [Peers -> StreamFields]
      <4>1. stream' = [stream EXCEPT ![Requester].phase = "ready", ![Requester].done = TRUE]
        BY <1>1, <2>4, <2>6 DEF Fnf!HandleReady, Fnf!IsNew
      <4>. QED
        BY ONLY ZenonT(40), <1>0, <4>1 DEF Peers, StreamFields, Requester, Responder
    <3>2. registered' \in [Peers -> BOOLEAN] /\ connected' \in [Peers -> BOOLEAN]
      BY <1>1, <2>4, <2>6 DEF Fnf!HandleReady, Fnf!IsNew
    <3>3. publisher' \in [handled : Nat, credit : Nat, published : Nat, ended : BOOLEAN, cancels : Nat]
      BY <1>1, <2>4, <2>6 DEF Fnf!HandleReady, Fnf!IsNew
    <3>4. subscriber' \in [signals : Seq({"next", "complete", "error"}), demand : Nat, cancelled : BOOLEAN]
      BY <1>1, <2>4, <2>6 DEF Fnf!HandleReady, Fnf!IsNew
    <3>. QED
      BY <3>1, <3>2, <3>3, <3>4, <1>1, <2>4, <2>6
  <2>8. Asks(0, fragmented)
    BY SMTT(40), <1>1, <2>4, <2>6 DEF Fnf!HandleReady, Fnf!IsNew, Asks, SameResponder, SameAnswerer, asker, answerer
  <2>. QED
    BY <2>7, <2>8 DEF Effect, RequesterEffect
<1>2. ASSUME Fnf!HandleReject
      PROVE  TypeOK' /\ Effect
  <2>1. Signal(<<"error">>) /\ <<"error">> \in Seq(Signals)
    BY <1>2, SignalsType DEF Fnf!HandleReject, Fnf!Signal, Signal
  <2>2. /\ Signalled(<<"error">>)
        /\ subscriber' \in [signals : Seq({"next", "complete", "error"}), demand : Nat, cancelled : BOOLEAN]
    BY <2>1, SignalEffect
  <2>3. TypeOK'
    <3>1. stream' \in [Peers -> StreamFields]
      <4>1. stream' = [stream EXCEPT ![Requester] = [@ EXCEPT !.done = TRUE, !.hasFragments = FALSE]]
        BY <1>2, <2>2 DEF Fnf!HandleReject, Fnf!IsNew, Fnf!Finish, Fnf!Finished
      <4>. QED
        BY ONLY ZenonT(40), <1>0, <4>1 DEF Peers, StreamFields, Requester, Responder
    <3>2. registered' \in [Peers -> BOOLEAN] /\ connected' \in [Peers -> BOOLEAN]
      BY <1>2, <2>2 DEF Fnf!HandleReject, Fnf!IsNew, Fnf!Finish, Fnf!Finished
    <3>3. publisher' \in [handled : Nat, credit : Nat, published : Nat, ended : BOOLEAN, cancels : Nat]
      BY <1>2, <2>2 DEF Fnf!HandleReject, Fnf!IsNew, Fnf!Finish, Fnf!Finished
    <3>4. subscriber' \in [signals : Seq({"next", "complete", "error"}), demand : Nat, cancelled : BOOLEAN]
      BY <1>2, <2>2 DEF Fnf!HandleReject, Fnf!IsNew, Fnf!Finish, Fnf!Finished
    <3>. QED
      BY <3>1, <3>2, <3>3, <3>4, <1>2, <2>2 DEF Fnf!HandleReject, Fnf!IsNew, Fnf!Finish, Fnf!Finished
  <2>4. Waits
    BY <1>2, <2>2 DEF Fnf!HandleReject, Fnf!IsNew, Fnf!Finish, Fnf!Finished, Waits, SameResponder, SameAnswerer, asker, answerer
  <2>. QED
    BY <2>3, <2>4 DEF Effect, RequesterEffect
<1>3. ASSUME Fnf!Cancel
      PROVE  TypeOK' /\ Effect
  <2>1. TypeOK'
    BY ZenonT(40), <1>3 DEF Fnf!Cancel, Fnf!IsNew, Fnf!Finish, Fnf!Finished
  <2>2. Waits
    BY <1>3 DEF Fnf!Cancel, Fnf!IsNew, Fnf!Finish, Fnf!Finished, Waits, SameResponder, SameAnswerer, asker, answerer
  <2>. QED
    BY <2>1, <2>2 DEF Effect, RequesterEffect
<1>4. ASSUME Fnf!CloseRequester
      PROVE  TypeOK' /\ Effect
  <2>1. TypeOK'
    BY <1>4 DEF Fnf!CloseRequester, Fnf!Hangup
  <2>2. ClosesRequester
    BY <1>4 DEF Fnf!CloseRequester, Fnf!Hangup, ClosesRequester, SameAsker, SameResponder, SameAnswerer, asker, answerer
  <2>. QED
    BY <2>1, <2>2 DEF Effect, RequesterEffect
<1>5. ASSUME Fnf!DropFrame(Requester)
      PROVE  TypeOK' /\ Effect
  <2>1. Transfer(Requester, TRUE, <<>>)
    BY <1>5 DEF Fnf!Reply, Fnf!Transfer, Transfer, Fnf!Other, Other, Fnf!DropFrame
  <2>2. pipe[Requester] # <<>> /\ Head(pipe[Requester]) \in Frames
    BY <1>5, HeadType DEF Fnf!DropFrame, Fnf!Routed, Fnf!Received
  <2>3. <<>> \in Seq(Frames)
    BY FramesType
  <2>4. /\ pipe' \in [Peers -> Seq(Frames)]
        /\ pipe'[Requester] = Tail(pipe[Requester])
        /\ pipe'[Responder] = pipe[Responder]
    BY <2>1, <2>2, <2>3, TransferEffect, AfterNothing DEF Other
  <2>5. TypeOK'
    BY <1>5, <2>2, <2>4 DEF Fnf!DropFrame
  <2>6. DropsAtRequester
    BY <1>5, <2>2, <2>4 DEF Fnf!DropFrame, DropsAtRequester, TakesAtRequester, SameAsker, SameResponder, SameAnswerer, asker, answerer
  <2>. QED
    BY <2>5, <2>6 DEF Effect, RequesterEffect
<1>6. ASSUME Fnf!DropFrame(Responder)
      PROVE  TypeOK' /\ Effect
  <2>1. Transfer(Responder, TRUE, <<>>)
    BY <1>6 DEF Fnf!Reply, Fnf!Transfer, Transfer, Fnf!Other, Other, Fnf!DropFrame
  <2>2. pipe[Responder] # <<>> /\ Head(pipe[Responder]) \in Frames
    BY <1>6, HeadType DEF Fnf!DropFrame, Fnf!Routed, Fnf!Received
  <2>3. <<>> \in Seq(Frames)
    BY FramesType
  <2>4. /\ pipe' \in [Peers -> Seq(Frames)]
        /\ pipe'[Responder] = Tail(pipe[Responder])
        /\ pipe'[Requester] = After(pipe[Requester], <<>>)
    BY <2>1, <2>2, <2>3, TransferEffect DEF Other
  <2>5. TypeOK'
    BY <1>6, <2>2, <2>4 DEF Fnf!DropFrame
  <2>6. DropsAtResponder
    BY <1>6, <2>2, <2>4 DEF Fnf!DropFrame, DropsAtResponder, TakesAtResponder, SameRequester, SameAnswerer, asker, answerer
  <2>. QED
    BY <2>5, <2>6 DEF Effect, ResponderEffect
<1>7. ASSUME Fnf!HandleRequest
      PROVE  TypeOK' /\ Effect
  <2>1. Transfer(Responder, TRUE, <<>>)
    BY <1>7 DEF Fnf!Reply, Fnf!Transfer, Transfer, Fnf!Other, Other, Fnf!HandleRequest, Fnf!CallHandler
  <2>2. pipe[Responder] # <<>> /\ Head(pipe[Responder]) \in Frames
    BY <1>7, HeadType DEF Fnf!HandleRequest, Fnf!Routed, Fnf!Received
  <2>3. <<>> \in Seq(Frames)
    BY FramesType
  <2>4. /\ pipe' \in [Peers -> Seq(Frames)]
        /\ pipe'[Responder] = Tail(pipe[Responder])
        /\ pipe'[Requester] = After(pipe[Requester], <<>>)
    BY <2>1, <2>2, <2>3, TransferEffect DEF Other
  <2>5. Head(pipe[Responder]).requestN \in Nat
    BY <1>7, <2>2 DEF Fnf!HandleRequest, Frames, Fnf!Received, Fnf!Routed
  <2>6. TypeOK'
    <3>1. stream' \in [Peers -> StreamFields]
      <4>1. stream' = [stream EXCEPT ![Responder].phase = "handler", ![Responder].hasFragments = FALSE]
        BY <1>7, <2>2, <2>4, <2>5 DEF Fnf!HandleRequest, Fnf!Received, Fnf!Connect, Fnf!CallHandler
      <4>. QED
        BY ONLY ZenonT(40), <1>0, <4>1 DEF Peers, StreamFields, Requester, Responder
    <3>2. registered' \in [Peers -> BOOLEAN] /\ connected' \in [Peers -> BOOLEAN]
      BY <1>7, <2>2, <2>4, <2>5 DEF Fnf!HandleRequest, Fnf!Received, Fnf!Connect, Fnf!CallHandler
    <3>3. publisher' \in [handled : Nat, credit : Nat, published : Nat, ended : BOOLEAN, cancels : Nat]
      <4>1. publisher' = [publisher EXCEPT !.handled = @ + 1, !.credit = 0]
        BY <1>7, <2>2, <2>4, <2>5 DEF Fnf!HandleRequest, Fnf!Received, Fnf!Connect, Fnf!CallHandler
      <4>2. publisher.handled + 1 \in Nat /\ 0 \in Nat
        BY SMTT(40), <1>7, <2>2, <2>4, <2>5
      <4>. QED
        BY ONLY <1>0, <4>1, <4>2
    <3>4. subscriber' \in [signals : Seq({"next", "complete", "error"}), demand : Nat, cancelled : BOOLEAN]
      BY <1>7, <2>2, <2>4, <2>5 DEF Fnf!HandleRequest, Fnf!Received, Fnf!Connect, Fnf!CallHandler
    <3>. QED
      BY <3>1, <3>2, <3>3, <3>4, <1>7, <2>2, <2>4, <2>5
  <2>7. CallsHandler(0)
    BY ZenonT(40), <1>7, <2>2, <2>4, <2>5 DEF Fnf!HandleRequest, Fnf!Received, Fnf!Connect, Fnf!CallHandler, CallsHandler, TakesAtResponder, SameRequester, asker, answerer
  <2>. QED
    BY <2>6, <2>5, <2>7 DEF Effect, ResponderEffect
<1>8. ASSUME Fnf!HandleFirstFragment
      PROVE  TypeOK' /\ Effect
  <2>1. Transfer(Responder, TRUE, <<>>)
    BY <1>8 DEF Fnf!Reply, Fnf!Transfer, Transfer, Fnf!Other, Other, Fnf!HandleFirstFragment
  <2>2. pipe[Responder] # <<>> /\ Head(pipe[Responder]) \in Frames
    BY <1>8, HeadType DEF Fnf!HandleFirstFragment, Fnf!Routed, Fnf!Received
  <2>3. <<>> \in Seq(Frames)
    BY FramesType
  <2>4. /\ pipe' \in [Peers -> Seq(Frames)]
        /\ pipe'[Responder] = Tail(pipe[Responder])
        /\ pipe'[Requester] = After(pipe[Requester], <<>>)
    BY <2>1, <2>2, <2>3, TransferEffect DEF Other
  <2>5. Head(pipe[Responder]).requestN \in Nat
    BY <1>8, <2>2 DEF Fnf!HandleFirstFragment, Frames, Fnf!Received, Fnf!Routed
  <2>6. TypeOK'
    <3>1. stream' \in [Peers -> StreamFields]
      <4>1. stream' = [stream EXCEPT ![Responder].phase = "assembling", ![Responder].hasFragments = TRUE]
        BY <1>8, <2>2, <2>4, <2>5 DEF Fnf!HandleFirstFragment, Fnf!Received, Fnf!Connect
      <4>2. Head(pipe[Responder]).requestN \in Nat
        BY <1>8, <2>2, <2>4, <2>5
      <4>. QED
        BY ONLY ZenonT(40), <1>0, <4>1, <4>2 DEF Peers, StreamFields, Requester, Responder
    <3>2. registered' \in [Peers -> BOOLEAN] /\ connected' \in [Peers -> BOOLEAN]
      BY <1>8, <2>2, <2>4, <2>5 DEF Fnf!HandleFirstFragment, Fnf!Received, Fnf!Connect
    <3>3. publisher' \in [handled : Nat, credit : Nat, published : Nat, ended : BOOLEAN, cancels : Nat]
      BY <1>8, <2>2, <2>4, <2>5 DEF Fnf!HandleFirstFragment, Fnf!Received, Fnf!Connect
    <3>4. subscriber' \in [signals : Seq({"next", "complete", "error"}), demand : Nat, cancelled : BOOLEAN]
      BY <1>8, <2>2, <2>4, <2>5 DEF Fnf!HandleFirstFragment, Fnf!Received, Fnf!Connect
    <3>. QED
      BY <3>1, <3>2, <3>3, <3>4, <1>8, <2>2, <2>4, <2>5
  <2>7. TakesFirstFragment
    BY ZenonT(40), <1>8, <2>2, <2>4, <2>5 DEF Fnf!HandleFirstFragment, Fnf!Received, Fnf!Connect, TakesFirstFragment, TakesAtResponder, SameRequester, asker, answerer
  <2>. QED
    BY <2>6, <2>5, <2>7 DEF Effect, ResponderEffect
<1>9. ASSUME Fnf!HandleLastFragment
      PROVE  TypeOK' /\ Effect
  <2>1. Transfer(Responder, TRUE, <<>>)
    BY <1>9 DEF Fnf!Reply, Fnf!Transfer, Transfer, Fnf!Other, Other, Fnf!HandleLastFragment, Fnf!CallHandler
  <2>2. pipe[Responder] # <<>> /\ Head(pipe[Responder]) \in Frames
    BY <1>9, HeadType DEF Fnf!HandleLastFragment, Fnf!Routed, Fnf!Received
  <2>3. <<>> \in Seq(Frames)
    BY FramesType
  <2>4. /\ pipe' \in [Peers -> Seq(Frames)]
        /\ pipe'[Responder] = Tail(pipe[Responder])
        /\ pipe'[Requester] = After(pipe[Requester], <<>>)
    BY <2>1, <2>2, <2>3, TransferEffect DEF Other
  <2>5. TypeOK'
    <3>1. stream' \in [Peers -> StreamFields]
      <4>1. stream' = [stream EXCEPT ![Responder].phase = "handler", ![Responder].hasFragments = FALSE]
        BY <1>9, <2>2, <2>4 DEF Fnf!HandleLastFragment, Fnf!Routed, Fnf!Received, Fnf!Disconnect, Fnf!CallHandler
      <4>. QED
        BY ONLY ZenonT(40), <1>0, <4>1 DEF Peers, StreamFields, Requester, Responder
    <3>2. registered' \in [Peers -> BOOLEAN] /\ connected' \in [Peers -> BOOLEAN]
      BY <1>9, <2>2, <2>4 DEF Fnf!HandleLastFragment, Fnf!Routed, Fnf!Received, Fnf!Disconnect, Fnf!CallHandler
    <3>3. publisher' \in [handled : Nat, credit : Nat, published : Nat, ended : BOOLEAN, cancels : Nat]
      <4>1. publisher' = [publisher EXCEPT !.handled = @ + 1, !.credit = 0]
        BY <1>9, <2>2, <2>4 DEF Fnf!HandleLastFragment, Fnf!Routed, Fnf!Received, Fnf!Disconnect, Fnf!CallHandler
      <4>2. publisher.handled + 1 \in Nat /\ 0 \in Nat
        BY SMTT(40), <1>9, <2>2, <2>4
      <4>. QED
        BY ONLY <1>0, <4>1, <4>2
    <3>4. subscriber' \in [signals : Seq({"next", "complete", "error"}), demand : Nat, cancelled : BOOLEAN]
      BY <1>9, <2>2, <2>4 DEF Fnf!HandleLastFragment, Fnf!Routed, Fnf!Received, Fnf!Disconnect, Fnf!CallHandler
    <3>. QED
      BY <3>1, <3>2, <3>3, <3>4, <1>9, <2>2, <2>4
  <2>6. CallsHandler(0)
    BY ZenonT(40), <1>9, <2>2, <2>4 DEF Fnf!HandleLastFragment, Fnf!Routed, Fnf!Received, Fnf!Disconnect, Fnf!CallHandler, CallsHandler, TakesAtResponder, SameRequester, asker, answerer
  <2>. QED
    BY <2>5, <2>6 DEF Effect, ResponderEffect
<1>10. ASSUME Fnf!IgnoreRequest
      PROVE  TypeOK' /\ Effect
  <2>1. Transfer(Responder, TRUE, <<>>)
    BY <1>10 DEF Fnf!Reply, Fnf!Transfer, Transfer, Fnf!Other, Other, Fnf!IgnoreRequest
  <2>2. pipe[Responder] # <<>> /\ Head(pipe[Responder]) \in Frames
    BY <1>10, HeadType DEF Fnf!IgnoreRequest, Fnf!Routed, Fnf!Received
  <2>3. <<>> \in Seq(Frames)
    BY FramesType
  <2>4. /\ pipe' \in [Peers -> Seq(Frames)]
        /\ pipe'[Responder] = Tail(pipe[Responder])
        /\ pipe'[Requester] = After(pipe[Requester], <<>>)
    BY <2>1, <2>2, <2>3, TransferEffect DEF Other
  <2>5. TypeOK'
    BY ZenonT(40), <1>10, <2>2, <2>3, <2>4 DEF Fnf!IgnoreRequest, Fnf!Received
  <2>6. Rejects(<<>>)
    BY <1>10, <2>2, <2>3, <2>4 DEF Fnf!IgnoreRequest, Fnf!Received, Rejects, TakesAtResponder, SameRequester, asker, answerer
  <2>. QED
    BY <2>5, <2>3, <2>6 DEF Effect, ResponderEffect
<1>11. ASSUME NEW phase \in {"ready", "failed"}, Fnf!HandlerEnds(phase)
      PROVE  TypeOK' /\ Effect
  <2>1. TypeOK'
    BY ZenonT(40), <1>11 DEF Fnf!HandlerEnds
  <2>2. HandlerEnds
    BY <1>11 DEF Fnf!HandlerEnds, HandlerEnds, SameRequester, asker, answerer
  <2>. QED
    BY <2>1, <2>2 DEF Effect, ResponderEffect
<1>12. ASSUME Fnf!CloseResponder
      PROVE  TypeOK' /\ Effect
  <2>1. /\ connected[Responder] /\ connected' = [connected EXCEPT ![Responder] = FALSE]
        /\ pipe' = [pipe EXCEPT ![Responder] = <<>>] /\ stream[Responder].phase # "handler"
        /\ registered' = registered /\ subscriber' = subscriber
    BY <1>12 DEF Fnf!CloseResponder, Fnf!Hangup
  <2>2. /\ pipe' \in [Peers -> Seq(Frames)] /\ connected' \in [Peers -> BOOLEAN]
        /\ pipe'[Responder] = <<>> /\ pipe'[Requester] = pipe[Requester]
        /\ ~connected'[Responder] /\ connected'[Requester] = connected[Requester]
    BY <2>1
  <2>3. CASE registered[Responder]
    <3>1. stream' = [stream EXCEPT ![Responder] = [@ EXCEPT !.done = TRUE, !.hasFragments = FALSE]]
      BY <1>12, <2>3 DEF Fnf!CloseResponder, Fnf!Finish, Fnf!Finished
    <3>2. stream' \in [Peers -> StreamFields]
      BY ONLY ZenonT(40), <1>0, <3>1 DEF Peers, StreamFields, Requester, Responder
    <3>3. \/ publisher' = [publisher EXCEPT !.cancels = @ + 1]
          \/ publisher' = publisher
      BY <1>12, <2>3, <1>0 DEF Fnf!CloseResponder, Fnf!CancelPublisher
    <3>4. publisher.cancels + 1 \in Nat
      BY <1>0
    <3>5. publisher' \in [handled : Nat, credit : Nat, published : Nat, ended : BOOLEAN, cancels : Nat]
      BY ONLY <1>0, <3>3, <3>4
    <3>6. TypeOK'
      BY <2>1, <2>2, <3>2, <3>5
    <3>7. ClosesResponder
      BY <2>1, <2>2, <2>3, <3>1, <3>3 DEF ClosesResponder, SameRequester, asker, answerer
    <3>. QED
      BY <3>6, <3>7 DEF Effect, ResponderEffect
  <2>4. CASE ~registered[Responder]
    <3>1. stream' = stream /\ publisher' = publisher
      BY <1>12, <2>4 DEF Fnf!CloseResponder
    <3>2. TypeOK'
      BY <2>1, <2>2, <3>1
    <3>3. ClosesResponder
      BY <2>1, <2>2, <3>1 DEF ClosesResponder, SameRequester, asker, answerer
    <3>. QED
      BY <3>2, <3>3 DEF Effect, ResponderEffect
  <2>. QED
    BY <2>3, <2>4
<1>. QED
  BY <1>1, <1>2, <1>3, <1>4, <1>5, <1>6, <1>7, <1>8, <1>9, <1>10, <1>11, <1>12 DEF Fnf!Next, Fnf!Subscriber, Fnf!Receive, Fnf!Handler, Fnf!Peers

\* A step of any interaction has one of the effects.
LEMMA StepEffect ==
  ASSUME TypeOK, PhaseInv, EndsInv, Next
  PROVE  TypeOK' /\ Effect
<1>1. CASE StreamStep
  <2>1. kind = "stream" /\ kind' = kind /\ Stream!Next
    BY <1>1 DEF StreamStep
  <2>. QED
    BY <2>1, StreamSteps
<1>2. CASE ResponseStep
  <2>1. kind = "response" /\ kind' = kind /\ Response!Next
    BY <1>2 DEF ResponseStep
  <2>. QED
    BY <2>1, ResponseSteps
<1>3. CASE FnfStep
  <2>1. kind = "fnf" /\ kind' = kind /\ Fnf!Next
    BY <1>3 DEF FnfStep
  <2>. QED
    BY <2>1, FnfSteps
<1>. QED
  BY <1>1, <1>2, <1>3 DEF Next

-----------------------------------------------------------------------------
(* Each effect preserves each part of the invariant. *)

\* The request finds no stream at the responder.
LEMMA RequestFindsNone ==
  ASSUME IInv, pipe[Responder] # <<>>, Head(pipe[Responder]).type = "REQUEST"
  PROVE  answerer.phase = "none"
<1>1. pipe[Responder] \in Seq(Frames)
  BY DEF IInv, TypeOK, Peers
<1>1a. Range(pipe[Responder]) = {Head(pipe[Responder])} \cup Range(Tail(pipe[Responder]))
  BY ONLY <1>1, pipe[Responder] # <<>>, TailFacts
<1>2. Head(pipe[Responder]) \in Range(pipe[Responder])
  BY <1>1a
<1>. QED
  BY <1>2 DEF IInv, RequestInv

\* The request is not handled twice, the registries follow the phases, and the
\* publisher is neither cancelled twice nor after it ended.
LEMMA PhaseStep ==
  ASSUME IInv, TypeOK', Effect
  PROVE  PhaseInv' /\ RegistryInv' /\ PublisherInv'
<1>. USE DEF PhaseInv, RegistryInv, PublisherInv, asker, answerer, IsOpen, After, SameAsker, SameAnswerer, SameResponder, SameRequester
<1>0. /\ PhaseInv /\ RegistryInv /\ PublisherInv /\ KindInv /\ registered[Responder] \in BOOLEAN
      /\ publisher \in [handled : Nat, credit : Nat, published : Nat, ended : BOOLEAN, cancels : Nat]
      /\ pipe[Responder] # <<>> /\ Head(pipe[Responder]).type = "REQUEST" => answerer.phase = "none"
  BY RequestFindsNone DEF IInv, TypeOK, Peers
<1>1. ASSUME NEW n \in Nat, NEW fragmented \in BOOLEAN, Asks(n, fragmented)
      PROVE  PhaseInv' /\ RegistryInv' /\ PublisherInv'
  BY <1>0, <1>1 DEF Asks
<1>2. ASSUME Waits
      PROVE  PhaseInv' /\ RegistryInv' /\ PublisherInv'
  BY <1>0, <1>2 DEF Waits
<1>3. ASSUME NEW n \in Nat, AsksMore(n)
      PROVE  PhaseInv' /\ RegistryInv' /\ PublisherInv'
  BY <1>0, <1>3 DEF AsksMore
<1>4. ASSUME Cancels
      PROVE  PhaseInv' /\ RegistryInv' /\ PublisherInv'
  BY <1>0, <1>4 DEF Cancels
<1>5. ASSUME DropsAtRequester
      PROVE  PhaseInv' /\ RegistryInv' /\ PublisherInv'
  BY <1>0, <1>5 DEF DropsAtRequester, TakesAtRequester
<1>6. ASSUME TakesFragment
      PROVE  PhaseInv' /\ RegistryInv' /\ PublisherInv'
  BY <1>0, <1>6 DEF TakesFragment, TakesAtRequester
<1>7. ASSUME TakesPayload
      PROVE  PhaseInv' /\ RegistryInv' /\ PublisherInv'
  BY <1>0, <1>7 DEF TakesPayload, TakesAtRequester
<1>8. ASSUME TakesError
      PROVE  PhaseInv' /\ RegistryInv' /\ PublisherInv'
  BY <1>0, <1>8 DEF TakesError, TakesAtRequester
<1>9. ASSUME ClosesRequester
      PROVE  PhaseInv' /\ RegistryInv' /\ PublisherInv'
  BY <1>0, <1>9 DEF ClosesRequester
<1>10. ASSUME DropsAtResponder
      PROVE  PhaseInv' /\ RegistryInv' /\ PublisherInv'
  BY <1>0, <1>10 DEF DropsAtResponder, TakesAtResponder
<1>11. ASSUME NEW n \in Nat, CallsHandler(n)
      PROVE  PhaseInv' /\ RegistryInv' /\ PublisherInv'
  <2>1. PhaseInv'
    BY <1>0, <1>11 DEF CallsHandler, TakesAtResponder
  <2>2. RegistryInv'
    BY <1>0, <1>11 DEF CallsHandler, TakesAtResponder
  <2>3. PublisherInv'
    BY <1>0, <1>11 DEF CallsHandler, TakesAtResponder
  <2>. QED
    BY <2>1, <2>2, <2>3
<1>12. ASSUME TakesFirstFragment
      PROVE  PhaseInv' /\ RegistryInv' /\ PublisherInv'
  BY <1>0, <1>12 DEF TakesFirstFragment, TakesAtResponder
<1>13. ASSUME NEW frames \in Seq(Frames), Rejects(frames)
      PROVE  PhaseInv' /\ RegistryInv' /\ PublisherInv'
  BY <1>0, <1>13 DEF Rejects, TakesAtResponder
<1>14. ASSUME HandlerEnds
      PROVE  PhaseInv' /\ RegistryInv' /\ PublisherInv'
  BY <1>0, <1>14 DEF HandlerEnds
<1>15. ASSUME NEW frames \in Seq(Frames), HandlerFails(frames)
      PROVE  PhaseInv' /\ RegistryInv' /\ PublisherInv'
  BY <1>0, <1>15 DEF HandlerFails
<1>16. ASSUME TakesDemand
      PROVE  PhaseInv' /\ RegistryInv' /\ PublisherInv'
  BY <1>0, <1>16 DEF TakesDemand, TakesAtResponder
<1>17. ASSUME TakesCancel
      PROVE  PhaseInv' /\ RegistryInv' /\ PublisherInv'
  BY <1>0, <1>17 DEF TakesCancel, TakesAtResponder
<1>18. ASSUME ClosesResponder
      PROVE  PhaseInv' /\ RegistryInv' /\ PublisherInv'
  <2>1. PhaseInv'
    BY <1>0, <1>18 DEF ClosesResponder
  <2>2. RegistryInv'
    BY <1>0, <1>18 DEF ClosesResponder
  <2>3. PublisherInv'
    BY <1>0, <1>18 DEF ClosesResponder
  <2>. QED
    BY <2>1, <2>2, <2>3
<1>19. ASSUME NEW frames \in Seq(Frames), NEW items \in {0, 1}, NEW ends \in BOOLEAN, Publishes(frames, items, ends)
      PROVE  PhaseInv' /\ RegistryInv' /\ PublisherInv'
  BY <1>0, <1>19 DEF Publishes
<1>. QED
  BY <1>1, <1>2, <1>3, <1>4, <1>5, <1>6, <1>7, <1>8, <1>9, <1>10, <1>11, <1>12, <1>13, <1>14, <1>15, <1>16, <1>17, <1>18, <1>19 DEF Effect, RequesterEffect, ResponderEffect

\* A request is one frame, or two that belong together.
IsRequest(r, n) ==
  /\ r \in Seq(Frames) /\ r # <<>> /\ Head(r).type = "REQUEST" /\ Head(r).requestN = n
  /\ Head(r).follows => Tail(r) # <<>> /\ Head(Tail(r)).type = "PAYLOAD"
  /\ \A f \in Range(Tail(r)) : f.type = "PAYLOAD"

\* What the requester sends first is a request.
LEMMA RequestFacts ==
  ASSUME NEW n \in Nat, NEW fragmented \in BOOLEAN, NEW r, r = Request(n, fragmented)
  PROVE  IsRequest(r, n)
<1>. USE DEF IsRequest
<1>2. r \in Seq(Frames)
  BY FramesType
<1>3. CASE fragmented
  <2>1. r = <<RequestFrame(n, TRUE), PayloadFrame(TRUE, FALSE, FALSE)>>
    BY <1>3 DEF Request
  <2>2. PICK f : f = PayloadFrame(TRUE, FALSE, FALSE)
    OBVIOUS
  <2>3. Len(r) = 2 /\ Head(r) = RequestFrame(n, TRUE) /\ r # <<>> /\ r[2] = f
    BY <2>1, <2>2
  <2>4. PICK t : t = Tail(r)
    OBVIOUS
  <2>5. t \in Seq(Frames) /\ Len(t) = 1 /\ t[1] = f
    BY <1>2, <2>3, <2>4, HeadTailProperties
  <2>6. t # <<>> /\ Head(t) = f /\ Range(t) = {f}
    BY <2>5 DEF Range
  <2>. QED
    BY <1>2, <2>2, <2>3, <2>4, <2>6 DEF RequestFrame, PayloadFrame
<1>4. CASE ~fragmented
  <2>1. r = <<RequestFrame(n, FALSE)>>
    BY <1>4 DEF Request
  <2>2. Head(r) = RequestFrame(n, FALSE) /\ r # <<>> /\ Tail(r) = <<>>
    BY <2>1
  <2>3. Range(<<>>) = {}
    BY DEF Range
  <2>4. Head(r).type = "REQUEST" /\ Head(r).requestN = n /\ ~Head(r).follows
    BY <2>2 DEF RequestFrame
  <2>. QED
    BY <1>2, <2>2, <2>3, <2>4
<1>. QED
  BY <1>3, <1>4

\* What is sent after the request.
LEMMA SendsLater ==
  ASSUME IInv, NEW g \in Frames, g.type # "REQUEST",
         asker.phase = "ready", asker'.phase = "ready", answerer' = answerer,
         connected' = connected, pipe'[Responder] = After(pipe[Responder], <<g>>)
  PROVE  RequestInv'
<1>. USE DEF RequestInv, asker, answerer, IsOpen
<1>1. RequestInv /\ pipe[Responder] \in Seq(Frames)
  BY DEF IInv, TypeOK, Peers
<1>2. PICK s \in Seq(Frames) : s = pipe[Responder]
  BY <1>1
<1>3. PICK u : u = <<g>>
  OBVIOUS
<1>4. u \in Seq(Frames) /\ Range(u) = {g} /\ u # <<>> /\ Head(u) = g /\ Tail(u) = <<>> /\ Range(Tail(u)) = {}
  BY <1>3, SingleFacts
<1>5. CASE ~IsOpen
  <2>1. pipe'[Responder] = pipe[Responder]
    BY <1>5 DEF After
  <2>. QED
    BY <1>1, <1>5, <2>1
<1>6. CASE IsOpen /\ s = <<>>
  <2>1. pipe'[Responder] = u
    BY <1>2, <1>3, <1>4, <1>6, AppendFacts DEF After
  <2>. QED
    BY <1>1, <1>2, <1>4, <1>6, <2>1
<1>7. CASE IsOpen /\ s # <<>>
  <2>1. PICK t : t = s \o u
    OBVIOUS
  <2>2. PICK l \in Seq(Frames) : l = Tail(s)
    BY <1>7, TailFacts
  <2>3. PICK m : m = l \o u
    OBVIOUS
  <2>4. /\ pipe'[Responder] = t
        /\ t # <<>> /\ Head(t) = Head(s) /\ Tail(t) = m /\ Range(t) = Range(s) \cup {g}
    <3>1. pipe'[Responder] = t
      BY <1>2, <1>3, <1>7, <2>1 DEF After
    <3>2. /\ t # <<>> /\ Head(t) = Head(s) /\ Tail(t) = Tail(s) \o u
          /\ Range(t) = Range(s) \cup Range(u)
      BY SMTT(40), <1>4, <1>7, <2>1, AppendFacts
    <3>3. Tail(t) = m
      BY <2>2, <2>3, <3>2
    <3>. QED
      BY <1>4, <3>1, <3>2, <3>3
  <2>5. /\ Range(m) = Range(l) \cup {g}
        /\ l # <<>> => m # <<>> /\ Head(m) = Head(l)
    BY SMTT(40), <1>4, <2>3, AppendFacts
  <2>. QED
    BY <1>1, <1>2, <1>7, <2>2, <2>4, <2>5
<1>. QED
  BY <1>5, <1>6, <1>7

\* The request stays first, and its last fragment right after it.
LEMMA RequestStep ==
  ASSUME IInv, TypeOK', Effect
  PROVE  RequestInv'
<1>. USE DEF RequestInv, asker, answerer, IsOpen, After, SameAsker, SameAnswerer, SameResponder, SameRequester
<1>0. /\ PhaseInv /\ RegistryInv /\ RequestInv /\ KindInv
      /\ pipe[Responder] \in Seq(Frames)
      /\ pipe[Responder] # <<>> /\ Head(pipe[Responder]).type = "REQUEST" => answerer.phase = "none"
  BY RequestFindsNone DEF IInv, TypeOK, Peers
<1>a. /\ pipe[Responder] # <<>> =>
           /\ Tail(pipe[Responder]) \in Seq(Frames)
           /\ Range(pipe[Responder]) = {Head(pipe[Responder])} \cup Range(Tail(pipe[Responder]))
      /\ pipe[Responder] # <<>> /\ Tail(pipe[Responder]) # <<>> =>
           Range(Tail(pipe[Responder]))
             = {Head(Tail(pipe[Responder]))} \cup Range(Tail(Tail(pipe[Responder])))
  BY <1>0, TailFacts
<1>1. ASSUME NEW n \in Nat, NEW fragmented \in BOOLEAN, Asks(n, fragmented)
      PROVE  RequestInv'
  <2>1. PICK r : r = Request(n, fragmented)
    OBVIOUS
  <2>2. /\ r \in Seq(Frames) /\ r # <<>> /\ Head(r).type = "REQUEST"
        /\ Head(r).follows => Tail(r) # <<>> /\ Head(Tail(r)).type = "PAYLOAD"
        /\ \A f \in Range(Tail(r)) : f.type = "PAYLOAD"
    <3>1. IsRequest(r, n)
      BY ONLY <2>1, RequestFacts
    <3>. QED
      BY ONLY <3>1, Zenon DEF IsRequest
  <2>3. pipe'[Responder] = IF IsOpen THEN r ELSE <<>>
    <3>1. pipe[Responder] = <<>>
      BY <1>0, <1>1 DEF Asks, PhaseInv
    <3>2. <<>> \o r = r
      BY <2>2, ConcatEmptySeq
    <3>. QED
      BY <1>1, <2>1, <3>1, <3>2 DEF Asks
  <2>4. answerer.phase = "none" /\ answerer' = answerer /\ (IsOpen' => IsOpen)
    BY <1>0, <1>1 DEF Asks, PhaseInv
  <2>. QED
    BY <2>2, <2>3, <2>4
<1>2. ASSUME Waits
      PROVE  RequestInv'
  BY <1>0, <1>2, <1>a DEF Waits, PhaseInv, RegistryInv
<1>3. ASSUME NEW n \in Nat, AsksMore(n)
      PROVE  RequestInv'
  <2>1. RequestNFrame(n) \in Frames /\ RequestNFrame(n).type # "REQUEST"
    BY <1>3 DEF AsksMore, RequestNFrame, Frames
  <2>2. asker.phase = "ready" /\ asker'.phase = "ready" /\ answerer' = answerer
        /\ connected' = connected /\ pipe'[Responder] = After(pipe[Responder], <<RequestNFrame(n)>>)
    BY <1>3 DEF AsksMore
  <2>. QED
    BY <2>1, <2>2, SendsLater
<1>4. ASSUME Cancels
      PROVE  RequestInv'
  <2>1. CancelFrame \in Frames /\ CancelFrame.type # "REQUEST"
    BY DEF CancelFrame, Frames
  <2>2. asker.phase = "ready" /\ asker'.phase = "ready" /\ answerer' = answerer
        /\ connected' = connected /\ pipe'[Responder] = After(pipe[Responder], <<CancelFrame>>)
    BY <1>4 DEF Cancels
  <2>. QED
    BY <2>1, <2>2, SendsLater
<1>5. ASSUME DropsAtRequester
      PROVE  RequestInv'
  BY <1>0, <1>5, <1>a DEF DropsAtRequester, TakesAtRequester, PhaseInv, RegistryInv
<1>6. ASSUME TakesFragment
      PROVE  RequestInv'
  BY <1>0, <1>6, <1>a DEF TakesFragment, TakesAtRequester, PhaseInv, RegistryInv
<1>7. ASSUME TakesPayload
      PROVE  RequestInv'
  BY <1>0, <1>7, <1>a DEF TakesPayload, TakesAtRequester, PhaseInv, RegistryInv
<1>8. ASSUME TakesError
      PROVE  RequestInv'
  BY <1>0, <1>8, <1>a DEF TakesError, TakesAtRequester, PhaseInv, RegistryInv
<1>9. ASSUME ClosesRequester
      PROVE  RequestInv'
  BY <1>0, <1>9, <1>a DEF ClosesRequester, PhaseInv, RegistryInv
<1>10. ASSUME DropsAtResponder
      PROVE  RequestInv'
  BY <1>0, <1>10, <1>a DEF DropsAtResponder, TakesAtResponder, PhaseInv, RegistryInv
<1>11. ASSUME NEW n \in Nat, CallsHandler(n)
      PROVE  RequestInv'
  BY <1>0, <1>11, <1>a DEF CallsHandler, TakesAtResponder, PhaseInv, RegistryInv
<1>12. ASSUME TakesFirstFragment
      PROVE  RequestInv'
  BY <1>0, <1>12, <1>a DEF TakesFirstFragment, TakesAtResponder, PhaseInv, RegistryInv
<1>13. ASSUME NEW frames \in Seq(Frames), Rejects(frames)
      PROVE  RequestInv'
  BY <1>0, <1>13, <1>a DEF Rejects, TakesAtResponder, PhaseInv, RegistryInv
<1>14. ASSUME HandlerEnds
      PROVE  RequestInv'
  BY <1>0, <1>14, <1>a DEF HandlerEnds, PhaseInv, RegistryInv
<1>15. ASSUME NEW frames \in Seq(Frames), HandlerFails(frames)
      PROVE  RequestInv'
  BY <1>0, <1>15, <1>a DEF HandlerFails, PhaseInv, RegistryInv
<1>16. ASSUME TakesDemand
      PROVE  RequestInv'
  BY <1>0, <1>16, <1>a DEF TakesDemand, TakesAtResponder, PhaseInv, RegistryInv
<1>17. ASSUME TakesCancel
      PROVE  RequestInv'
  BY <1>0, <1>17, <1>a DEF TakesCancel, TakesAtResponder, PhaseInv, RegistryInv
<1>18. ASSUME ClosesResponder
      PROVE  RequestInv'
  <2>1. pipe'[Responder] = <<>> /\ Range(<<>>) = {} /\ ~connected'[Responder]
    BY <1>18, SingleFacts DEF ClosesResponder
  <2>. QED
    BY <2>1
<1>19. ASSUME NEW frames \in Seq(Frames), NEW items \in {0, 1}, NEW ends \in BOOLEAN, Publishes(frames, items, ends)
      PROVE  RequestInv'
  BY <1>0, <1>19, <1>a DEF Publishes, PhaseInv, RegistryInv
<1>. QED
  BY <1>1, <1>2, <1>3, <1>4, <1>5, <1>6, <1>7, <1>8, <1>9, <1>10, <1>11, <1>12, <1>13, <1>14, <1>15, <1>16, <1>17, <1>18, <1>19 DEF Effect, RequesterEffect, ResponderEffect

\* What is on its way once frames are sent.
LEMMA AfterFacts ==
  ASSUME NEW s \in Seq(Frames), NEW t \in Seq(Frames)
  PROVE  /\ After(s, t) \in Seq(Frames)
         /\ IsOpen => Range(After(s, t)) = Range(s) \cup Range(t)
         /\ ~IsOpen => After(s, t) = s
BY AppendFacts DEF After

\* A payload completes the stream in its last frame, if at all.
LEMMA PayloadFacts ==
  ASSUME NEW complete \in BOOLEAN, NEW fragmented \in BOOLEAN
  PROVE  /\ Payload(complete, fragmented) \in Seq(Frames)
         /\ \A f \in Range(Payload(complete, fragmented)) :
              /\ f.type = "PAYLOAD"
              /\ f.follows => ~f.complete
              /\ ~f.follows => f.complete = complete
         /\ \E f \in Range(Payload(complete, fragmented)) : ~f.follows /\ f.complete = complete
<1>1. PICK r : r = Payload(complete, fragmented)
  OBVIOUS
<1>2. r \in Seq(Frames)
  BY <1>1, FramesType
<1>3. PICK f : f = PayloadFrame(TRUE, FALSE, TRUE)
  OBVIOUS
<1>4. PICK g : g = PayloadFrame(TRUE, complete, FALSE)
  OBVIOUS
<1>5. Range(r) \subseteq {f, g} /\ g \in Range(r)
  <2>1. CASE fragmented
    <3>1. r = <<f, g>>
      BY <1>1, <1>3, <1>4, <2>1 DEF Payload
    <3>. QED
      BY <3>1 DEF Range
  <2>2. CASE ~fragmented
    <3>1. r = <<g>>
      BY <1>1, <1>4, <2>2 DEF Payload
    <3>. QED
      BY <3>1 DEF Range
  <2>. QED
    BY <2>1, <2>2
<1>6. /\ f.type = "PAYLOAD" /\ f.follows = TRUE /\ f.complete = FALSE
      /\ g.type = "PAYLOAD" /\ g.follows = FALSE /\ g.complete = complete
  BY <1>3, <1>4 DEF PayloadFrame
<1>7. /\ \A x \in Range(r) : /\ x.type = "PAYLOAD" /\ (x.follows => ~x.complete)
                             /\ ~x.follows => x.complete = complete
      /\ \E x \in Range(r) : ~x.follows /\ x.complete = complete
  BY <1>5, <1>6
<1>. QED
  BY <1>1, <1>2, <1>7

\* Nothing follows a frame that ends the stream.
LEMMA EndsLastTail ==
  ASSUME NEW s \in Seq(Frames), s # <<>>, EndsLast(s)
  PROVE  /\ EndsLast(Tail(s))
         /\ Ends(Head(s)) => Tail(s) = <<>>
<1>1. PICK l : l = Tail(s)
  OBVIOUS
<1>2. PICK m \in Nat : m = Len(s)
  BY LenProperties
<1>3. /\ l \in Seq(Frames) /\ Len(l) = m - 1 /\ m > 0
      /\ \A i \in 1 .. m - 1 : l[i] = s[i + 1]
      /\ Head(s) = s[1]
  BY <1>1, <1>2, HeadTailProperties
<1>4. ASSUME NEW i \in 1 .. Len(l) - 1
      PROVE  ~Ends(l[i])
  <2>1. i \in 1 .. m - 1 /\ i + 1 \in 1 .. m - 1
    BY <1>2, <1>3
  <2>2. ~Ends(s[i + 1])
    BY <1>2, <2>1 DEF EndsLast
  <2>. QED
    BY <1>3, <2>1, <2>2
<1>5. ASSUME Ends(Head(s)), l # <<>>
      PROVE  FALSE
  <2>1. 1 \in 1 .. m - 1
    BY <1>2, <1>3, <1>5
  <2>2. ~Ends(s[1])
    BY <1>2, <2>1 DEF EndsLast
  <2>. QED
    BY <1>3, <1>5, <2>2
<1>. QED
  BY <1>1, <1>4, <1>5 DEF EndsLast

\* Frames that end the stream, if any, may follow frames that do not.
LEMMA EndsLastAppend ==
  ASSUME NEW s \in Seq(Frames), NEW t \in Seq(Frames),
         \A f \in Range(s) : ~Ends(f), EndsLast(t)
  PROVE  EndsLast(s \o t)
<1>1. PICK r : r = s \o t
  OBVIOUS
<1>2. PICK m \in Nat : m = Len(s)
  BY LenProperties
<1>3. PICK k \in Nat : k = Len(t)
  BY LenProperties
<1>4. /\ Len(r) = m + k
      /\ \A i \in 1 .. m : r[i] = s[i]
      /\ \A i \in 1 .. k : r[m + i] = t[i]
  BY <1>1, <1>2, <1>3
<1>5. ASSUME NEW i \in 1 .. Len(r) - 1
      PROVE  ~Ends(r[i])
  <2>1. CASE i \in 1 .. m
    <3>1. s[i] \in Range(s)
      BY <1>2, <2>1, LenProperties DEF Range
    <3>. QED
      BY <1>4, <2>1, <3>1
  <2>2. CASE i \notin 1 .. m
    <3>1. i - m \in 1 .. k - 1 /\ i - m \in 1 .. k /\ m + (i - m) = i
      BY <1>4, <2>2
    <3>2. ~Ends(t[i - m])
      BY <1>3, <3>1 DEF EndsLast
    <3>3. r[m + (i - m)] = t[i - m]
      BY <1>4, <3>1
    <3>. QED
      BY <3>1, <3>2, <3>3
  <2>. QED
    BY <2>1, <2>2
<1>. QED
  BY <1>1, <1>5 DEF EndsLast

\* What the responder sends at once has its end last.
LEMMA EndsLastOne ==
  /\ EndsLast(<<>>) /\ \A f : EndsLast(<<f>>)
  /\ \A complete, fragmented \in BOOLEAN : EndsLast(Payload(complete, fragmented))
<1>1. EndsLast(<<>>)
  BY DEF EndsLast
<1>2. ASSUME NEW f
      PROVE  EndsLast(<<f>>)
  BY DEF EndsLast
<1>3. ASSUME NEW complete \in BOOLEAN, NEW fragmented \in BOOLEAN
      PROVE  EndsLast(Payload(complete, fragmented))
  <2>1. CASE fragmented
    <3>1. PICK f : f = PayloadFrame(TRUE, FALSE, TRUE)
      OBVIOUS
    <3>2. PICK g : g = PayloadFrame(TRUE, complete, FALSE)
      OBVIOUS
    <3>3. PICK r : r = <<f, g>>
      OBVIOUS
    <3>4. Len(r) = 2 /\ r[1] = f /\ Payload(complete, fragmented) = r
      BY <2>1, <3>1, <3>2, <3>3 DEF Payload
    <3>5. ~Ends(f)
      BY <3>1 DEF Ends, PayloadFrame
    <3>6. \A i \in 1 .. Len(r) - 1 : ~Ends(r[i])
      BY <3>4, <3>5
    <3>. QED
      BY <3>4, <3>6 DEF EndsLast
  <2>2. CASE ~fragmented
    <3>1. PICK g : g = PayloadFrame(TRUE, complete, FALSE)
      OBVIOUS
    <3>2. Payload(complete, fragmented) = <<g>>
      BY <2>2, <3>1 DEF Payload
    <3>. QED
      BY <1>2, <3>2
  <2>. QED
    BY <2>1, <2>2
<1>. QED
  BY <1>1, <1>2, <1>3

\* A frame that ends the stream stays the last; and while one end is over and
\* the other is not, what ends the other stays on its way.
LEMMA EndsStep ==
  ASSUME IInv, TypeOK', Effect
  PROVE  EndsInv'
<1>. USE DEF EndsInv, Ends, asker, answerer, IsOpen, SameAsker, SameAnswerer, SameResponder, SameRequester
<1>0. /\ PhaseInv /\ RegistryInv /\ RequestInv /\ EndsInv /\ KindInv
      /\ pipe[Requester] \in Seq(Frames) /\ pipe[Responder] \in Seq(Frames)
  BY DEF IInv, TypeOK, Peers
<1>a. /\ pipe[Requester] # <<>> =>
           Range(pipe[Requester]) = {Head(pipe[Requester])} \cup Range(Tail(pipe[Requester]))
      /\ pipe[Responder] # <<>> =>
           Range(pipe[Responder]) = {Head(pipe[Responder])} \cup Range(Tail(pipe[Responder]))
      /\ After(pipe[Requester], <<>>) = pipe[Requester]
      /\ pipe[Requester] # <<>> => EndsLast(Tail(pipe[Requester]))
      /\ pipe[Responder] # <<>> /\ Head(pipe[Responder]).type = "REQUEST" => answerer.phase = "none"
  BY <1>0, TailFacts, EndsLastTail, RequestFindsNone, AfterNothing DEF IInv, Peers
<1>1. ASSUME NEW n \in Nat, NEW fragmented \in BOOLEAN, Asks(n, fragmented)
      PROVE  EndsInv'
  <2>1. PICK r : r = Request(n, fragmented)
    OBVIOUS
  <2>2. r \in Seq(Frames) /\ \A f \in Range(r) : f.type # "CANCEL"
    <3>0. IsRequest(r, n)
      BY ONLY <2>1, RequestFacts
    <3>1. r \in Seq(Frames) /\ r # <<>> /\ Head(r).type = "REQUEST"
      BY ONLY <3>0, Zenon DEF IsRequest
    <3>3. \A f \in Range(Tail(r)) : f.type = "PAYLOAD"
      BY ONLY <3>0, Zenon DEF IsRequest
    <3>4. Range(r) = {Head(r)} \cup Range(Tail(r))
      BY <3>1, TailFacts
    <3>. QED
      BY <3>1, <3>3, <3>4
  <2>3. \A f \in Range(pipe'[Responder]) : f \in Range(pipe[Responder]) \/ f.type # "CANCEL"
    <3>1. pipe'[Responder] = After(pipe[Responder], r)
      BY <1>1, <2>1 DEF Asks
    <3>. QED
      BY <1>0, <2>2, <3>1, AfterFacts
  <2>. QED
    BY <1>0, <1>1, <2>3 DEF Asks, PhaseInv
<1>2. ASSUME Waits
      PROVE  EndsInv'
  BY <1>0, <1>2, <1>a DEF Waits, PhaseInv, RegistryInv, RequestInv
<1>3. ASSUME NEW n \in Nat, AsksMore(n)
      PROVE  EndsInv'
  <2>1. RequestNFrame(n) \in Frames
    BY <1>3 DEF AsksMore, RequestNFrame, Frames
  <2>2. PICK u : u = <<RequestNFrame(n)>>
    OBVIOUS
  <2>2a. u \in Seq(Frames) /\ Range(u) = {RequestNFrame(n)}
    BY <2>1, <2>2, SingleFacts
  <2>3. /\ IsOpen => Range(pipe'[Responder]) = Range(pipe[Responder]) \cup {RequestNFrame(n)}
        /\ ~IsOpen => pipe'[Responder] = pipe[Responder]
    <3>1. pipe'[Responder] = After(pipe[Responder], u)
      BY <1>3, <2>2 DEF AsksMore
    <3>. QED
      BY <1>0, <2>2a, <3>1, AfterFacts
  <2>. QED
    BY <1>0, <1>3, <2>3 DEF AsksMore, RequestNFrame
<1>4. ASSUME Cancels
      PROVE  EndsInv'
  <2>1. CancelFrame \in Frames
    BY <1>4 DEF Cancels, CancelFrame, Frames
  <2>2. PICK u : u = <<CancelFrame>>
    OBVIOUS
  <2>2a. u \in Seq(Frames) /\ Range(u) = {CancelFrame}
    BY <2>1, <2>2, SingleFacts
  <2>3. /\ IsOpen => Range(pipe'[Responder]) = Range(pipe[Responder]) \cup {CancelFrame}
        /\ ~IsOpen => pipe'[Responder] = pipe[Responder]
    <3>1. pipe'[Responder] = After(pipe[Responder], u)
      BY <1>4, <2>2 DEF Cancels
    <3>. QED
      BY <1>0, <2>2a, <3>1, AfterFacts
  <2>. QED
    BY <1>0, <1>4, <2>3 DEF Cancels, CancelFrame
<1>5. ASSUME DropsAtRequester
      PROVE  EndsInv'
  BY <1>0, <1>5, <1>a DEF DropsAtRequester, TakesAtRequester, PhaseInv, RegistryInv, RequestInv
<1>6. ASSUME TakesFragment
      PROVE  EndsInv'
  BY <1>0, <1>6, <1>a DEF TakesFragment, TakesAtRequester, PhaseInv, RegistryInv, RequestInv
<1>7. ASSUME TakesPayload
      PROVE  EndsInv'
  BY <1>0, <1>7, <1>a DEF TakesPayload, TakesAtRequester, PhaseInv, RegistryInv, RequestInv
<1>8. ASSUME TakesError
      PROVE  EndsInv'
  BY <1>0, <1>8, <1>a DEF TakesError, TakesAtRequester, PhaseInv, RegistryInv, RequestInv
<1>9. ASSUME ClosesRequester
      PROVE  EndsInv'
  <2>1. Range(<<>>) = {} /\ EndsLast(<<>>)
    BY SingleFacts, EndsLastOne
  <2>. QED
    BY <1>0, <1>9, <2>1 DEF ClosesRequester, PhaseInv, RegistryInv
<1>10. ASSUME DropsAtResponder
      PROVE  EndsInv'
  BY <1>0, <1>10, <1>a DEF DropsAtResponder, TakesAtResponder, PhaseInv, RegistryInv, RequestInv
<1>11. ASSUME NEW n \in Nat, CallsHandler(n)
      PROVE  EndsInv'
  BY <1>0, <1>11, <1>a DEF CallsHandler, TakesAtResponder, PhaseInv, RegistryInv, RequestInv
<1>12. ASSUME TakesFirstFragment
      PROVE  EndsInv'
  BY <1>0, <1>12, <1>a DEF TakesFirstFragment, TakesAtResponder, PhaseInv, RegistryInv, RequestInv
<1>13. ASSUME NEW frames \in Seq(Frames), Rejects(frames)
      PROVE  EndsInv'
  <2>1. frames = <<>> \/ frames = <<ErrorFrame>>
    BY <1>13 DEF Rejects
  <2>2. <<ErrorFrame>> \in Seq(Frames) /\ Range(<<ErrorFrame>>) = {ErrorFrame} /\ <<>> \in Seq(Frames) /\ Range(<<>>) = {}
    BY FramesType, SingleFacts
  <2>3. /\ IsOpen => Range(pipe'[Requester]) = Range(pipe[Requester]) \cup Range(frames)
        /\ ~IsOpen => pipe'[Requester] = pipe[Requester]
    <3>1. pipe'[Requester] = After(pipe[Requester], frames)
      BY <1>13 DEF Rejects, TakesAtResponder
    <3>. QED
      BY <1>0, <2>1, <2>2, <3>1, AfterFacts
  <2>4. ErrorFrame.type = "ERROR"
    BY DEF ErrorFrame
  <2>5. EndsLast(pipe'[Requester])
    <3>1. EndsLast(frames) /\ frames \in Seq(Frames)
      BY <2>1, <2>2, EndsLastOne
    <3>2. CASE IsOpen /\ \A f \in Range(pipe[Requester]) : ~Ends(f)
      <4>1. pipe'[Requester] = pipe[Requester] \o frames
        BY <1>13, <3>2 DEF Rejects, TakesAtResponder, After
      <4>2. EndsLast(pipe[Requester] \o frames)
        BY <1>0, <3>1, <3>2, EndsLastAppend
      <4>. QED
        BY <4>1, <4>2
    <3>3. CASE IsOpen /\ frames = <<>>
      <4>1. pipe'[Requester] = pipe[Requester]
        BY <1>a, <1>13, <3>3 DEF Rejects, TakesAtResponder
      <4>. QED
        BY <1>0, <4>1
    <3>4. CASE ~IsOpen
      BY <1>0, <2>3, <3>4
    <3>5. (\A f \in Range(pipe[Requester]) : ~Ends(f)) \/ frames = <<>>
      BY <1>0, <1>a, <1>13, <2>2 DEF Rejects, TakesAtResponder, PhaseInv
    <3>. QED
      BY <3>2, <3>3, <3>4, <3>5
  <2>. QED
    BY <1>0, <1>a, <1>13, <2>2, <2>3, <2>4, <2>5 DEF Rejects, TakesAtResponder, PhaseInv
<1>14. ASSUME HandlerEnds
      PROVE  EndsInv'
  BY <1>0, <1>14, <1>a DEF HandlerEnds, PhaseInv, RegistryInv, RequestInv
<1>15. ASSUME NEW frames \in Seq(Frames), HandlerFails(frames)
      PROVE  EndsInv'
  <2>1. frames = <<>> \/ frames = <<ErrorFrame>>
    BY <1>15 DEF HandlerFails
  <2>2. <<ErrorFrame>> \in Seq(Frames) /\ Range(<<ErrorFrame>>) = {ErrorFrame} /\ <<>> \in Seq(Frames) /\ Range(<<>>) = {}
    BY FramesType, SingleFacts
  <2>3. /\ IsOpen => Range(pipe'[Requester]) = Range(pipe[Requester]) \cup Range(frames)
        /\ ~IsOpen => pipe'[Requester] = pipe[Requester]
    <3>1. pipe'[Requester] = After(pipe[Requester], frames)
      BY <1>15 DEF HandlerFails
    <3>. QED
      BY <1>0, <2>1, <2>2, <3>1, AfterFacts
  <2>4. ErrorFrame.type = "ERROR"
    BY DEF ErrorFrame
  <2>5. EndsLast(pipe'[Requester])
    <3>1. EndsLast(frames) /\ frames \in Seq(Frames)
      BY <2>1, <2>2, EndsLastOne
    <3>2. CASE IsOpen /\ \A f \in Range(pipe[Requester]) : ~Ends(f)
      <4>1. pipe'[Requester] = pipe[Requester] \o frames
        BY <1>15, <3>2 DEF HandlerFails, After
      <4>2. EndsLast(pipe[Requester] \o frames)
        BY <1>0, <3>1, <3>2, EndsLastAppend
      <4>. QED
        BY <4>1, <4>2
    <3>3. CASE IsOpen /\ frames = <<>>
      <4>1. pipe'[Requester] = pipe[Requester]
        BY <1>a, <1>15, <3>3 DEF HandlerFails
      <4>. QED
        BY <1>0, <4>1
    <3>4. CASE ~IsOpen
      BY <1>0, <2>3, <3>4
    <3>5. (\A f \in Range(pipe[Requester]) : ~Ends(f)) \/ frames = <<>>
      BY <1>0, <1>a, <1>15, <2>2 DEF HandlerFails, PhaseInv
    <3>. QED
      BY <3>2, <3>3, <3>4, <3>5
  <2>. QED
    BY <1>0, <1>a, <1>15, <2>2, <2>3, <2>4, <2>5 DEF HandlerFails, PhaseInv
<1>16. ASSUME TakesDemand
      PROVE  EndsInv'
  BY <1>0, <1>16, <1>a DEF TakesDemand, TakesAtResponder, PhaseInv, RegistryInv, RequestInv
<1>17. ASSUME TakesCancel
      PROVE  EndsInv'
  BY <1>0, <1>17, <1>a DEF TakesCancel, TakesAtResponder, PhaseInv, RegistryInv, RequestInv
<1>18. ASSUME ClosesResponder
      PROVE  EndsInv'
  <2>1. Range(<<>>) = {} /\ EndsLast(<<>>)
    BY SingleFacts, EndsLastOne
  <2>. QED
    BY <1>0, <1>18, <2>1 DEF ClosesResponder, PhaseInv, RegistryInv
<1>19. ASSUME NEW frames \in Seq(Frames), NEW items \in {0, 1}, NEW ends \in BOOLEAN, Publishes(frames, items, ends)
      PROVE  EndsInv'
  <2>1. /\ frames \in Seq(Frames)
        /\ \A f \in Range(frames) : f.type = "PAYLOAD" =>
             /\ f.follows => ~f.complete
             /\ kind = "response" /\ ~f.follows => f.complete
        /\ ~ends => \A f \in Range(frames) : ~Ends(f)
        /\ ends => \E f \in Range(frames) : Ends(f)
        /\ EndsLast(frames)
    <3>1. CASE (kind = "response" => ends) /\ \E fragmented \in BOOLEAN : frames = Payload(ends, fragmented)
      <4>1. PICK fragmented \in BOOLEAN : frames = Payload(ends, fragmented)
        BY <3>1
      <4>2. \A f \in Range(frames) :
              /\ f.type = "PAYLOAD"
              /\ f.follows => ~f.complete
              /\ ~f.follows => f.complete = ends
        BY <1>19, <4>1, PayloadFacts
      <4>3. \E f \in Range(frames) : ~f.follows /\ f.complete = ends
        BY <1>19, <4>1, PayloadFacts
      <4>. QED
        BY <1>19, <3>1, <4>1, <4>2, <4>3, EndsLastOne
    <3>2. CASE ends /\ frames = <<PayloadFrame(FALSE, TRUE, FALSE)>>
      BY <3>2, SingleFacts, EndsLastOne DEF PayloadFrame
    <3>3. CASE ends /\ frames = <<ErrorFrame>>
      BY <3>3, SingleFacts, EndsLastOne DEF ErrorFrame
    <3>. QED
      BY <1>19, <3>1, <3>2, <3>3 DEF Publishes
  <2>2. /\ IsOpen => Range(pipe'[Requester]) = Range(pipe[Requester]) \cup Range(frames)
        /\ ~IsOpen => pipe'[Requester] = pipe[Requester]
    <3>1. pipe'[Requester] = After(pipe[Requester], frames)
      BY <1>19 DEF Publishes
    <3>. QED
      BY <1>0, <2>1, <3>1, AfterFacts
  <2>3. EndsLast(pipe'[Requester])
    <3>1. \A f \in Range(pipe[Requester]) : ~Ends(f)
      BY <1>0, <1>19 DEF Publishes
    <3>2. EndsLast(pipe[Requester] \o frames)
      BY <1>0, <2>1, <3>1, EndsLastAppend
    <3>3. CASE IsOpen
      BY <1>19, <3>2, <3>3 DEF Publishes, After
    <3>4. CASE ~IsOpen
      BY <1>0, <2>2, <3>4
    <3>. QED
      BY <3>3, <3>4
  <2>. QED
    BY <1>0, <1>19, <2>1, <2>2, <2>3 DEF Publishes, PhaseInv
<1>. QED
  BY <1>1, <1>2, <1>3, <1>4, <1>5, <1>6, <1>7, <1>8, <1>9, <1>10, <1>11, <1>12, <1>13, <1>14, <1>15, <1>16, <1>17, <1>18, <1>19 DEF Effect, RequesterEffect, ResponderEffect

\* One more signal after items.
LEMMA SignalsAppend ==
  ASSUME NEW s \in Seq(Signals), NEW e \in Signals, \A i \in 1 .. Len(s) : s[i] = "next"
  PROVE  /\ s \o <<e>> \in Seq(Signals) /\ Len(s \o <<e>>) = Len(s) + 1 /\ Len(s) \in Nat
         /\ (s \o <<e>>)[Len(s) + 1] = e
         /\ \A i \in 1 .. Len(s) : (s \o <<e>>)[i] = "next"
         /\ e = "next" => \A i \in 1 .. Len(s \o <<e>>) : (s \o <<e>>)[i] = "next"
<1>1. PICK r : r = s \o <<e>>
  OBVIOUS
<1>2. PICK m \in Nat : m = Len(s)
  BY LenProperties
<1>3. /\ r \in Seq(Signals) /\ Len(r) = m + 1 /\ r[m + 1] = e
      /\ \A i \in 1 .. m : r[i] = s[i]
  BY <1>1, <1>2
<1>4. \A i \in 1 .. m : r[i] = "next"
  BY <1>2, <1>3
<1>5. ASSUME e = "next", NEW i \in 1 .. Len(r)
      PROVE  r[i] = "next"
  <2>1. i \in 1 .. m \/ i = m + 1
    BY <1>3
  <2>. QED
    BY <1>3, <1>4, <1>5, <2>1
<1>. QED
  BY <1>1, <1>2, <1>3, <1>4, <1>5

\* The last signal.
LEMMA LastSignal ==
  ASSUME TypeOK, SignalsInv, ~asker.done, NEW e \in {"complete", "error"},
         Signalled(<<e>>), asker'.done
  PROVE  SignalsInv'
<1>1. PICK s \in Seq(Signals) : s = subscriber.signals
  BY DEF TypeOK, Signals
<1>2. \A i \in 1 .. Len(s) : s[i] = "next"
  BY <1>1 DEF SignalsInv
<1>3. e \in Signals /\ e # "next"
  BY DEF Signals
<1>4. PICK r : r = s \o <<e>>
  OBVIOUS
<1>5. /\ Len(r) = Len(s) + 1 /\ Len(s) \in Nat /\ r[Len(s) + 1] = e
      /\ \A i \in 1 .. Len(s) : r[i] = "next"
  BY <1>2, <1>3, <1>4, SignalsAppend
<1>6. subscriber'.signals = r /\ ~subscriber'.cancelled
  BY <1>1, <1>4 DEF Signalled, SignalsInv
<1>7. /\ \A i \in 1 .. Len(r) - 1 : r[i] = "next"
      /\ Len(r) > 0 /\ r[Len(r)] # "next"
  BY <1>3, <1>5
<1>. QED
  BY <1>6, <1>7 DEF SignalsInv, asker

\* One item.
LEMMA ItemSignal ==
  ASSUME NEW s \in Seq(Signals), \A i \in 1 .. Len(s) : s[i] = "next"
  PROVE  s \o <<"next">> \in Seq(Signals)
         /\ \A i \in 1 .. Len(s \o <<"next">>) : (s \o <<"next">>)[i] = "next"
BY SignalsAppend DEF Signals

\* The signals of a payload, one by one.
WithItem(s, frame) == IF frame.next THEN s \o <<"next">> ELSE s

\* A payload signals its item first and the completion after it.
LEMMA PayloadSignals ==
  ASSUME NEW s \in Seq(Signals), NEW frame
  PROVE  /\ WithItem(s, frame) \in Seq(Signals)
         /\ frame.complete => s \o SignalsOf(frame) = WithItem(s, frame) \o <<"complete">>
         /\ ~frame.complete => s \o SignalsOf(frame) = WithItem(s, frame)
<1>1. PICK a : a = <<"next">>
  OBVIOUS
<1>2. PICK b : b = <<"complete">>
  OBVIOUS
<1>3. a \in Seq(Signals) /\ b \in Seq(Signals) /\ <<>> \in Seq(Signals)
  BY <1>1, <1>2, SignalsType
<1>4. /\ a \o <<>> = a /\ <<>> \o b = b /\ s \o <<>> = s /\ <<>> \o <<>> = <<>>
      /\ (s \o a) \o b = s \o (a \o b)
      /\ s \o a \in Seq(Signals)
  <2>1. a \o <<>> = a /\ <<>> \o b = b /\ s \o <<>> = s /\ <<>> \o <<>> = <<>>
    BY <1>3, ConcatEmptySeq
  <2>2. (s \o a) \o b = s \o (a \o b)
    BY <1>3, ConcatAssociative
  <2>3. s \o a \in Seq(Signals)
    BY <1>3, ConcatProperties
  <2>. QED
    BY <2>1, <2>2, <2>3
<1>5. SignalsOf(frame) = (IF frame.next THEN a ELSE <<>>) \o (IF frame.complete THEN b ELSE <<>>)
  BY <1>1, <1>2 DEF SignalsOf
<1>6. WithItem(s, frame) = IF frame.next THEN s \o a ELSE s
  BY <1>1 DEF WithItem
<1>7. WithItem(s, frame) \in Seq(Signals)
  BY <1>4, <1>6
<1>8. ASSUME frame.complete
      PROVE  s \o SignalsOf(frame) = WithItem(s, frame) \o b
  <2>1. CASE frame.next
    BY ONLY <1>4, <1>5, <1>6, <1>8, <2>1, Zenon
  <2>2. CASE ~frame.next
    BY ONLY <1>4, <1>5, <1>6, <1>8, <2>2, Zenon
  <2>. QED
    BY <2>1, <2>2
<1>9. ASSUME ~frame.complete
      PROVE  s \o SignalsOf(frame) = WithItem(s, frame)
  <2>1. CASE frame.next
    BY ONLY <1>4, <1>5, <1>6, <1>9, <2>1, Zenon
  <2>2. CASE ~frame.next
    BY ONLY <1>4, <1>5, <1>6, <1>9, <2>2, Zenon
  <2>. QED
    BY <2>1, <2>2
<1>. QED
  BY <1>2, <1>7, <1>8, <1>9

\* What a payload adds to items is items, and a completion that is the last.
LEMMA PayloadSignalsGrow ==
  ASSUME TypeOK, SignalsInv, ~asker.done, NEW frame, frame.complete \in BOOLEAN,
         Signalled(SignalsOf(frame)), asker'.done = frame.complete
  PROVE  SignalsInv'
<1>1. PICK s \in Seq(Signals) : s = subscriber.signals
  BY DEF TypeOK, Signals
<1>2. \A i \in 1 .. Len(s) : s[i] = "next"
  BY <1>1 DEF SignalsInv
<1>3. PICK r : r = WithItem(s, frame)
  OBVIOUS
<1>4. r \in Seq(Signals) /\ \A i \in 1 .. Len(r) : r[i] = "next"
  <2>1. CASE frame.next
    <3>1. r = s \o <<"next">>
      BY <1>3, <2>1 DEF WithItem
    <3>. QED
      BY <1>2, <3>1, ItemSignal
  <2>2. CASE ~frame.next
    BY <1>2, <1>3, <2>2 DEF WithItem
  <2>. QED
    BY <2>1, <2>2
<1>5. ~subscriber'.cancelled
  BY DEF Signalled, SignalsInv
<1>6. CASE ~frame.complete
  <2>1. subscriber'.signals = r
    BY <1>1, <1>3, <1>6, PayloadSignals DEF Signalled
  <2>2. \A i \in 1 .. Len(r) - 1 : r[i] = "next"
    BY <1>4, LenProperties
  <2>. QED
    BY <1>4, <1>5, <1>6, <2>1, <2>2 DEF SignalsInv, asker
<1>7. CASE frame.complete
  <2>1. subscriber'.signals = r \o <<"complete">>
    BY <1>1, <1>3, <1>7, PayloadSignals DEF Signalled
  <2>2. PICK t : t = r \o <<"complete">>
    OBVIOUS
  <2>3. /\ Len(t) = Len(r) + 1 /\ Len(r) \in Nat /\ t[Len(r) + 1] = "complete"
        /\ \A i \in 1 .. Len(r) : t[i] = "next"
    <3>1. "complete" \in Signals
      BY DEF Signals
    <3>. QED
      BY <1>4, <2>2, <3>1, SignalsAppend
  <2>4. /\ \A i \in 1 .. Len(t) - 1 : t[i] = "next"
        /\ Len(t) > 0 /\ t[Len(t)] # "next"
    BY <2>3
  <2>. QED
    BY <1>5, <1>7, <2>1, <2>2, <2>4 DEF SignalsInv, asker
<1>. QED
  BY <1>6, <1>7

\* Items, and a last signal that is not an item.
LEMMA SignalsStep ==
  ASSUME IInv, TypeOK', Effect
  PROVE  SignalsInv'
<1>. USE DEF asker, answerer, SameAsker, SameAnswerer, SameResponder, SameRequester
<1>0. /\ TypeOK /\ PhaseInv /\ RegistryInv /\ SignalsInv /\ KindInv
      /\ subscriber.signals \in Seq(Signals)
  BY DEF IInv, TypeOK, Signals
<1>1. ASSUME NEW n \in Nat, NEW fragmented \in BOOLEAN, Asks(n, fragmented)
      PROVE  SignalsInv'
  <2>1. ~asker.done
    BY <1>1 DEF Asks
  <2>2. CASE ~asker'.done /\ subscriber' = subscriber
    BY <1>0, <2>1, <2>2 DEF SignalsInv
  <2>3. CASE asker'.done /\ Signalled(<<"error">>)
    BY <1>0, <2>1, <2>3, LastSignal
  <2>4. CASE asker'.done /\ Signalled(<<"complete">>)
    BY <1>0, <2>1, <2>4, LastSignal
  <2>. QED
    BY <1>1, <2>2, <2>3, <2>4 DEF Asks
<1>2. ASSUME Waits
      PROVE  SignalsInv'
  <2>1. ~asker.done
    BY <1>2 DEF Waits
  <2>2. CASE ~asker'.done /\ subscriber'.signals = subscriber.signals /\ subscriber'.cancelled = subscriber.cancelled
    BY <1>0, <2>1, <2>2 DEF SignalsInv
  <2>3. CASE asker'.done /\ Signalled(<<"error">>)
    BY <1>0, <2>1, <2>3, LastSignal
  <2>4. CASE asker'.done /\ subscriber'.cancelled /\ subscriber'.signals = subscriber.signals
    BY <1>0, <2>1, <2>4 DEF SignalsInv
  <2>. QED
    BY <1>2, <2>2, <2>3, <2>4 DEF Waits
<1>3. ASSUME NEW n \in Nat, AsksMore(n)
      PROVE  SignalsInv'
  BY <1>0, <1>3 DEF AsksMore, SignalsInv
<1>4. ASSUME Cancels
      PROVE  SignalsInv'
  BY <1>0, <1>4 DEF Cancels, SignalsInv
<1>5. ASSUME DropsAtRequester
      PROVE  SignalsInv'
  BY <1>0, <1>5 DEF DropsAtRequester, TakesAtRequester, SignalsInv
<1>6. ASSUME TakesFragment
      PROVE  SignalsInv'
  BY <1>0, <1>6 DEF TakesFragment, TakesAtRequester, SignalsInv
<1>7. ASSUME TakesPayload
      PROVE  SignalsInv'
  <2>1. ~asker.done
    BY <1>0, <1>7 DEF TakesPayload, TakesAtRequester, PhaseInv, RegistryInv
  <2>2. Head(pipe[Requester]).complete \in BOOLEAN
    <3>1. Head(pipe[Requester]) \in Frames
      BY <1>0, <1>7, HeadType DEF TakesPayload, TakesAtRequester, Peers
    <3>. QED
      BY <1>7, <3>1 DEF TakesPayload, Frames
  <2>3. Signalled(SignalsOf(Head(pipe[Requester]))) /\ asker'.done = Head(pipe[Requester]).complete
    BY <1>7, <2>1, <2>2 DEF TakesPayload
  <2>. QED
    BY <1>0, <2>1, <2>2, <2>3, PayloadSignalsGrow
<1>8. ASSUME TakesError
      PROVE  SignalsInv'
  <2>1. ~asker.done /\ asker'.done /\ Signalled(<<"error">>)
    BY <1>0, <1>8 DEF TakesError, TakesAtRequester, PhaseInv, RegistryInv
  <2>. QED
    BY <1>0, <2>1, LastSignal
<1>9. ASSUME ClosesRequester
      PROVE  SignalsInv'
  <2>1. CASE asker'.done = asker.done /\ subscriber' = subscriber
    BY <1>0, <2>1 DEF SignalsInv
  <2>2. CASE registered[Requester] /\ asker'.done /\ Signalled(<<"error">>)
    <3>1. ~asker.done
      BY <1>0, <1>9, <2>2 DEF ClosesRequester, RegistryInv
    <3>. QED
      BY <1>0, <2>2, <3>1, LastSignal
  <2>. QED
    BY <1>9, <2>1, <2>2 DEF ClosesRequester
<1>10. ASSUME DropsAtResponder
      PROVE  SignalsInv'
  BY <1>0, <1>10 DEF DropsAtResponder, TakesAtResponder, SignalsInv
<1>11. ASSUME NEW n \in Nat, CallsHandler(n)
      PROVE  SignalsInv'
  BY <1>0, <1>11 DEF CallsHandler, TakesAtResponder, SignalsInv
<1>12. ASSUME TakesFirstFragment
      PROVE  SignalsInv'
  BY <1>0, <1>12 DEF TakesFirstFragment, TakesAtResponder, SignalsInv
<1>13. ASSUME NEW frames \in Seq(Frames), Rejects(frames)
      PROVE  SignalsInv'
  BY <1>0, <1>13 DEF Rejects, TakesAtResponder, SignalsInv
<1>14. ASSUME HandlerEnds
      PROVE  SignalsInv'
  BY <1>0, <1>14 DEF HandlerEnds, SignalsInv
<1>15. ASSUME NEW frames \in Seq(Frames), HandlerFails(frames)
      PROVE  SignalsInv'
  BY <1>0, <1>15 DEF HandlerFails, SignalsInv
<1>16. ASSUME TakesDemand
      PROVE  SignalsInv'
  BY <1>0, <1>16 DEF TakesDemand, TakesAtResponder, SignalsInv
<1>17. ASSUME TakesCancel
      PROVE  SignalsInv'
  BY <1>0, <1>17 DEF TakesCancel, TakesAtResponder, SignalsInv
<1>18. ASSUME ClosesResponder
      PROVE  SignalsInv'
  BY <1>0, <1>18 DEF ClosesResponder, SignalsInv
<1>19. ASSUME NEW frames \in Seq(Frames), NEW items \in {0, 1}, NEW ends \in BOOLEAN, Publishes(frames, items, ends)
      PROVE  SignalsInv'
  BY <1>0, <1>19 DEF Publishes, SignalsInv
<1>. QED
  BY <1>1, <1>2, <1>3, <1>4, <1>5, <1>6, <1>7, <1>8, <1>9, <1>10, <1>11, <1>12, <1>13, <1>14, <1>15, <1>16, <1>17, <1>18, <1>19 DEF Effect, RequesterEffect, ResponderEffect

\* Every frame has a weight, of items and of demand.
LEMMA WeightsOfFrames ==
  /\ ItemWeight \in [Frames -> Nat]
  /\ \A f \in Frames : ItemWeight[f] = Item(f)
  /\ DemandWeight \in [Frames -> Nat]
  /\ \A f \in Frames : DemandWeight[f] = Demand(f)
<1>1. \A f \in Frames : Item(f) \in Nat /\ Demand(f) \in Nat
  BY DEF Item, Demand, Frames
<1>. QED
  BY <1>1 DEF ItemWeight, DemandWeight

\* Items only: nothing ended the stream for the subscriber.
LEMMA CountOfItems ==
  ASSUME TypeOK, SignalsInv, ~asker.done
  PROVE  Count("complete") = 0 /\ Count("error") = 0
<1>1. subscriber.signals \in Seq(Signals)
  BY DEF TypeOK, Signals
<1>2. \A i \in 1 .. Len(subscriber.signals) : subscriber.signals[i] # "complete" /\ subscriber.signals[i] # "error"
  BY DEF SignalsInv
<1>. QED
  BY <1>1, <1>2, OccurrencesNone DEF Count

\* A count is a number.
LEMMA CountType ==
  ASSUME TypeOK, NEW x
  PROVE  Count(x) \in Nat
BY OccurrencesType DEF TypeOK, Count

\* What a signal adds to the counts.
LEMMA CountsOfSignal ==
  ASSUME NEW s \in Seq(Signals), NEW e \in Signals
  PROVE  /\ Occurrences(s \o <<e>>, "next") = Occurrences(s, "next") + IF e = "next" THEN 1 ELSE 0
         /\ Occurrences(s \o <<e>>, "complete") = Occurrences(s, "complete") + IF e = "complete" THEN 1 ELSE 0
         /\ Occurrences(s, "next") \in Nat /\ Occurrences(s, "complete") \in Nat
<1>1. Occurrences(s \o <<e>>, "next") = Occurrences(s, "next") + IF e = "next" THEN 1 ELSE 0
  BY ONLY OccurrencesAppend
<1>2. Occurrences(s \o <<e>>, "complete") = Occurrences(s, "complete") + IF e = "complete" THEN 1 ELSE 0
  BY ONLY OccurrencesAppend
<1>3. Occurrences(s, "next") \in Nat /\ Occurrences(s, "complete") \in Nat
  BY ONLY OccurrencesType
<1>. QED
  BY ONLY <1>1, <1>2, <1>3

\* What a payload adds to the counts.
LEMMA CountsOfPayload ==
  ASSUME NEW s \in Seq(Signals), NEW frame
  PROVE  /\ Occurrences(s \o SignalsOf(frame), "next")
              = Occurrences(s, "next") + IF frame.next THEN 1 ELSE 0
         /\ Occurrences(s \o SignalsOf(frame), "complete")
              = Occurrences(s, "complete") + IF frame.complete THEN 1 ELSE 0
<1>1. "next" \in Signals /\ "complete" \in Signals
  BY DEF Signals
<1>2. PICK r : r = WithItem(s, frame)
  OBVIOUS
<1>3. r \in Seq(Signals)
  BY <1>2, PayloadSignals
<1>4. /\ Occurrences(r, "next") = Occurrences(s, "next") + IF frame.next THEN 1 ELSE 0
      /\ Occurrences(r, "complete") = Occurrences(s, "complete")
      /\ Occurrences(s, "next") \in Nat /\ Occurrences(s, "complete") \in Nat
  <2>1. CASE frame.next
    <3>1. r = s \o <<"next">>
      BY <1>2, <2>1 DEF WithItem
    <3>. QED
      BY SMTT(40), <1>1, <2>1, <3>1, CountsOfSignal
  <2>2. CASE ~frame.next
    <3>1. r = s
      BY <1>2, <2>2 DEF WithItem
    <3>2. Occurrences(s, "next") \in Nat /\ Occurrences(s, "complete") \in Nat
      BY OccurrencesType
    <3>. QED
      BY <2>2, <3>1, <3>2
  <2>. QED
    BY <2>1, <2>2
<1>5. CASE frame.complete
  <2>1. s \o SignalsOf(frame) = r \o <<"complete">>
    BY <1>2, <1>5, PayloadSignals
  <2>2. /\ Occurrences(r \o <<"complete">>, "next") = Occurrences(r, "next") + 0
        /\ Occurrences(r \o <<"complete">>, "complete") = Occurrences(r, "complete") + 1
    BY <1>1, <1>3, CountsOfSignal
  <2>. QED
    BY <1>4, <1>5, <2>1, <2>2
<1>6. CASE ~frame.complete
  <2>1. s \o SignalsOf(frame) = r
    BY <1>2, <1>6, PayloadSignals
  <2>. QED
    BY <1>4, <1>6, <2>1
<1>. QED
  BY <1>5, <1>6

\* Nothing changes for the items.
LEMMA SameItems ==
  ASSUME ItemsInv, kind' = kind, pipe'[Requester] = pipe[Requester],
         subscriber'.signals = subscriber.signals, publisher'.ended = publisher.ended,
         publisher'.cancels = publisher.cancels, publisher'.published = publisher.published,
         asker.done => asker'.done, IsOpen' => IsOpen
  PROVE  ItemsInv'
<1>1. AllPublished' <=> AllPublished
  BY DEF AllPublished, Count
<1>2. Count("next")' = Count("next") /\ Count("complete")' = Count("complete")
  BY DEF Count
<1>. QED
  BY <1>1, <1>2 DEF ItemsInv

\* The stream fails for the subscriber.
LEMMA FailedItems ==
  ASSUME TypeOK, SignalsInv, ~asker.done, Signalled(<<"error">>), asker'.done
  PROVE  ItemsInv'
<1>1. subscriber.signals \in Seq(Signals) /\ "error" \in Signals
  BY DEF TypeOK, Signals
<1>2. PICK s : s = subscriber.signals
  OBVIOUS
<1>3. subscriber'.signals = s \o <<"error">>
  BY <1>2 DEF Signalled
<1>4. Occurrences(s, "complete") = 0
  BY <1>2, CountOfItems DEF Count
<1>5. Occurrences(s \o <<"error">>, "complete") = 0
  <2>1. Occurrences(s \o <<"error">>, "complete") = Occurrences(s, "complete") + 0
    BY <1>1, <1>2, CountsOfSignal
  <2>. QED
    BY <1>4, <2>1
<1>6. Count("complete")' = 0
  BY <1>3, <1>5 DEF Count
<1>. QED
  BY <1>6 DEF ItemsInv

\* The next frame has its part of the items on their way.
LEMMA NextItems ==
  ASSUME NEW s \in Seq(Frames), s # <<>>
  PROVE  Weigh(ItemWeight, s) = ItemWeight[Head(s)] + Weigh(ItemWeight, Tail(s))
BY WeightsOfFrames, WeighTail

\* A payload is one item, in however many frames.
LEMMA PayloadWeight ==
  ASSUME NEW complete \in BOOLEAN, NEW fragmented \in BOOLEAN
  PROVE  Weigh(ItemWeight, Payload(complete, fragmented)) = 1
<1>1. PICK f \in Frames : f = PayloadFrame(TRUE, FALSE, TRUE)
  BY DEF PayloadFrame, Frames
<1>2. PICK g \in Frames : g = PayloadFrame(TRUE, complete, FALSE)
  BY DEF PayloadFrame, Frames
<1>3. ItemWeight[f] = 0 /\ ItemWeight[g] = 1
  BY <1>1, <1>2, WeightsOfFrames DEF Item, PayloadFrame
<1>4. PICK a : a = <<f>>
  OBVIOUS
<1>5. PICK b : b = <<g>>
  OBVIOUS
<1>6. a \in Seq(Frames) /\ b \in Seq(Frames)
  BY <1>4, <1>5
<1>7. Weigh(ItemWeight, a) = 0 /\ Weigh(ItemWeight, b) = 1
  BY <1>3, <1>4, <1>5, WeightsOfFrames, WeighSingle
<1>8. CASE fragmented
  <2>1. Payload(complete, fragmented) = a \o b
    <3>1. PICK r : r = <<f, g>>
      OBVIOUS
    <3>2. PICK t : t = a \o b
      OBVIOUS
    <3>3. r \in Seq(Frames) /\ Len(r) = 2 /\ r[1] = f /\ r[2] = g
      BY <3>1
    <3>4. t \in Seq(Frames)
      BY <1>6, <3>2, ConcatProperties
    <3>5. Len(t) = 2 /\ t[1] = f /\ t[2] = g
      BY <1>4, <1>5, <1>6, <3>2, <3>4
    <3>6. \A i \in 1 .. Len(r) : r[i] = t[i]
      BY <3>3, <3>5
    <3>7. r = t
      BY <3>3, <3>4, <3>5, <3>6, SeqEqual
    <3>. QED
      BY <1>1, <1>2, <1>8, <3>1, <3>2, <3>7 DEF Payload
  <2>. QED
    <3>1. Weigh(ItemWeight, a \o b) = Weigh(ItemWeight, a) + Weigh(ItemWeight, b)
      BY ONLY <1>6, WeightsOfFrames, WeighConcat
    <3>. QED
      BY <1>7, <2>1, <3>1
<1>9. CASE ~fragmented
  <2>1. Payload(complete, fragmented) = b
    BY <1>2, <1>5, <1>9 DEF Payload
  <2>. QED
    BY <1>7, <2>1
<1>. QED
  BY <1>8, <1>9

\* An item that leaves the pipe is given to the subscriber, unless it is done.
LEMMA ItemsStep ==
  ASSUME IInv, TypeOK', Effect
  PROVE  ItemsInv'
<1>. USE DEF asker, answerer, IsOpen, SameAsker, SameAnswerer, SameResponder, SameRequester
<1>0. /\ TypeOK /\ TypeOK' /\ PhaseInv /\ RegistryInv /\ EndsInv /\ SignalsInv /\ PublisherInv /\ ItemsInv /\ KindInv
      /\ pipe[Requester] \in Seq(Frames) /\ pipe[Responder] \in Seq(Frames)
      /\ publisher \in [handled : Nat, credit : Nat, published : Nat, ended : BOOLEAN, cancels : Nat]
  BY DEF IInv, TypeOK, Peers
<1>a. After(pipe[Requester], <<>>) = pipe[Requester]
  BY <1>0, AfterNothing DEF Peers
<1>b. pipe[Requester] \in Seq(Frames)
  BY <1>0
<1>1. ASSUME NEW n \in Nat, NEW fragmented \in BOOLEAN, Asks(n, fragmented)
      PROVE  ItemsInv'
  <2>1. ~asker.done /\ kind' = kind /\ pipe'[Requester] = pipe[Requester] /\ publisher' = publisher
    BY <1>1 DEF Asks
  <2>2. CASE kind = "fnf"
    BY <2>1, <2>2 DEF ItemsInv
  <2>3. CASE kind # "fnf" /\ subscriber' = subscriber
    <3>1. IsOpen' => IsOpen
      BY <1>1 DEF Asks
    <3>. QED
      BY <1>0, <2>1, <2>3, <3>1, SameItems
  <2>4. CASE asker'.done /\ Signalled(<<"error">>)
    BY <1>0, <2>1, <2>4, FailedItems
  <2>. QED
    BY <1>1, <2>2, <2>3, <2>4 DEF Asks
<1>2. ASSUME Waits
      PROVE  ItemsInv'
  <2>1. ~asker.done /\ kind' = kind /\ pipe' = pipe /\ publisher' = publisher /\ connected' = connected
    BY <1>2 DEF Waits
  <2>2. CASE subscriber'.signals = subscriber.signals
    BY <1>0, <2>1, <2>2, SameItems
  <2>3. CASE asker'.done /\ Signalled(<<"error">>)
    BY <1>0, <2>1, <2>3, FailedItems
  <2>. QED
    BY <1>2, <2>2, <2>3 DEF Waits
<1>3. ASSUME NEW n \in Nat, AsksMore(n)
      PROVE  ItemsInv'
  <2>1. /\ kind' = kind /\ pipe'[Requester] = pipe[Requester]
        /\ subscriber'.signals = subscriber.signals /\ publisher'.ended = publisher.ended
        /\ publisher'.cancels = publisher.cancels /\ publisher'.published = publisher.published
        /\ asker.done => asker'.done
        /\ IsOpen' => IsOpen
    BY <1>0, <1>a, <1>3 DEF AsksMore, PhaseInv
  <2>. QED
    BY <1>0, <2>1, SameItems
<1>4. ASSUME Cancels
      PROVE  ItemsInv'
  <2>1. /\ kind' = kind /\ pipe'[Requester] = pipe[Requester]
        /\ subscriber'.signals = subscriber.signals /\ publisher'.ended = publisher.ended
        /\ publisher'.cancels = publisher.cancels /\ publisher'.published = publisher.published
        /\ asker.done => asker'.done
        /\ IsOpen' => IsOpen
    BY <1>0, <1>a, <1>4 DEF Cancels, PhaseInv
  <2>. QED
    BY <1>0, <2>1, SameItems
<1>5. ASSUME DropsAtRequester
      PROVE  ItemsInv'
  <2>1. kind # "fnf" => asker.done
    BY <1>0, <1>5 DEF DropsAtRequester, TakesAtRequester, PhaseInv, RegistryInv
  <2>2. kind' = kind /\ asker'.done = asker.done /\ publisher' = publisher /\ subscriber' = subscriber
    BY <1>5 DEF DropsAtRequester, TakesAtRequester
  <2>3. Count("next")' = Count("next") /\ Count("complete")' = Count("complete")
    BY <2>2 DEF Count
  <2>. QED
    BY <1>0, <2>1, <2>2, <2>3 DEF ItemsInv
<1>6. ASSUME TakesFragment
      PROVE  ItemsInv'
  <2>1. /\ kind' = kind /\ asker'.done = asker.done /\ publisher' = publisher /\ subscriber' = subscriber
        /\ connected' = connected /\ pipe[Requester] # <<>> /\ pipe'[Requester] = Tail(pipe[Requester])
        /\ Head(pipe[Requester]).type = "PAYLOAD" /\ Head(pipe[Requester]).follows
    BY <1>6 DEF TakesFragment, TakesAtRequester
  <2>2. Count("next")' = Count("next") /\ Count("complete")' = Count("complete")
    BY <2>1 DEF Count
  <2>3. /\ Head(pipe[Requester]) \in Frames /\ Tail(pipe[Requester]) \in Seq(Frames)
        /\ Range(pipe[Requester]) = {Head(pipe[Requester])} \cup Range(Tail(pipe[Requester]))
    BY <1>0, <2>1, TailFacts
  <2>4. Weigh(ItemWeight, pipe'[Requester]) = Weigh(ItemWeight, pipe[Requester])
    <3>1. Weigh(ItemWeight, pipe[Requester])
            = ItemWeight[Head(pipe[Requester])] + Weigh(ItemWeight, Tail(pipe[Requester]))
      BY ONLY <1>b, <2>1, NextItems
    <3>2. ItemWeight[Head(pipe[Requester])] = 0
      BY <2>1, <2>3, WeightsOfFrames DEF Item
    <3>3. Weigh(ItemWeight, Tail(pipe[Requester])) \in Nat
      BY <2>3, WeightsOfFrames, WeighType
    <3>. QED
      BY <2>1, <3>1, <3>2, <3>3
  <2>5. AllPublished' <=> AllPublished
    BY <2>1, <2>2, <2>4 DEF AllPublished
  <2>. QED
    BY <1>0, <2>1, <2>2, <2>3, <2>5 DEF ItemsInv
<1>7. ASSUME TakesPayload
      PROVE  ItemsInv'
  <2>1. /\ kind # "fnf" /\ kind' = kind /\ publisher' = publisher /\ connected' = connected
        /\ pipe[Requester] # <<>> /\ pipe'[Requester] = Tail(pipe[Requester])
        /\ Head(pipe[Requester]).type = "PAYLOAD" /\ ~Head(pipe[Requester]).follows
        /\ Signalled(SignalsOf(Head(pipe[Requester])))
    BY <1>7 DEF TakesPayload, TakesAtRequester
  <2>2. ~asker.done
    BY <1>0, <1>7 DEF TakesPayload, TakesAtRequester, PhaseInv, RegistryInv
  <2>3. PICK frame \in Frames : frame = Head(pipe[Requester])
    BY <1>0, <2>1, TailFacts
  <2>4. frame.next \in BOOLEAN /\ frame.complete \in BOOLEAN /\ asker'.done = frame.complete
    <3>1. frame.next \in BOOLEAN /\ frame.complete \in BOOLEAN
      BY <2>1, <2>3 DEF Frames
    <3>. QED
      BY <1>7, <2>2, <2>3, <3>1 DEF TakesPayload
  <2>5. /\ Tail(pipe[Requester]) \in Seq(Frames)
        /\ Range(pipe[Requester]) = {frame} \cup Range(Tail(pipe[Requester]))
    BY <1>0, <2>1, <2>3, TailFacts
  <2>6. PICK s \in Seq(Signals) : s = subscriber.signals
    BY <1>0 DEF TypeOK, Signals
  <2>7. /\ Count("next")' = Count("next") + IF frame.next THEN 1 ELSE 0
        /\ Count("complete")' = Count("complete") + IF frame.complete THEN 1 ELSE 0
    <3>1. subscriber'.signals = s \o SignalsOf(frame)
      BY <2>1, <2>3, <2>6 DEF Signalled
    <3>. QED
      BY <2>6, <3>1, CountsOfPayload DEF Count
  <2>8. Count("complete") = 0 /\ Count("next") \in Nat
    BY <1>0, <2>2, CountOfItems, CountType
  <2>9. PICK w \in Nat : w = Weigh(ItemWeight, Tail(pipe[Requester]))
    BY <2>5, WeightsOfFrames, WeighType
  <2>10. Weigh(ItemWeight, pipe[Requester]) = (IF frame.next THEN 1 ELSE 0) + w
    <3>1. Weigh(ItemWeight, pipe[Requester])
            = ItemWeight[Head(pipe[Requester])] + Weigh(ItemWeight, Tail(pipe[Requester]))
      BY ONLY <1>b, <2>1, NextItems
    <3>2. ItemWeight[frame] = IF frame.next THEN 1 ELSE 0
      BY <2>1, <2>3, WeightsOfFrames DEF Item
    <3>. QED
      BY <2>3, <2>9, <3>1, <3>2
  <2>11. Weigh(ItemWeight, pipe'[Requester]) = w
    BY <2>1, <2>9
  <2>12. AllPublished' <=> AllPublished
    <3>1. Count("next")' + w = Count("next") + ((IF frame.next THEN 1 ELSE 0) + w)
      BY <2>4, <2>7, <2>8
    <3>. QED
      BY <2>1, <2>10, <2>11, <3>1 DEF AllPublished
  <2>13. CASE ~frame.complete
    BY <1>0, <2>1, <2>2, <2>4, <2>5, <2>7, <2>8, <2>12, <2>13 DEF ItemsInv
  <2>14. CASE frame.complete
    <3>1. publisher.ended /\ publisher.cancels = 0 /\ AllPublished
      BY <1>0, <2>1, <2>2, <2>3, <2>5, <2>14 DEF ItemsInv, Completes
    <3>2. Count("next")' + w = publisher'.published
      BY <2>11, <2>12, <3>1 DEF AllPublished
    <3>3. w = 0
      <4>1. Tail(pipe[Requester]) = <<>>
        BY <1>0, <2>1, <2>3, <2>14, EndsLastTail DEF EndsInv, Ends
      <4>. QED
        BY <2>9, <4>1, WeighEmpty
    <3>. QED
      BY <2>1, <2>4, <2>7, <2>8, <2>14, <3>1, <3>2, <3>3 DEF ItemsInv
  <2>. QED
    BY <2>4, <2>13, <2>14
<1>8. ASSUME TakesError
      PROVE  ItemsInv'
  <2>1. ~asker.done /\ asker'.done /\ Signalled(<<"error">>)
    BY <1>0, <1>8 DEF TakesError, TakesAtRequester, PhaseInv, RegistryInv
  <2>. QED
    BY <1>0, <2>1, FailedItems
<1>9. ASSUME ClosesRequester
      PROVE  ItemsInv'
  <2>1. /\ kind' = kind /\ publisher' = publisher /\ ~IsOpen' /\ pipe'[Requester] = <<>>
        /\ Range(<<>>) = {}
    BY <1>9, SingleFacts DEF ClosesRequester
  <2>2. CASE asker'.done = asker.done /\ subscriber' = subscriber
    <3>1. Count("next")' = Count("next") /\ Count("complete")' = Count("complete")
      BY <2>2 DEF Count
    <3>. QED
      BY <1>0, <2>1, <2>2, <3>1 DEF ItemsInv
  <2>3. CASE registered[Requester] /\ asker'.done /\ Signalled(<<"error">>)
    <3>1. ~asker.done
      BY <1>0, <1>9, <2>3 DEF ClosesRequester, RegistryInv
    <3>. QED
      BY <1>0, <2>3, <3>1, FailedItems
  <2>. QED
    BY <1>9, <2>2, <2>3 DEF ClosesRequester
<1>10. ASSUME DropsAtResponder
      PROVE  ItemsInv'
  <2>1. /\ kind' = kind /\ pipe'[Requester] = pipe[Requester]
        /\ subscriber'.signals = subscriber.signals /\ publisher'.ended = publisher.ended
        /\ publisher'.cancels = publisher.cancels /\ publisher'.published = publisher.published
        /\ asker.done => asker'.done
        /\ IsOpen' => IsOpen
    BY <1>0, <1>a, <1>10 DEF DropsAtResponder, TakesAtResponder, PhaseInv
  <2>. QED
    BY <1>0, <2>1, SameItems
<1>11. ASSUME NEW n \in Nat, CallsHandler(n)
      PROVE  ItemsInv'
  <2>1. /\ kind' = kind /\ pipe'[Requester] = pipe[Requester]
        /\ subscriber'.signals = subscriber.signals /\ publisher'.ended = publisher.ended
        /\ publisher'.cancels = publisher.cancels /\ publisher'.published = publisher.published
        /\ asker.done => asker'.done
        /\ IsOpen' => IsOpen
    BY <1>0, <1>a, <1>11 DEF CallsHandler, TakesAtResponder, PhaseInv
  <2>. QED
    BY <1>0, <2>1, SameItems
<1>12. ASSUME TakesFirstFragment
      PROVE  ItemsInv'
  <2>1. /\ kind' = kind /\ pipe'[Requester] = pipe[Requester]
        /\ subscriber'.signals = subscriber.signals /\ publisher'.ended = publisher.ended
        /\ publisher'.cancels = publisher.cancels /\ publisher'.published = publisher.published
        /\ asker.done => asker'.done
        /\ IsOpen' => IsOpen
    BY <1>0, <1>a, <1>12 DEF TakesFirstFragment, TakesAtResponder, PhaseInv
  <2>. QED
    BY <1>0, <2>1, SameItems
<1>13. ASSUME NEW frames \in Seq(Frames), Rejects(frames)
      PROVE  ItemsInv'
  <2>1. frames = <<>> \/ frames = <<ErrorFrame>>
    BY <1>13 DEF Rejects
  <2>2. /\ frames \in Seq(Frames) /\ \A f \in Range(frames) : ~Completes(f)
        /\ Weigh(ItemWeight, frames) = 0
    <3>1. CASE frames = <<>>
      BY <3>1, FramesType, SingleFacts, WeighEmpty
    <3>2. CASE frames = <<ErrorFrame>>
      <4>1. ErrorFrame \in Frames /\ ErrorFrame.type = "ERROR"
        BY DEF ErrorFrame, Frames
      <4>2. ItemWeight[ErrorFrame] = 0
        BY <4>1, WeightsOfFrames DEF Item
      <4>3. Weigh(ItemWeight, <<ErrorFrame>>) = 0
        BY <4>1, <4>2, WeightsOfFrames, WeighSingle
      <4>. QED
        BY <3>2, <4>1, <4>3, FramesType, SingleFacts DEF Completes
    <3>. QED
      BY <2>1, <3>1, <3>2
  <2>3. /\ kind' = kind /\ asker'.done = asker.done /\ publisher' = publisher /\ subscriber' = subscriber
        /\ connected' = connected /\ pipe'[Requester] = After(pipe[Requester], frames)
    BY <1>13 DEF Rejects, TakesAtResponder
  <2>4. Count("next")' = Count("next") /\ Count("complete")' = Count("complete")
    BY <2>3 DEF Count
  <2>5. Weigh(ItemWeight, pipe'[Requester]) = Weigh(ItemWeight, pipe[Requester])
    <3>1. Weigh(ItemWeight, pipe[Requester] \o frames) = Weigh(ItemWeight, pipe[Requester]) + Weigh(ItemWeight, frames)
      BY <1>0, <2>2, WeightsOfFrames, WeighConcat
    <3>2. Weigh(ItemWeight, pipe[Requester]) \in Nat
      BY <1>0, WeightsOfFrames, WeighType
    <3>3. Weigh(ItemWeight, pipe[Requester] \o frames) = Weigh(ItemWeight, pipe[Requester])
      BY <2>2, <3>1, <3>2
    <3>. QED
      BY <2>3, <3>3 DEF After
  <2>6. AllPublished' <=> AllPublished
    BY <2>3, <2>4, <2>5 DEF AllPublished
  <2>7. \A f \in Range(pipe'[Requester]) : Completes(f) => f \in Range(pipe[Requester])
    <3>1. /\ IsOpen => Range(After(pipe[Requester], frames)) = Range(pipe[Requester]) \cup Range(frames)
          /\ ~IsOpen => After(pipe[Requester], frames) = pipe[Requester]
      BY <1>0, <2>2, AfterFacts
    <3>2. CASE IsOpen
      BY <2>2, <2>3, <3>1, <3>2
    <3>3. CASE ~IsOpen
      BY <2>3, <3>1, <3>3
    <3>. QED
      BY <3>2, <3>3
  <2>. QED
    BY <1>0, <2>3, <2>4, <2>6, <2>7 DEF ItemsInv
<1>14. ASSUME HandlerEnds
      PROVE  ItemsInv'
  <2>1. /\ kind' = kind /\ pipe'[Requester] = pipe[Requester]
        /\ subscriber'.signals = subscriber.signals /\ publisher'.ended = publisher.ended
        /\ publisher'.cancels = publisher.cancels /\ publisher'.published = publisher.published
        /\ asker.done => asker'.done
        /\ IsOpen' => IsOpen
    BY <1>0, <1>a, <1>14 DEF HandlerEnds, PhaseInv
  <2>. QED
    BY <1>0, <2>1, SameItems
<1>15. ASSUME NEW frames \in Seq(Frames), HandlerFails(frames)
      PROVE  ItemsInv'
  <2>1. frames = <<>> \/ frames = <<ErrorFrame>>
    BY <1>15 DEF HandlerFails
  <2>2. /\ frames \in Seq(Frames) /\ \A f \in Range(frames) : ~Completes(f)
        /\ Weigh(ItemWeight, frames) = 0
    <3>1. CASE frames = <<>>
      BY <3>1, FramesType, SingleFacts, WeighEmpty
    <3>2. CASE frames = <<ErrorFrame>>
      <4>1. ErrorFrame \in Frames /\ ErrorFrame.type = "ERROR"
        BY DEF ErrorFrame, Frames
      <4>2. ItemWeight[ErrorFrame] = 0
        BY <4>1, WeightsOfFrames DEF Item
      <4>3. Weigh(ItemWeight, <<ErrorFrame>>) = 0
        BY <4>1, <4>2, WeightsOfFrames, WeighSingle
      <4>. QED
        BY <3>2, <4>1, <4>3, FramesType, SingleFacts DEF Completes
    <3>. QED
      BY <2>1, <3>1, <3>2
  <2>3. /\ kind' = kind /\ asker'.done = asker.done /\ publisher' = publisher /\ subscriber' = subscriber
        /\ connected' = connected /\ pipe'[Requester] = After(pipe[Requester], frames)
    BY <1>15 DEF HandlerFails
  <2>4. Count("next")' = Count("next") /\ Count("complete")' = Count("complete")
    BY <2>3 DEF Count
  <2>5. Weigh(ItemWeight, pipe'[Requester]) = Weigh(ItemWeight, pipe[Requester])
    <3>1. Weigh(ItemWeight, pipe[Requester] \o frames) = Weigh(ItemWeight, pipe[Requester]) + Weigh(ItemWeight, frames)
      BY <1>0, <2>2, WeightsOfFrames, WeighConcat
    <3>2. Weigh(ItemWeight, pipe[Requester]) \in Nat
      BY <1>0, WeightsOfFrames, WeighType
    <3>3. Weigh(ItemWeight, pipe[Requester] \o frames) = Weigh(ItemWeight, pipe[Requester])
      BY <2>2, <3>1, <3>2
    <3>. QED
      BY <2>3, <3>3 DEF After
  <2>6. AllPublished' <=> AllPublished
    BY <2>3, <2>4, <2>5 DEF AllPublished
  <2>7. \A f \in Range(pipe'[Requester]) : Completes(f) => f \in Range(pipe[Requester])
    <3>1. /\ IsOpen => Range(After(pipe[Requester], frames)) = Range(pipe[Requester]) \cup Range(frames)
          /\ ~IsOpen => After(pipe[Requester], frames) = pipe[Requester]
      BY <1>0, <2>2, AfterFacts
    <3>2. CASE IsOpen
      BY <2>2, <2>3, <3>1, <3>2
    <3>3. CASE ~IsOpen
      BY <2>3, <3>1, <3>3
    <3>. QED
      BY <3>2, <3>3
  <2>. QED
    BY <1>0, <2>3, <2>4, <2>6, <2>7 DEF ItemsInv
<1>16. ASSUME TakesDemand
      PROVE  ItemsInv'
  <2>1. /\ kind' = kind /\ pipe'[Requester] = pipe[Requester]
        /\ subscriber'.signals = subscriber.signals /\ publisher'.ended = publisher.ended
        /\ publisher'.cancels = publisher.cancels /\ publisher'.published = publisher.published
        /\ asker.done => asker'.done
        /\ IsOpen' => IsOpen
    BY <1>0, <1>a, <1>16 DEF TakesDemand, TakesAtResponder, PhaseInv
  <2>. QED
    BY <1>0, <2>1, SameItems
<1>17. ASSUME TakesCancel
      PROVE  ItemsInv'
  <2>1. /\ kind' = kind /\ asker' = asker /\ connected' = connected
        /\ pipe'[Requester] = pipe[Requester] /\ subscriber' = subscriber
        /\ pipe[Responder] # <<>> /\ Head(pipe[Responder]).type = "CANCEL" /\ registered[Responder]
    BY <1>a, <1>17 DEF TakesCancel, TakesAtResponder
  <2>2. publisher'.ended = publisher.ended /\ publisher'.published = publisher.published
    BY <1>0, <1>17 DEF TakesCancel
  <2>3. asker.done
    <3>1. Head(pipe[Responder]) \in Range(pipe[Responder])
      BY <1>0, <2>1, TailFacts
    <3>. QED
      BY <1>0, <2>1, <3>1 DEF EndsInv
  <2>4. ~publisher.ended
    BY <1>0, <2>1 DEF RegistryInv, PhaseInv, PublisherInv
  <2>5. Count("next")' = Count("next") /\ Count("complete")' = Count("complete")
    BY <2>1 DEF Count
  <2>. QED
    BY <1>0, <2>1, <2>2, <2>3, <2>4, <2>5 DEF ItemsInv
<1>18. ASSUME ClosesResponder
      PROVE  ItemsInv'
  <2>1. /\ kind' = kind /\ asker' = asker /\ ~IsOpen' /\ connected[Responder]
        /\ pipe'[Requester] = pipe[Requester] /\ subscriber' = subscriber
    BY <1>18 DEF ClosesResponder
  <2>2. CASE publisher' = publisher
    BY <1>0, <2>1, <2>2, SameItems
  <2>3. CASE registered[Responder] /\ publisher' = [publisher EXCEPT !.cancels = @ + 1]
    <3>1. publisher'.ended = publisher.ended /\ publisher'.published = publisher.published
      BY <1>0, <2>3
    <3>2. ~publisher.ended
      BY <1>0, <2>1, <2>3 DEF RegistryInv, PublisherInv
    <3>3. Count("next")' = Count("next") /\ Count("complete")' = Count("complete")
      BY <2>1 DEF Count
    <3>. QED
      BY <1>0, <2>1, <3>1, <3>2, <3>3 DEF ItemsInv
  <2>. QED
    BY <1>18, <2>2, <2>3 DEF ClosesResponder
<1>19. ASSUME NEW frames \in Seq(Frames), NEW items \in {0, 1}, NEW ends \in BOOLEAN, Publishes(frames, items, ends)
      PROVE  ItemsInv'
  <2>1. /\ kind' = kind /\ asker' = asker /\ connected' = connected /\ subscriber' = subscriber
        /\ pipe'[Requester] = After(pipe[Requester], frames) /\ kind # "fnf"
        /\ answerer.phase \in {"handler", "ready"} /\ ~answerer.done
        /\ publisher'.published = publisher.published + items /\ publisher'.ended = ends
        /\ publisher'.cancels = publisher.cancels /\ items \in {0, 1} /\ ends \in BOOLEAN
    BY <1>19 DEF Publishes
  <2>2. /\ frames \in Seq(Frames) /\ Weigh(ItemWeight, frames) = items
        /\ (\E f \in Range(frames) : Completes(f)) => ends
    <3>1. CASE items = 1 /\ \E fragmented \in BOOLEAN : frames = Payload(ends, fragmented)
      <4>1. PICK fragmented \in BOOLEAN : frames = Payload(ends, fragmented)
        BY <3>1
      <4>. QED
        BY <2>1, <3>1, <4>1, PayloadFacts, PayloadWeight DEF Completes
    <3>2. CASE items = 0 /\ ends /\ frames = <<PayloadFrame(FALSE, TRUE, FALSE)>>
      <4>1. PICK f \in Frames : f = PayloadFrame(FALSE, TRUE, FALSE)
        BY DEF PayloadFrame, Frames
      <4>2. ItemWeight[f] = 0
        BY <4>1, WeightsOfFrames DEF Item, PayloadFrame
      <4>3. Weigh(ItemWeight, <<f>>) = 0
        BY <4>2, WeightsOfFrames, WeighSingle
      <4>. QED
        BY <3>2, <4>1, <4>3, FramesType
    <3>3. CASE items = 0 /\ ends /\ frames = <<ErrorFrame>>
      <4>1. PICK f \in Frames : f = ErrorFrame
        BY DEF ErrorFrame, Frames
      <4>2. ItemWeight[f] = 0
        BY <4>1, WeightsOfFrames DEF Item, ErrorFrame
      <4>3. Weigh(ItemWeight, <<f>>) = 0
        BY <4>2, WeightsOfFrames, WeighSingle
      <4>. QED
        BY <3>3, <4>1, <4>3, FramesType
    <3>. QED
      BY <1>19, <3>1, <3>2, <3>3 DEF Publishes
  <2>3. Count("next")' = Count("next") /\ Count("complete")' = Count("complete")
    BY <2>1 DEF Count
  <2>4. Count("complete") = 0
    <3>1. ~publisher.ended
      BY <1>0, <2>1 DEF PublisherInv
    <3>2. Count("complete") \in Nat
      BY <1>0, CountType
    <3>. QED
      BY <1>0, <2>1, <3>1, <3>2 DEF ItemsInv
  <2>5. \A f \in Range(pipe[Requester]) : ~Completes(f)
    BY <1>0, <2>1 DEF EndsInv, Completes, Ends
  <2>6. CASE ~IsOpen
    <3>1. pipe'[Requester] = pipe[Requester]
      BY <2>1, <2>6 DEF After
    <3>2. Count("complete")' = 0
      BY <2>3, <2>4
    <3>. QED
      BY <2>1, <2>5, <2>6, <3>1, <3>2 DEF ItemsInv
  <2>7. CASE IsOpen
    <3>1. Weigh(ItemWeight, pipe'[Requester]) = Weigh(ItemWeight, pipe[Requester]) + items
      <4>1. Weigh(ItemWeight, pipe[Requester] \o frames) = Weigh(ItemWeight, pipe[Requester]) + Weigh(ItemWeight, frames)
        BY <1>0, <2>2, WeightsOfFrames, WeighConcat
      <4>. QED
        BY <2>1, <2>2, <2>7, <4>1 DEF After
    <3>2. Weigh(ItemWeight, pipe[Requester]) \in Nat /\ Count("next") \in Nat
      BY <1>0, WeightsOfFrames, WeighType, CountType
    <3>3. Range(pipe'[Requester]) = Range(pipe[Requester]) \cup Range(frames)
      BY <1>0, <2>1, <2>2, <2>7, AfterFacts
    <3>4. AllPublished => AllPublished'
      BY <1>0, <2>1, <2>3, <3>1, <3>2 DEF AllPublished
    <3>5. publisher.cancels = 0
      BY <1>0, <2>1, <2>7 DEF PublisherInv
    <3>. QED
      BY <1>0, <2>1, <2>2, <2>3, <2>4, <2>5, <2>7, <3>3, <3>4, <3>5 DEF ItemsInv
  <2>. QED
    BY <2>6, <2>7
<1>. QED
  BY <1>1, <1>2, <1>3, <1>4, <1>5, <1>6, <1>7, <1>8, <1>9, <1>10, <1>11, <1>12, <1>13, <1>14, <1>15, <1>16, <1>17, <1>18, <1>19 DEF Effect, RequesterEffect, ResponderEffect

\* The demand in a request is in its first frame.
LEMMA RequestDemand ==
  ASSUME NEW n \in Nat, NEW fragmented \in BOOLEAN
  PROVE  Weigh(DemandWeight, Request(n, fragmented)) = n
<1>1. PICK r : r = Request(n, fragmented)
  OBVIOUS
<1>2. r \in Seq(Frames) /\ r # <<>> /\ Head(r).type = "REQUEST" /\ Head(r).requestN = n
  <2>1. IsRequest(r, n)
    BY ONLY <1>1, RequestFacts
  <2>. QED
    BY ONLY <2>1, Zenon DEF IsRequest
<1>3. Head(r) \in Frames /\ Tail(r) \in Seq(Frames)
  BY <1>2, TailFacts
<1>4. DemandWeight[Head(r)] = n
  BY <1>2, <1>3, WeightsOfFrames DEF Demand
<1>5. Weigh(DemandWeight, r) = DemandWeight[Head(r)] + Weigh(DemandWeight, Tail(r))
  BY <1>2, WeightsOfFrames, WeighTail
<1>6. Weigh(DemandWeight, Tail(r)) = 0
  <2>1. CASE ~fragmented
    <3>1. r = <<RequestFrame(n, FALSE)>>
      BY <1>1, <2>1 DEF Request
    <3>2. Tail(r) = <<>>
      BY <3>1
    <3>. QED
      BY <3>2, WeighEmpty
  <2>2. CASE fragmented
    <3>1. PICK f \in Frames : f = RequestFrame(n, TRUE)
      BY DEF RequestFrame, Frames
    <3>2. PICK g \in Frames : g = PayloadFrame(TRUE, FALSE, FALSE)
      BY DEF PayloadFrame, Frames
    <3>3. r = <<f, g>>
      BY <1>1, <2>2, <3>1, <3>2 DEF Request
    <3>4. PICK t : t = Tail(r)
      OBVIOUS
    <3>5. t \in Seq(Frames) /\ Len(t) = 1 /\ t[1] = g
      BY <1>2, <3>3, <3>4, HeadTailProperties
    <3>6. t = <<g>>
      BY <3>5
    <3>7. DemandWeight[g] = 0
      BY <3>2, WeightsOfFrames DEF Demand, PayloadFrame
    <3>. QED
      BY <3>4, <3>6, <3>7, WeightsOfFrames, WeighSingle
  <2>. QED
    BY <2>1, <2>2
<1>. QED
  BY <1>1, <1>4, <1>5, <1>6

\* The demand on its way, and the one in the next frame.
LEMMA DemandTypes ==
  ASSUME TypeOK
  PROVE  /\ Weigh(DemandWeight, pipe[Responder]) \in Nat /\ Held \in Nat /\ publisher.credit \in Nat
         /\ asker.initialRequestN \in Nat /\ answerer.initialRequestN \in Nat /\ subscriber.demand \in Nat
<1>1. pipe[Responder] \in Seq(Frames)
  BY DEF TypeOK, Peers
<1>2. Weigh(DemandWeight, pipe[Responder]) \in Nat
  BY <1>1, WeightsOfFrames, WeighType
<1>. QED
  BY <1>2 DEF TypeOK, Peers, StreamFields, Held, asker, answerer

\* The next frame has its part of the demand on its way.
LEMMA NextDemand ==
  ASSUME TypeOK, pipe[Responder] # <<>>
  PROVE  /\ Weigh(DemandWeight, pipe[Responder])
              = Demand(Head(pipe[Responder])) + Weigh(DemandWeight, Tail(pipe[Responder]))
         /\ Demand(Head(pipe[Responder])) \in Nat
         /\ Weigh(DemandWeight, Tail(pipe[Responder])) \in Nat
<1>1. pipe[Responder] \in Seq(Frames)
  BY DEF TypeOK, Peers
<1>2. Head(pipe[Responder]) \in Frames /\ Tail(pipe[Responder]) \in Seq(Frames)
  BY <1>1, TailFacts
<1>3. DemandWeight[Head(pipe[Responder])] = Demand(Head(pipe[Responder]))
  BY <1>2, WeightsOfFrames
<1>4. DemandWeight[Head(pipe[Responder])] \in Nat /\ Weigh(DemandWeight, Tail(pipe[Responder])) \in Nat
  BY <1>2, WeightsOfFrames, WeighType
<1>5. Weigh(DemandWeight, pipe[Responder])
        = DemandWeight[Head(pipe[Responder])] + Weigh(DemandWeight, Tail(pipe[Responder]))
  BY <1>1, WeightsOfFrames, WeighTail
<1>. QED
  BY <1>3, <1>4, <1>5

\* What is sent to the responder adds its demand, if it is not lost.
LEMMA SentDemand ==
  ASSUME TypeOK, NEW t \in Seq(Frames), pipe'[Responder] = After(pipe[Responder], t)
  PROVE  Weigh(DemandWeight, pipe'[Responder])
           = Weigh(DemandWeight, pipe[Responder]) + IF IsOpen THEN Weigh(DemandWeight, t) ELSE 0
<1>1. pipe[Responder] \in Seq(Frames)
  BY DEF TypeOK, Peers
<1>2. Weigh(DemandWeight, pipe[Responder] \o t)
        = Weigh(DemandWeight, pipe[Responder]) + Weigh(DemandWeight, t)
  BY <1>1, WeightsOfFrames, WeighConcat
<1>3. Weigh(DemandWeight, pipe[Responder]) \in Nat
  BY <1>1, WeightsOfFrames, WeighType
<1>. QED
  BY <1>2, <1>3 DEF After

\* Nothing changes for the demand.
LEMMA SameDemand ==
  ASSUME DemandInv, kind' = kind, pipe'[Responder] = pipe[Responder],
         subscriber'.demand = subscriber.demand, publisher'.credit = publisher.credit, Held' = Held,
         asker.done => asker'.done, answerer.done => answerer'.done,
         answerer.phase = "rejected" => answerer'.phase = "rejected", IsOpen' => IsOpen
  PROVE  DemandInv'
<1>1. Asked' = Asked
  BY DEF Asked
<1>. QED
  BY <1>1 DEF DemandInv

\* Demand moves from the subscriber to the publisher and stays the same on the
\* way; a peer that is done, or a closed connection, only loses some.
LEMMA DemandStep ==
  ASSUME IInv, TypeOK', Effect
  PROVE  DemandInv'
<1>. USE DEF asker, answerer, IsOpen, SameAsker, SameAnswerer, SameResponder, SameRequester
<1>0. /\ TypeOK /\ TypeOK' /\ PhaseInv /\ RegistryInv /\ RequestInv /\ DemandInv /\ PublisherInv /\ KindInv
      /\ publisher \in [handled : Nat, credit : Nat, published : Nat, ended : BOOLEAN, cancels : Nat]
  BY DEF IInv, TypeOK
<1>a. /\ Weigh(DemandWeight, pipe[Responder]) \in Nat /\ Held \in Nat /\ publisher.credit \in Nat
      /\ asker.initialRequestN \in Nat /\ answerer.initialRequestN \in Nat /\ subscriber.demand \in Nat
  BY <1>0, DemandTypes
<1>b. pipe[Responder] # <<>> /\ Head(pipe[Responder]).type = "REQUEST" => answerer.phase = "none"
  BY RequestFindsNone
<1>1. ASSUME NEW n \in Nat, NEW fragmented \in BOOLEAN, Asks(n, fragmented)
      PROVE  DemandInv'
  <2>1. SUFFICES ASSUME kind = "stream", kind' = kind PROVE DemandInv'
    BY <1>1 DEF DemandInv, Asks
  <2>2. PICK r : r = Request(n, fragmented)
    OBVIOUS
  <2>3. r \in Seq(Frames) /\ Weigh(DemandWeight, r) = n
    <3>1. Request(n, fragmented) \in Seq(Frames)
      BY FramesType
    <3>. QED
      BY <2>2, <3>1, RequestDemand
  <2>4. pipe'[Responder] = After(pipe[Responder], r)
    BY <1>1, <2>2 DEF Asks
  <2>5. Weigh(DemandWeight, pipe'[Responder])
          = Weigh(DemandWeight, pipe[Responder]) + IF IsOpen THEN n ELSE 0
    BY <1>0, <2>3, <2>4, SentDemand
  <2>6. /\ Held = n /\ Held' = 0 /\ publisher'.credit = publisher.credit
        /\ subscriber'.demand = subscriber.demand /\ ~asker.done /\ answerer' = answerer
        /\ IsOpen' => IsOpen
    BY <1>0, <1>1, <2>1 DEF Asks, Held, PhaseInv, Signalled
  <2>. QED
    BY <1>0, <1>a, <2>1, <2>5, <2>6 DEF DemandInv, Asked
<1>2. ASSUME Waits
      PROVE  DemandInv'
  <2>1. /\ kind' = kind /\ pipe'[Responder] = pipe[Responder] /\ connected' = connected
        /\ publisher'.credit = publisher.credit /\ answerer' = answerer /\ ~asker.done
        /\ Held = asker.initialRequestN /\ Held' = asker'.initialRequestN
    BY <1>2 DEF Waits, Held
  <2>2. ASSUME NEW n \in Nat, ~asker'.done, asker'.initialRequestN = asker.initialRequestN + n,
               subscriber'.demand = subscriber.demand + n
        PROVE  DemandInv'
    BY <1>0, <1>a, <2>1, <2>2 DEF DemandInv, Asked
  <2>3. ASSUME asker'.done, asker'.initialRequestN = asker.initialRequestN,
               subscriber'.demand = subscriber.demand
        PROVE  DemandInv'
    BY <1>0, <1>a, <2>1, <2>3 DEF DemandInv, Asked
  <2>. QED
    BY <1>2, <2>2, <2>3 DEF Waits, Signalled
<1>3. ASSUME NEW n \in Nat, AsksMore(n)
      PROVE  DemandInv'
  <2>1. PICK f : f = RequestNFrame(n)
    OBVIOUS
  <2>2. f \in Frames /\ DemandWeight[f] = n
    <3>1. f \in Frames
      BY <1>3, <2>1 DEF AsksMore, RequestNFrame, Frames
    <3>. QED
      BY <1>3, <2>1, <3>1, WeightsOfFrames DEF AsksMore, RequestNFrame, Demand
  <2>3. <<f>> \in Seq(Frames) /\ Weigh(DemandWeight, <<f>>) = n
    BY <2>2, WeightsOfFrames, WeighSingle
  <2>4. pipe'[Responder] = After(pipe[Responder], <<f>>)
    BY <1>3, <2>1 DEF AsksMore
  <2>5. Weigh(DemandWeight, pipe'[Responder])
          = Weigh(DemandWeight, pipe[Responder]) + IF IsOpen THEN n ELSE 0
    BY <1>0, <2>3, <2>4, SentDemand
  <2>6. /\ kind' = kind /\ Held' = Held /\ publisher'.credit = publisher.credit
        /\ subscriber'.demand = subscriber.demand + n /\ ~asker.done /\ answerer' = answerer
        /\ connected' = connected /\ n \in Nat
    BY <1>3 DEF AsksMore, Held
  <2>7. ~asker'.done
    BY <1>3 DEF AsksMore
  <2>. QED
    BY <1>0, <1>a, <2>5, <2>6, <2>7 DEF DemandInv, Asked
<1>4. ASSUME Cancels
      PROVE  DemandInv'
  <2>1. PICK f : f = CancelFrame
    OBVIOUS
  <2>2. f \in Frames /\ DemandWeight[f] = 0
    <3>1. f \in Frames
      BY <1>4, <2>1 DEF Cancels, CancelFrame, Frames
    <3>. QED
      BY <1>4, <2>1, <3>1, WeightsOfFrames DEF Cancels, CancelFrame, Demand
  <2>3. <<f>> \in Seq(Frames) /\ Weigh(DemandWeight, <<f>>) = 0
    BY <2>2, WeightsOfFrames, WeighSingle
  <2>4. pipe'[Responder] = After(pipe[Responder], <<f>>)
    BY <1>4, <2>1 DEF Cancels
  <2>5. Weigh(DemandWeight, pipe'[Responder])
          = Weigh(DemandWeight, pipe[Responder]) + IF IsOpen THEN 0 ELSE 0
    BY <1>0, <2>3, <2>4, SentDemand
  <2>6. /\ kind' = kind /\ Held' = Held /\ publisher'.credit = publisher.credit
        /\ subscriber'.demand = subscriber.demand /\ ~asker.done /\ answerer' = answerer
        /\ connected' = connected /\ 0 \in Nat
    BY <1>4 DEF Cancels, Held
  <2>7. asker'.done
    BY <1>4 DEF Cancels
  <2>. QED
    BY <1>0, <1>a, <2>5, <2>6, <2>7 DEF DemandInv, Asked
<1>5. ASSUME DropsAtRequester
      PROVE  DemandInv'
  <2>1. /\ kind' = kind /\ pipe'[Responder] = pipe[Responder]
        /\ subscriber'.demand = subscriber.demand /\ publisher'.credit = publisher.credit
        /\ asker.phase = asker'.phase /\ asker'.initialRequestN = asker.initialRequestN
        /\ Held' = Held
        /\ asker.done => asker'.done
        /\ answerer.done => answerer'.done
        /\ answerer.phase = "rejected" => answerer'.phase = "rejected"
        /\ IsOpen' => IsOpen
    BY <1>0, <1>5 DEF DropsAtRequester, TakesAtRequester, PhaseInv, Held, Signalled
  <2>. QED
    BY <1>0, <2>1, SameDemand
<1>6. ASSUME TakesFragment
      PROVE  DemandInv'
  <2>1. /\ kind' = kind /\ pipe'[Responder] = pipe[Responder]
        /\ subscriber'.demand = subscriber.demand /\ publisher'.credit = publisher.credit
        /\ asker.phase = asker'.phase /\ asker'.initialRequestN = asker.initialRequestN
        /\ Held' = Held
        /\ asker.done => asker'.done
        /\ answerer.done => answerer'.done
        /\ answerer.phase = "rejected" => answerer'.phase = "rejected"
        /\ IsOpen' => IsOpen
    BY <1>0, <1>6 DEF TakesFragment, TakesAtRequester, PhaseInv, Held, Signalled
  <2>. QED
    BY <1>0, <2>1, SameDemand
<1>7. ASSUME TakesPayload
      PROVE  DemandInv'
  <2>1. /\ kind' = kind /\ pipe'[Responder] = pipe[Responder]
        /\ subscriber'.demand = subscriber.demand /\ publisher'.credit = publisher.credit
        /\ asker.phase = asker'.phase /\ asker'.initialRequestN = asker.initialRequestN
        /\ Held' = Held
        /\ asker.done => asker'.done
        /\ answerer.done => answerer'.done
        /\ answerer.phase = "rejected" => answerer'.phase = "rejected"
        /\ IsOpen' => IsOpen
    BY <1>0, <1>7 DEF TakesPayload, TakesAtRequester, PhaseInv, Held, Signalled
  <2>. QED
    BY <1>0, <2>1, SameDemand
<1>8. ASSUME TakesError
      PROVE  DemandInv'
  <2>1. /\ kind' = kind /\ pipe'[Responder] = pipe[Responder]
        /\ subscriber'.demand = subscriber.demand /\ publisher'.credit = publisher.credit
        /\ asker.phase = asker'.phase /\ asker'.initialRequestN = asker.initialRequestN
        /\ Held' = Held
        /\ asker.done => asker'.done
        /\ answerer.done => answerer'.done
        /\ answerer.phase = "rejected" => answerer'.phase = "rejected"
        /\ IsOpen' => IsOpen
    BY <1>0, <1>8 DEF TakesError, TakesAtRequester, PhaseInv, Held, Signalled
  <2>. QED
    BY <1>0, <2>1, SameDemand
<1>9. ASSUME ClosesRequester
      PROVE  DemandInv'
  <2>1. /\ kind' = kind /\ pipe'[Responder] = pipe[Responder]
        /\ subscriber'.demand = subscriber.demand /\ publisher'.credit = publisher.credit
        /\ asker.phase = asker'.phase /\ asker'.initialRequestN = asker.initialRequestN
        /\ Held' = Held
        /\ asker.done => asker'.done
        /\ answerer.done => answerer'.done
        /\ answerer.phase = "rejected" => answerer'.phase = "rejected"
        /\ IsOpen' => IsOpen
    BY <1>0, <1>9 DEF ClosesRequester, PhaseInv, Held, Signalled
  <2>. QED
    BY <1>0, <2>1, SameDemand
<1>10. ASSUME DropsAtResponder
      PROVE  DemandInv'
  <2>1. /\ kind' = kind /\ pipe[Responder] # <<>> /\ pipe'[Responder] = Tail(pipe[Responder])
        /\ asker' = asker /\ connected' = connected /\ subscriber' = subscriber
    BY <1>10 DEF DropsAtResponder, TakesAtResponder
  <2>2. PICK w \in Nat : w = Weigh(DemandWeight, pipe'[Responder])
    BY <1>0, <2>1, NextDemand
  <2>3. PICK h \in Nat : h = Demand(Head(pipe[Responder]))
    BY <1>0, <2>1, NextDemand
  <2>3a. Weigh(DemandWeight, pipe[Responder]) = h + w
    BY <1>0, <2>1, <2>2, <2>3, NextDemand
  <2>4. asker.phase # "new" /\ connected[Responder]
    BY <1>0, <2>1 DEF PhaseInv
  <2>5. /\ publisher' = publisher /\ answerer' = answerer /\ Held' = Held
    BY <1>10, <2>1 DEF DropsAtResponder, Held
  <2>6. kind = "stream" => answerer.done \/ answerer.phase = "rejected"
    BY <1>0, <1>10, <2>1, <2>4 DEF DropsAtResponder, PhaseInv, RegistryInv, RequestInv
  <2>6a. PICK c \in Nat, e \in Nat : c = publisher.credit /\ e = Held
    BY <1>a
  <2>7. kind = "stream" => \E c1 \in Nat, e1 \in Nat : c1 = publisher'.credit /\ e1 = Held'
    BY <2>3, <2>5, <2>6a, <2>6
  <2>8. /\ Asked = c + (h + w) + e
        /\ Asked' = publisher'.credit + w + Held'
    BY <2>2, <2>3a, <2>6a DEF Asked
  <2>9. kind = "stream" => /\ Asked \in Nat /\ Asked' \in Nat /\ Asked' <= Asked
                           /\ Asked' = Asked \/ answerer'.done \/ answerer'.phase = "rejected"
    <3>1. SUFFICES ASSUME kind = "stream"
                   PROVE  /\ Asked \in Nat /\ Asked' \in Nat /\ Asked' <= Asked
                          /\ Asked' = Asked \/ answerer'.done \/ answerer'.phase = "rejected"
      OBVIOUS
    <3>2. PICK c1 \in Nat, e1 \in Nat : c1 = publisher'.credit /\ e1 = Held'
      BY <2>7, <3>1
    <3>3. c1 + e1 = c + h + e \/ (c1 + e1 = c + e /\ (answerer'.done \/ answerer'.phase = "rejected"))
            \/ (c1 + e1 = c /\ answerer'.phase = "rejected")
      BY <2>3, <2>5, <2>6a, <3>1, <3>2, <2>6
    <3>4. Asked = c + (h + w) + e /\ Asked' = c1 + w + e1
      BY <2>8, <3>2
    <3>. QED
      BY <3>3, <3>4
  <2>10. kind = "stream" /\ ~answerer'.done /\ answerer'.phase # "rejected"
          => ~answerer.done /\ answerer.phase # "rejected"
    BY <2>5, <2>6
  <2>11. kind' = kind /\ asker' = asker /\ subscriber' = subscriber /\ (IsOpen' => IsOpen)
    BY <2>1
  <2>. QED
    BY <1>0, <1>a, <2>9, <2>10, <2>11 DEF DemandInv
<1>11. ASSUME NEW n \in Nat, CallsHandler(n)
      PROVE  DemandInv'
  <2>1. /\ kind' = kind /\ pipe[Responder] # <<>> /\ pipe'[Responder] = Tail(pipe[Responder])
        /\ asker' = asker /\ connected' = connected /\ subscriber' = subscriber
    BY <1>11 DEF CallsHandler, TakesAtResponder
  <2>2. PICK w \in Nat : w = Weigh(DemandWeight, pipe'[Responder])
    BY <1>0, <2>1, NextDemand
  <2>3. PICK h \in Nat : h = Demand(Head(pipe[Responder]))
    BY <1>0, <2>1, NextDemand
  <2>3a. Weigh(DemandWeight, pipe[Responder]) = h + w
    BY <1>0, <2>1, <2>2, <2>3, NextDemand
  <2>4. asker.phase # "new" /\ connected[Responder]
    BY <1>0, <2>1 DEF PhaseInv
  <2>5. kind = "stream" => /\ publisher'.credit = n /\ publisher.credit = 0 /\ Held' = 0
                           /\ n \in Nat /\ Held + Demand(Head(pipe[Responder])) = n
                           /\ answerer'.done = answerer.done
                           /\ answerer.phase # "rejected"
    <3>1. CASE Head(pipe[Responder]).type = "REQUEST"
      <4>1. answerer.phase = "none"
        BY <1>b, <2>1, <3>1
      <4>2. kind = "stream" => Demand(Head(pipe[Responder])) = n
        BY <1>11, <3>1 DEF CallsHandler, Demand
      <4>3. Held = 0
        BY <2>4, <4>1 DEF Held
      <4>4. publisher.credit = 0
        BY <1>0, <4>1 DEF PublisherInv
      <4>5. Held' = 0 /\ publisher'.credit = n /\ answerer'.done = answerer.done /\ n \in Nat
        BY <1>0, <1>11, <2>1, <2>4 DEF CallsHandler, Held
      <4>. QED
        BY <4>1, <4>2, <4>3, <4>4, <4>5
    <3>2. CASE Head(pipe[Responder]).type = "PAYLOAD" /\ answerer.phase = "assembling"
      <4>1. Demand(Head(pipe[Responder])) = 0
        BY <3>2 DEF Demand
      <4>2. kind = "stream" => Held = n
        BY <1>11, <2>4, <3>2 DEF CallsHandler, Held
      <4>3. publisher.credit = 0
        BY <1>0, <3>2 DEF PublisherInv
      <4>4. Held' = 0 /\ publisher'.credit = n /\ answerer'.done = answerer.done /\ n \in Nat
        BY <1>0, <1>11, <2>1, <2>4 DEF CallsHandler, Held
      <4>. QED
        BY <3>2, <4>1, <4>2, <4>3, <4>4
    <3>. QED
      BY <1>11, <3>1, <3>2 DEF CallsHandler
  <2>6a. PICK c \in Nat, e \in Nat : c = publisher.credit /\ e = Held
    BY <1>a
  <2>7. kind = "stream" => \E c1 \in Nat, e1 \in Nat : c1 = publisher'.credit /\ e1 = Held'
    BY <2>3, <2>5, <2>6a
  <2>8. /\ Asked = c + (h + w) + e
        /\ Asked' = publisher'.credit + w + Held'
    BY <2>2, <2>3a, <2>6a DEF Asked
  <2>9. kind = "stream" => /\ Asked \in Nat /\ Asked' \in Nat /\ Asked' <= Asked
                           /\ Asked' = Asked \/ answerer'.done \/ answerer'.phase = "rejected"
    <3>1. SUFFICES ASSUME kind = "stream"
                   PROVE  /\ Asked \in Nat /\ Asked' \in Nat /\ Asked' <= Asked
                          /\ Asked' = Asked \/ answerer'.done \/ answerer'.phase = "rejected"
      OBVIOUS
    <3>2. PICK c1 \in Nat, e1 \in Nat : c1 = publisher'.credit /\ e1 = Held'
      BY <2>7, <3>1
    <3>3. c1 + e1 = c + h + e \/ (c1 + e1 = c + e /\ (answerer'.done \/ answerer'.phase = "rejected"))
            \/ (c1 + e1 = c /\ answerer'.phase = "rejected")
      BY <2>3, <2>5, <2>6a, <3>1, <3>2
    <3>4. Asked = c + (h + w) + e /\ Asked' = c1 + w + e1
      BY <2>8, <3>2
    <3>. QED
      BY <3>3, <3>4
  <2>10. kind = "stream" /\ ~answerer'.done /\ answerer'.phase # "rejected"
          => ~answerer.done /\ answerer.phase # "rejected"
    BY <2>5
  <2>11. kind' = kind /\ asker' = asker /\ subscriber' = subscriber /\ (IsOpen' => IsOpen)
    BY <2>1
  <2>. QED
    BY <1>0, <1>a, <2>9, <2>10, <2>11 DEF DemandInv
<1>12. ASSUME TakesFirstFragment
      PROVE  DemandInv'
  <2>1. /\ kind' = kind /\ pipe[Responder] # <<>> /\ pipe'[Responder] = Tail(pipe[Responder])
        /\ asker' = asker /\ connected' = connected /\ subscriber' = subscriber
    BY <1>12 DEF TakesFirstFragment, TakesAtResponder
  <2>2. PICK w \in Nat : w = Weigh(DemandWeight, pipe'[Responder])
    BY <1>0, <2>1, NextDemand
  <2>3. PICK h \in Nat : h = Demand(Head(pipe[Responder]))
    BY <1>0, <2>1, NextDemand
  <2>3a. Weigh(DemandWeight, pipe[Responder]) = h + w
    BY <1>0, <2>1, <2>2, <2>3, NextDemand
  <2>4. asker.phase # "new" /\ connected[Responder]
    BY <1>0, <2>1 DEF PhaseInv
  <2>5. kind = "stream" => /\ publisher' = publisher /\ Held = 0
                           /\ Held' = Demand(Head(pipe[Responder]))
                           /\ answerer'.done = answerer.done /\ answerer.phase = "none"
    <3>1. answerer.phase = "none"
      BY <1>b, <1>12, <2>1 DEF TakesFirstFragment
    <3>. QED
      BY <1>12, <2>1, <2>4, <3>1 DEF TakesFirstFragment, Held, Demand
  <2>6a. PICK c \in Nat, e \in Nat : c = publisher.credit /\ e = Held
    BY <1>a
  <2>7. kind = "stream" => \E c1 \in Nat, e1 \in Nat : c1 = publisher'.credit /\ e1 = Held'
    BY <2>3, <2>5, <2>6a
  <2>8. /\ Asked = c + (h + w) + e
        /\ Asked' = publisher'.credit + w + Held'
    BY <2>2, <2>3a, <2>6a DEF Asked
  <2>9. kind = "stream" => /\ Asked \in Nat /\ Asked' \in Nat /\ Asked' <= Asked
                           /\ Asked' = Asked \/ answerer'.done \/ answerer'.phase = "rejected"
    <3>1. SUFFICES ASSUME kind = "stream"
                   PROVE  /\ Asked \in Nat /\ Asked' \in Nat /\ Asked' <= Asked
                          /\ Asked' = Asked \/ answerer'.done \/ answerer'.phase = "rejected"
      OBVIOUS
    <3>2. PICK c1 \in Nat, e1 \in Nat : c1 = publisher'.credit /\ e1 = Held'
      BY <2>7, <3>1
    <3>3. c1 + e1 = c + h + e \/ (c1 + e1 = c + e /\ (answerer'.done \/ answerer'.phase = "rejected"))
            \/ (c1 + e1 = c /\ answerer'.phase = "rejected")
      BY <2>3, <2>5, <2>6a, <3>1, <3>2
    <3>4. Asked = c + (h + w) + e /\ Asked' = c1 + w + e1
      BY <2>8, <3>2
    <3>. QED
      BY <3>3, <3>4
  <2>10. kind = "stream" /\ ~answerer'.done /\ answerer'.phase # "rejected"
          => ~answerer.done /\ answerer.phase # "rejected"
    BY <2>5
  <2>11. kind' = kind /\ asker' = asker /\ subscriber' = subscriber /\ (IsOpen' => IsOpen)
    BY <2>1
  <2>. QED
    BY <1>0, <1>a, <2>9, <2>10, <2>11 DEF DemandInv
<1>13. ASSUME NEW frames \in Seq(Frames), Rejects(frames)
      PROVE  DemandInv'
  <2>1. /\ kind' = kind /\ pipe[Responder] # <<>> /\ pipe'[Responder] = Tail(pipe[Responder])
        /\ asker' = asker /\ connected' = connected /\ subscriber' = subscriber
    BY <1>13 DEF Rejects, TakesAtResponder
  <2>2. PICK w \in Nat : w = Weigh(DemandWeight, pipe'[Responder])
    BY <1>0, <2>1, NextDemand
  <2>3. PICK h \in Nat : h = Demand(Head(pipe[Responder]))
    BY <1>0, <2>1, NextDemand
  <2>3a. Weigh(DemandWeight, pipe[Responder]) = h + w
    BY <1>0, <2>1, <2>2, <2>3, NextDemand
  <2>4. asker.phase # "new" /\ connected[Responder]
    BY <1>0, <2>1 DEF PhaseInv
  <2>5. /\ publisher' = publisher /\ answerer'.phase = "rejected" /\ Held' = 0
    BY <1>13, <2>1, <2>4 DEF Rejects, Held
  <2>6a. PICK c \in Nat, e \in Nat : c = publisher.credit /\ e = Held
    BY <1>a
  <2>7. kind = "stream" => \E c1 \in Nat, e1 \in Nat : c1 = publisher'.credit /\ e1 = Held'
    BY <2>3, <2>5, <2>6a
  <2>8. /\ Asked = c + (h + w) + e
        /\ Asked' = publisher'.credit + w + Held'
    BY <2>2, <2>3a, <2>6a DEF Asked
  <2>9. kind = "stream" => /\ Asked \in Nat /\ Asked' \in Nat /\ Asked' <= Asked
                           /\ Asked' = Asked \/ answerer'.done \/ answerer'.phase = "rejected"
    <3>1. SUFFICES ASSUME kind = "stream"
                   PROVE  /\ Asked \in Nat /\ Asked' \in Nat /\ Asked' <= Asked
                          /\ Asked' = Asked \/ answerer'.done \/ answerer'.phase = "rejected"
      OBVIOUS
    <3>2. PICK c1 \in Nat, e1 \in Nat : c1 = publisher'.credit /\ e1 = Held'
      BY <2>7, <3>1
    <3>3. c1 + e1 = c + h + e \/ (c1 + e1 = c + e /\ (answerer'.done \/ answerer'.phase = "rejected"))
            \/ (c1 + e1 = c /\ answerer'.phase = "rejected")
      BY <2>3, <2>5, <2>6a, <3>1, <3>2
    <3>4. Asked = c + (h + w) + e /\ Asked' = c1 + w + e1
      BY <2>8, <3>2
    <3>. QED
      BY <3>3, <3>4
  <2>10. kind = "stream" /\ ~answerer'.done /\ answerer'.phase # "rejected"
          => ~answerer.done /\ answerer.phase # "rejected"
    BY <2>5
  <2>11. kind' = kind /\ asker' = asker /\ subscriber' = subscriber /\ (IsOpen' => IsOpen)
    BY <2>1
  <2>. QED
    BY <1>0, <1>a, <2>9, <2>10, <2>11 DEF DemandInv
<1>14. ASSUME HandlerEnds
      PROVE  DemandInv'
  <2>1. /\ kind' = kind /\ pipe'[Responder] = pipe[Responder]
        /\ subscriber'.demand = subscriber.demand /\ publisher'.credit = publisher.credit
        /\ asker.phase = asker'.phase /\ asker'.initialRequestN = asker.initialRequestN
        /\ Held' = Held
        /\ asker.done => asker'.done
        /\ answerer.done => answerer'.done
        /\ answerer.phase = "rejected" => answerer'.phase = "rejected"
        /\ IsOpen' => IsOpen
    BY <1>0, <1>14 DEF HandlerEnds, PhaseInv, Held, Signalled
  <2>. QED
    BY <1>0, <2>1, SameDemand
<1>15. ASSUME NEW frames \in Seq(Frames), HandlerFails(frames)
      PROVE  DemandInv'
  <2>1. /\ kind' = kind /\ pipe'[Responder] = pipe[Responder]
        /\ subscriber'.demand = subscriber.demand /\ publisher'.credit = publisher.credit
        /\ asker.phase = asker'.phase /\ asker'.initialRequestN = asker.initialRequestN
        /\ Held' = Held
        /\ asker.done => asker'.done
        /\ answerer.done => answerer'.done
        /\ answerer.phase = "rejected" => answerer'.phase = "rejected"
        /\ IsOpen' => IsOpen
    BY <1>0, <1>15 DEF HandlerFails, PhaseInv, Held, Signalled
  <2>. QED
    BY <1>0, <2>1, SameDemand
<1>16. ASSUME TakesDemand
      PROVE  DemandInv'
  <2>1. /\ kind' = kind /\ pipe[Responder] # <<>> /\ pipe'[Responder] = Tail(pipe[Responder])
        /\ asker' = asker /\ connected' = connected /\ subscriber' = subscriber
    BY <1>16 DEF TakesDemand, TakesAtResponder
  <2>2. PICK w \in Nat : w = Weigh(DemandWeight, pipe'[Responder])
    BY <1>0, <2>1, NextDemand
  <2>3. PICK h \in Nat : h = Demand(Head(pipe[Responder]))
    BY <1>0, <2>1, NextDemand
  <2>3a. Weigh(DemandWeight, pipe[Responder]) = h + w
    BY <1>0, <2>1, <2>2, <2>3, NextDemand
  <2>4. asker.phase # "new" /\ connected[Responder]
    BY <1>0, <2>1 DEF PhaseInv
  <2>5. /\ publisher'.credit = publisher.credit + Demand(Head(pipe[Responder]))
        /\ answerer' = answerer /\ Held' = Held
    BY <1>0, <1>16, <2>1 DEF TakesDemand, Held, Demand
  <2>6a. PICK c \in Nat, e \in Nat : c = publisher.credit /\ e = Held
    BY <1>a
  <2>7. kind = "stream" => \E c1 \in Nat, e1 \in Nat : c1 = publisher'.credit /\ e1 = Held'
    BY <2>3, <2>5, <2>6a
  <2>8. /\ Asked = c + (h + w) + e
        /\ Asked' = publisher'.credit + w + Held'
    BY <2>2, <2>3a, <2>6a DEF Asked
  <2>9. kind = "stream" => /\ Asked \in Nat /\ Asked' \in Nat /\ Asked' <= Asked
                           /\ Asked' = Asked \/ answerer'.done \/ answerer'.phase = "rejected"
    <3>1. SUFFICES ASSUME kind = "stream"
                   PROVE  /\ Asked \in Nat /\ Asked' \in Nat /\ Asked' <= Asked
                          /\ Asked' = Asked \/ answerer'.done \/ answerer'.phase = "rejected"
      OBVIOUS
    <3>2. PICK c1 \in Nat, e1 \in Nat : c1 = publisher'.credit /\ e1 = Held'
      BY <2>7, <3>1
    <3>3. c1 + e1 = c + h + e \/ (c1 + e1 = c + e /\ (answerer'.done \/ answerer'.phase = "rejected"))
            \/ (c1 + e1 = c /\ answerer'.phase = "rejected")
      BY <2>3, <2>5, <2>6a, <3>1, <3>2
    <3>4. Asked = c + (h + w) + e /\ Asked' = c1 + w + e1
      BY <2>8, <3>2
    <3>. QED
      BY <3>3, <3>4
  <2>10. kind = "stream" /\ ~answerer'.done /\ answerer'.phase # "rejected"
          => ~answerer.done /\ answerer.phase # "rejected"
    BY <2>5
  <2>11. kind' = kind /\ asker' = asker /\ subscriber' = subscriber /\ (IsOpen' => IsOpen)
    BY <2>1
  <2>. QED
    BY <1>0, <1>a, <2>9, <2>10, <2>11 DEF DemandInv
<1>17. ASSUME TakesCancel
      PROVE  DemandInv'
  <2>1. /\ kind' = kind /\ pipe[Responder] # <<>> /\ pipe'[Responder] = Tail(pipe[Responder])
        /\ asker' = asker /\ connected' = connected /\ subscriber' = subscriber
    BY <1>17 DEF TakesCancel, TakesAtResponder
  <2>2. PICK w \in Nat : w = Weigh(DemandWeight, pipe'[Responder])
    BY <1>0, <2>1, NextDemand
  <2>3. PICK h \in Nat : h = Demand(Head(pipe[Responder]))
    BY <1>0, <2>1, NextDemand
  <2>3a. Weigh(DemandWeight, pipe[Responder]) = h + w
    BY <1>0, <2>1, <2>2, <2>3, NextDemand
  <2>4. asker.phase # "new" /\ connected[Responder]
    BY <1>0, <2>1 DEF PhaseInv
  <2>5. /\ publisher'.credit = publisher.credit /\ answerer'.done /\ Held' = Held
    BY <1>0, <1>17, <2>1 DEF TakesCancel, Held
  <2>6a. PICK c \in Nat, e \in Nat : c = publisher.credit /\ e = Held
    BY <1>a
  <2>7. kind = "stream" => \E c1 \in Nat, e1 \in Nat : c1 = publisher'.credit /\ e1 = Held'
    BY <2>3, <2>5, <2>6a
  <2>8. /\ Asked = c + (h + w) + e
        /\ Asked' = publisher'.credit + w + Held'
    BY <2>2, <2>3a, <2>6a DEF Asked
  <2>9. kind = "stream" => /\ Asked \in Nat /\ Asked' \in Nat /\ Asked' <= Asked
                           /\ Asked' = Asked \/ answerer'.done \/ answerer'.phase = "rejected"
    <3>1. SUFFICES ASSUME kind = "stream"
                   PROVE  /\ Asked \in Nat /\ Asked' \in Nat /\ Asked' <= Asked
                          /\ Asked' = Asked \/ answerer'.done \/ answerer'.phase = "rejected"
      OBVIOUS
    <3>2. PICK c1 \in Nat, e1 \in Nat : c1 = publisher'.credit /\ e1 = Held'
      BY <2>7, <3>1
    <3>3. c1 + e1 = c + h + e \/ (c1 + e1 = c + e /\ (answerer'.done \/ answerer'.phase = "rejected"))
            \/ (c1 + e1 = c /\ answerer'.phase = "rejected")
      BY <2>3, <2>5, <2>6a, <3>1, <3>2
    <3>4. Asked = c + (h + w) + e /\ Asked' = c1 + w + e1
      BY <2>8, <3>2
    <3>. QED
      BY <3>3, <3>4
  <2>10. kind = "stream" /\ ~answerer'.done /\ answerer'.phase # "rejected"
          => ~answerer.done /\ answerer.phase # "rejected"
    BY <2>5
  <2>11. kind' = kind /\ asker' = asker /\ subscriber' = subscriber /\ (IsOpen' => IsOpen)
    BY <2>1
  <2>. QED
    BY <1>0, <1>a, <2>9, <2>10, <2>11 DEF DemandInv
<1>18. ASSUME ClosesResponder
      PROVE  DemandInv'
  <2>1. /\ kind' = kind /\ asker' = asker /\ subscriber' = subscriber /\ ~IsOpen'
        /\ pipe'[Responder] = <<>> /\ publisher'.credit = publisher.credit
        /\ Held' = Held
    BY <1>0, <1>18 DEF ClosesResponder, Held
  <2>2. Weigh(DemandWeight, pipe'[Responder]) = 0
    BY <2>1, WeighEmpty
  <2>. QED
    BY <1>0, <1>a, <2>1, <2>2 DEF DemandInv, Asked
<1>19. ASSUME NEW frames \in Seq(Frames), NEW items \in {0, 1}, NEW ends \in BOOLEAN, Publishes(frames, items, ends)
      PROVE  DemandInv'
  <2>1. /\ kind' = kind /\ pipe'[Responder] = pipe[Responder]
        /\ subscriber'.demand = subscriber.demand /\ publisher'.credit = publisher.credit
        /\ asker.phase = asker'.phase /\ asker'.initialRequestN = asker.initialRequestN
        /\ Held' = Held
        /\ asker.done => asker'.done
        /\ answerer.done => answerer'.done
        /\ answerer.phase = "rejected" => answerer'.phase = "rejected"
        /\ IsOpen' => IsOpen
    BY <1>0, <1>19 DEF Publishes, PhaseInv, Held, Signalled
  <2>. QED
    BY <1>0, <2>1, SameDemand
<1>. QED
  BY <1>1, <1>2, <1>3, <1>4, <1>5, <1>6, <1>7, <1>8, <1>9, <1>10, <1>11, <1>12, <1>13, <1>14, <1>15, <1>16, <1>17, <1>18, <1>19 DEF Effect, RequesterEffect, ResponderEffect

\* The first state satisfies the invariant: nothing is on its way and nothing
\* was signalled, and the requester holds the demand of its subscriber.
LEMMA InitInv == Init => IInv
<1>1. SUFFICES ASSUME Init PROVE IInv
  OBVIOUS
<1>2. PICK demands \in SUBSET Nat : InitWith(demands)
  <2>1. 1 .. MaxDemand \subseteq Nat /\ {0} \subseteq Nat
    OBVIOUS
  <2>2. CASE Stream!Init
    <3>1. InitWith(1 .. MaxDemand)
      BY <2>2 DEF InitWith, Peers, Requester, Responder, Stream!Init, Stream!InitWith, Stream!Peers, Stream!Requester, Stream!Responder
    <3>. QED
      BY <2>1, <3>1
  <2>3. CASE Response!Init
    <3>1. InitWith({0})
      BY <2>3 DEF InitWith, Peers, Requester, Responder, Response!Init, Response!InitWith, Response!Peers, Response!Requester, Response!Responder
    <3>. QED
      BY <2>1, <3>1
  <2>4. CASE Fnf!Init
    <3>1. InitWith({0})
      BY <2>4 DEF InitWith, Peers, Requester, Responder, Fnf!Init, Fnf!InitWith, Fnf!Peers, Fnf!Requester, Fnf!Responder
    <3>. QED
      BY <2>1, <3>1
  <2>. QED
    BY <1>1, <2>2, <2>3, <2>4 DEF Init
<1>3. PICK n \in Nat :
        /\ stream = [p \in Peers |-> [phase |-> IF p = Requester THEN "new" ELSE "none",
                                      done |-> FALSE, hasFragments |-> FALSE,
                                      initialRequestN |-> IF p = Requester THEN n ELSE 0,
                                      hasExtension |-> FALSE]]
        /\ subscriber = [signals |-> <<>>, demand |-> n, cancelled |-> FALSE]
  BY <1>2 DEF InitWith
<1>4. /\ asker.phase = "new" /\ ~asker.done /\ ~asker.hasFragments /\ asker.initialRequestN = n
      /\ answerer.phase = "none" /\ ~answerer.done /\ ~answerer.hasFragments
      /\ answerer.initialRequestN = 0
  BY <1>3 DEF asker, answerer, Peers, Requester, Responder
<1>5. /\ ~registered[Requester] /\ ~registered[Responder]
      /\ pipe[Requester] = <<>> /\ pipe[Responder] = <<>>
      /\ publisher = [handled |-> 0, credit |-> 0, published |-> 0, ended |-> FALSE, cancels |-> 0]
  BY <1>2 DEF InitWith, Peers
<1>6. subscriber.signals = <<>> /\ subscriber.demand = n /\ ~subscriber.cancelled
  BY <1>3
<1>7. Len(subscriber.signals) = 0 /\ Range(pipe[Requester]) = {} /\ Len(pipe[Requester]) = 0
      /\ Range(pipe[Responder]) = {}
  BY <1>5, <1>6 DEF Range
<1>8. TypeOK
  <2>1. <<>> \in Seq(Frames) /\ <<>> \in Seq({"next", "complete", "error"})
    OBVIOUS
  <2>2. stream \in [Peers -> StreamFields]
    BY <1>3 DEF StreamFields
  <2>3. pipe \in [Peers -> Seq(Frames)]
    BY <1>2, <2>1 DEF InitWith
  <2>4. subscriber \in [signals : Seq({"next", "complete", "error"}), demand : Nat, cancelled : BOOLEAN]
    BY <1>3, <2>1
  <2>. QED
    BY <1>2, <1>5, <2>2, <2>3, <2>4 DEF InitWith, TypeOK
<1>9. KindInv
  BY <1>1 DEF Init, KindInv
<1>10. PhaseInv /\ RegistryInv /\ PublisherInv
  BY <1>4, <1>5 DEF PhaseInv, RegistryInv, PublisherInv
<1>11. RequestInv
  BY <1>4, <1>5, <1>7 DEF RequestInv
<1>12. EndsInv
  BY <1>4, <1>5, <1>7 DEF EndsInv, EndsLast
<1>13. SignalsInv
  BY <1>4, <1>6, <1>7 DEF SignalsInv
<1>14. ItemsInv
  <2>1. <<>> \in Seq(Signals)
    OBVIOUS
  <2>1a. PICK s \in Seq(Signals) : s = subscriber.signals
    BY <1>6, <2>1
  <2>1b. \A i \in 1 .. Len(s) : s[i] # "next" /\ s[i] # "complete"
    BY <1>7, <2>1a
  <2>2. Count("next") = 0 /\ Count("complete") = 0
    BY <2>1a, <2>1b, OccurrencesNone DEF Count
  <2>3. Weigh(ItemWeight, pipe[Requester]) = 0
    BY <1>5, WeighEmpty
  <2>. QED
    BY <1>5, <1>7, <2>2, <2>3 DEF ItemsInv, AllPublished
<1>15. DemandInv
  <2>1. Weigh(DemandWeight, pipe[Responder]) = 0
    BY <1>5, WeighEmpty
  <2>2. Held = n
    BY <1>4 DEF Held, asker
  <2>. QED
    BY <1>5, <1>6, <2>1, <2>2 DEF DemandInv, Asked
<1>. QED
  BY <1>8, <1>9, <1>10, <1>11, <1>12, <1>13, <1>14, <1>15 DEF IInv

\* Every step keeps it.
LEMMA NextInv == IInv /\ [Next]_allVars => IInv'
<1>1. ASSUME IInv, Next PROVE IInv'
  <2>1. TypeOK' /\ Effect
    BY <1>1, StepEffect DEF IInv
  <2>2. KindInv'
    <3>1. kind' = kind
      BY <1>1 DEF Next, StreamStep, ResponseStep, FnfStep
    <3>. QED
      BY <1>1, <3>1 DEF IInv, KindInv
  <2>. QED
    BY <1>1, <2>1, <2>2, PhaseStep, RequestStep, EndsStep, SignalsStep, ItemsStep, DemandStep DEF IInv
<1>2. ASSUME IInv, UNCHANGED allVars PROVE IInv'
  <2>1. /\ stream' = stream /\ registered' = registered /\ connected' = connected /\ pipe' = pipe
        /\ subscriber' = subscriber /\ publisher' = publisher /\ kind' = kind
    BY <1>2 DEF allVars, vars
  <2>2. TypeOK' /\ KindInv' /\ PhaseInv' /\ RegistryInv' /\ RequestInv' /\ PublisherInv'
    BY SMTT(40), <1>2, <2>1 DEF IInv, TypeOK, KindInv, PhaseInv, RegistryInv, RequestInv, PublisherInv,
       asker, answerer, IsOpen
  <2>3. EndsInv' /\ SignalsInv'
    BY <1>2, <2>1 DEF IInv, EndsInv, EndsLast, SignalsInv, asker, answerer, IsOpen
  <2>4. ItemsInv' /\ DemandInv'
    BY <1>2, <2>1 DEF IInv, ItemsInv, DemandInv, AllPublished, Asked, Held, Count, asker, answerer, IsOpen
  <2>. QED
    BY <2>2, <2>3, <2>4 DEF IInv
<1>. QED
  BY <1>1, <1>2

\* The invariant holds in every state of every behaviour.
LEMMA Invariant == Spec => []IInv
BY InitInv, NextInv, PTL DEF Spec

-----------------------------------------------------------------------------
(* What the invariant says. *)

\* Every field keeps its type: with any MaxDemand, and with payloads of one
\* frame or of two.
THEOREM StreamsTypeCorrect == Spec => []TypeOK
<1>1. IInv => TypeOK
  BY DEF IInv
<1>. QED
  BY <1>1, Invariant, PTL

\* A stream is in its multiplexer's registry exactly while it may still be
\* sent a frame, and once nothing is on its way the two ends agree on whether
\* it is over.
THEOREM RegistryAgreesCorrect == Spec => []RegistryAgrees
<1>1. IInv => RegistryAgrees
  <2>1. SUFFICES ASSUME IInv PROVE RegistryAgrees
    OBVIOUS
  <2>2. ASSUME NEW p \in Peers, connected[p]
        PROVE  registered[p] <=> /\ ~stream[p].done
                                 /\ \/ kind # "fnf" /\ stream[p].phase \in {"ready", "assembling", "handler"}
                                    \/ kind = "fnf" /\ stream[p].phase = "assembling"
    <3>1. CASE p = Requester
      BY <2>1, <2>2, <3>1 DEF IInv, PhaseInv, RegistryInv, asker
    <3>2. CASE p = Responder
      BY <2>1, <2>2, <3>2 DEF IInv, RegistryInv, answerer
    <3>. QED
      BY <3>1, <3>2 DEF Peers
  <2>3. ASSUME \A p \in Peers : stream[p].phase \in {"ready", "failed"} /\ connected[p] /\ pipe[p] = <<>>,
               kind # "fnf"
        PROVE  stream[Requester].done = stream[Responder].done
    <3>1. /\ asker.phase = "ready" /\ answerer.phase # "rejected" /\ IsOpen
          /\ pipe[Requester] = <<>> /\ pipe[Responder] = <<>>
      BY <2>1, <2>3 DEF IInv, PhaseInv, asker, answerer, IsOpen, Peers, Requester, Responder
    <3>2. Range(pipe[Requester]) = {} /\ Range(pipe[Responder]) = {}
      BY <3>1 DEF Range
    <3>3. asker.done <=> answerer.done
      BY <2>1, <2>3, <3>1, <3>2 DEF IInv, EndsInv
    <3>4. asker.done \in BOOLEAN /\ answerer.done \in BOOLEAN
      BY <2>1 DEF IInv, TypeOK, StreamFields, asker, answerer, Peers
    <3>. QED
      BY <3>3, <3>4 DEF asker, answerer
  <2>. QED
    BY <2>2, <2>3 DEF RegistryAgrees
<1>. QED
  BY <1>1, Invariant, PTL

\* A sequence of items with one terminal signal at its end has that one.
LEMMA LastOccurs ==
  ASSUME NEW s \in Seq(Signals), Len(s) > 0,
         \A i \in 1 .. Len(s) - 1 : s[i] = "next", s[Len(s)] # "next"
  PROVE  Occurrences(s, "complete") + Occurrences(s, "error") = 1
<1>1. DOMAIN s = 1 .. Len(s) /\ Len(s) \in Nat /\ Len(s) \in DOMAIN s
  BY LenProperties
<1>2. s[Len(s)] \in {"complete", "error"}
  BY <1>1, ElementOfSeq DEF Signals
<1>3. \A i \in DOMAIN s : i = Len(s) \/ s[i] = "next"
  BY <1>1
<1>4. CASE s[Len(s)] = "complete"
  <2>1. {i \in DOMAIN s : s[i] = "complete"} = {Len(s)} /\ {i \in DOMAIN s : s[i] = "error"} = {}
    BY <1>1, <1>3, <1>4
  <2>2. Occurrences(s, "complete") = 1
    BY <2>1, FS_Singleton DEF Occurrences
  <2>3. Occurrences(s, "error") = 0
    BY <2>1, FS_EmptySet DEF Occurrences
  <2>. QED
    BY <2>2, <2>3
<1>5. CASE s[Len(s)] = "error"
  <2>1. {i \in DOMAIN s : s[i] = "error"} = {Len(s)} /\ {i \in DOMAIN s : s[i] = "complete"} = {}
    BY <1>1, <1>3, <1>5
  <2>2. Occurrences(s, "error") = 1
    BY <2>1, FS_Singleton DEF Occurrences
  <2>3. Occurrences(s, "complete") = 0
    BY <2>1, FS_EmptySet DEF Occurrences
  <2>. QED
    BY <2>2, <2>3
<1>. QED
  BY <1>2, <1>4, <1>5

\* The subscriber is given items and then at most one terminal signal; a
\* completion means that it was given every item and that the publisher, which
\* was not cancelled, ended by itself.  The handler runs at most once, and its
\* publisher is cancelled at most once and not after it ended.
THEOREM ApplicationContractCorrect == Spec => []ApplicationContract
<1>1. IInv => ApplicationContract
  <2>1. SUFFICES ASSUME IInv PROVE ApplicationContract
    OBVIOUS
  <2>2. SubscriberContract
    <3>1. \A i \in 1 .. Len(subscriber.signals) - 1 : subscriber.signals[i] = "next"
      BY <2>1 DEF IInv, SignalsInv
    <3>2. Count("complete") = 1 /\ kind # "fnf" =>
            publisher.ended /\ publisher.cancels = 0 /\ Count("next") = publisher.published
      BY <2>1 DEF IInv, ItemsInv
    <3>3. ASSUME stream[Requester].done, ~subscriber.cancelled
          PROVE  Count("complete") + Count("error") = 1
      <4>1. subscriber.signals \in Seq(Signals)
        BY <2>1 DEF IInv, TypeOK, Signals
      <4>2. Len(subscriber.signals) > 0 /\ subscriber.signals[Len(subscriber.signals)] # "next"
        BY <2>1, <3>3 DEF IInv, SignalsInv, asker
      <4>. QED
        BY <3>1, <4>1, <4>2, LastOccurs DEF Count
    <3>. QED
      BY <3>1, <3>2, <3>3 DEF SubscriberContract
  <2>3. PublisherContract
    BY <2>1 DEF IInv, PublisherInv, PublisherContract
  <2>. QED
    BY <2>2, <2>3 DEF ApplicationContract
<1>. QED
  BY <1>1, Invariant, PTL

\* Demand is neither lost nor made up: what the publisher was asked for, with
\* what is on its way, is what the subscriber asked for while both ends are
\* open, and never more; and the frame that carries more finds a responder
\* that can take it.
THEOREM DemandConservedCorrect == Spec => []DemandConserved
<1>1. IInv => DemandConserved
  <2>1. SUFFICES ASSUME IInv, kind = "stream"
                 PROVE  /\ publisher.credit + InFlight + Held <= subscriber.demand
                        /\ (\A p \in Peers : connected[p] /\ ~stream[p].done) /\ stream[Responder].phase # "rejected"
                             => publisher.credit + InFlight + Held = subscriber.demand
                        /\ Routed(Responder, "REQUEST_N") =>
                             stream[Responder].phase = "ready" /\ ~stream[Responder].hasFragments
    BY DEF DemandConserved
  <2>2. InFlight = Weigh(DemandWeight, pipe[Responder])
    <3>1. PICK s \in Seq(Frames) : s = pipe[Responder]
      BY <2>1 DEF IInv, TypeOK, Peers
    <3>2. \A i \in DOMAIN s : s[i] \in Frames
      BY ElementOfSeq, LenProperties
    <3>3. [i \in DOMAIN s |-> Demand(s[i])] = [i \in DOMAIN s |-> DemandWeight[s[i]]]
      BY <3>2 DEF DemandWeight
    <3>. QED
      BY <3>1, <3>3 DEF InFlight, Weigh
  <2>3. publisher.credit + InFlight + Held = Asked
    BY <2>2 DEF Asked
  <2>4. Asked <= subscriber.demand
    BY <2>1 DEF IInv, DemandInv
  <2>5. ASSUME \A p \in Peers : connected[p] /\ ~stream[p].done, stream[Responder].phase # "rejected"
        PROVE  Asked = subscriber.demand
    <3>1. IsOpen /\ ~asker.done /\ ~answerer.done /\ answerer.phase # "rejected"
      BY <2>5 DEF IsOpen, asker, answerer, Peers
    <3>. QED
      BY <2>1, <3>1 DEF IInv, DemandInv
  <2>6. ASSUME Routed(Responder, "REQUEST_N")
        PROVE  stream[Responder].phase = "ready" /\ ~stream[Responder].hasFragments
    <3>1. /\ pipe[Responder] # <<>> /\ Head(pipe[Responder]).type = "REQUEST_N"
          /\ answerer.phase # "handler" /\ registered[Responder]
      BY <2>6 DEF Routed, Received, answerer
    <3>2. connected[Responder]
      BY <2>1, <3>1 DEF IInv, PhaseInv
    <3>3. answerer.phase \in {"ready", "assembling"}
      BY <2>1, <3>1, <3>2 DEF IInv, RegistryInv
    <3>4. answerer.phase # "assembling"
      BY <2>1, <3>1, <3>2 DEF IInv, RequestInv
    <3>. QED
      BY <2>1, <3>3, <3>4 DEF IInv, PhaseInv, answerer
  <2>. QED
    BY <2>3, <2>4, <2>5, <2>6
<1>. QED
  BY <1>1, Invariant, PTL
=============================================================================
