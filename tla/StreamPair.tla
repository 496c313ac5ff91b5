----------------------------- MODULE StreamPair -----------------------------
(***************************************************************************)
(* What RequestStream, RequestResponse and RequestFnF share: two stream    *)
(* objects, one at each peer, the frames on their way between them, and    *)
(* the two applications.  The requester's application is the subscriber,   *)
(* the responder's is the handler and, after it, the publisher.            *)
(***************************************************************************)
EXTENDS Naturals, Sequences

CONSTANTS
  MaxDemand,        \* bound: items the subscriber asks for in all
  Fragmented        \* whether payloads may be too big for one frame

Requester == "requester"
Responder == "responder"
Peers == {Requester, Responder}
Other(p) == IF p = Requester THEN Responder ELSE Requester

ASSUME StreamAssumption == MaxDemand \in Nat \ {0} /\ Fragmented \subseteq BOOLEAN

VARIABLES
  stream,           \* the fields of the two stream objects
  registered,       \* p's multiplexer has the stream in its registry
  connected,        \* p's end of the connection is open
  pipe,             \* frames on their way to p
  subscriber,       \* history: what the subscriber did and was given
  publisher         \* history: what the handler and the publisher did and were told

vars == <<stream, registered, connected, pipe, subscriber, publisher>>

RequestFrame(n, follows) == [type |-> "REQUEST", requestN |-> n, follows |-> follows]
PayloadFrame(next, complete, follows) ==
  [type |-> "PAYLOAD", next |-> next, complete |-> complete, follows |-> follows]
RequestNFrame(n) == [type |-> "REQUEST_N", requestN |-> n]
CancelFrame == [type |-> "CANCEL"]
ErrorFrame == [type |-> "ERROR"]

Frames ==
       [type : {"REQUEST"}, requestN : Nat, follows : BOOLEAN]
  \cup [type : {"PAYLOAD"}, next : BOOLEAN, complete : BOOLEAN, follows : BOOLEAN]
  \cup [type : {"REQUEST_N"}, requestN : Nat \ {0}]
  \cup [type : {"CANCEL", "ERROR"}]

\* A payload takes one frame or two: how many does not matter to a stream.
Payload(complete, fragmented) ==
  IF fragmented
  THEN <<PayloadFrame(TRUE, FALSE, TRUE), PayloadFrame(TRUE, complete, FALSE)>>
  ELSE <<PayloadFrame(TRUE, complete, FALSE)>>

Request(n, fragmented) ==
  IF fragmented
  THEN <<RequestFrame(n, TRUE), PayloadFrame(TRUE, FALSE, FALSE)>>
  ELSE <<RequestFrame(n, FALSE)>>

\* The phase of a requester is "new" until it has a stream id; the one of a
\* responder tells whether its request and its handler are complete.
StreamFields == [phase : {"new", "ready", "none", "assembling", "handler", "failed", "rejected"},
                 done : BOOLEAN, hasFragments : BOOLEAN, initialRequestN : Nat, hasExtension : BOOLEAN]

TypeOK ==
  /\ stream \in [Peers -> StreamFields]
  /\ registered \in [Peers -> BOOLEAN]
  /\ connected \in [Peers -> BOOLEAN]
  /\ pipe \in [Peers -> Seq(Frames)]
  /\ subscriber \in [signals : Seq({"next", "complete", "error"}), demand : Nat, cancelled : BOOLEAN]
  /\ publisher \in [handled : Nat, credit : Nat, published : Nat, ended : BOOLEAN, cancels : Nat]

InitWith(demands) ==
  /\ \E n \in demands :
       /\ stream = [p \in Peers |-> [phase |-> IF p = Requester THEN "new" ELSE "none",
                                     done |-> FALSE, hasFragments |-> FALSE,
                                     initialRequestN |-> IF p = Requester THEN n ELSE 0,
                                     hasExtension |-> FALSE]]
       /\ subscriber = [signals |-> <<>>, demand |-> n, cancelled |-> FALSE]
  /\ registered = [p \in Peers |-> FALSE]
  /\ connected = [p \in Peers |-> TRUE]
  /\ pipe = [p \in Peers |-> <<>>]
  /\ publisher = [handled |-> 0, credit |-> 0, published |-> 0, ended |-> FALSE, cancels |-> 0]

-----------------------------------------------------------------------------
\* p takes the next frame (if "takes") and sends frames, which are lost when
\* an end of the connection is closed.
Transfer(p, takes, frames) ==
  pipe' = [pipe EXCEPT ![p] = IF takes THEN Tail(@) ELSE @,
                       ![Other(p)] = IF connected[p] /\ connected[Other(p)] THEN @ \o frames ELSE @]

Send(p, frames) == Transfer(p, FALSE, frames)
Reply(p, frames) == Transfer(p, TRUE, frames)

Finished(s) == [s EXCEPT !.done = TRUE, !.hasFragments = FALSE]
Finish(p) == stream' = [stream EXCEPT ![p] = Finished(@)]
Connect(p) == registered' = [registered EXCEPT ![p] = TRUE]
Disconnect(p, condition) == registered' = [registered EXCEPT ![p] = @ /\ ~condition]
Signal(s) == subscriber' = [subscriber EXCEPT !.signals = @ \o s]
CancelPublisher(condition) ==
  publisher' = [publisher EXCEPT !.cancels = IF condition THEN @ + 1 ELSE @]

\* p's multiplexer has a frame of this type; it handles none while the
\* handler of the responder runs.
Received(p, type) ==
  /\ pipe[p] # <<>>
  /\ Head(pipe[p]).type = type
  /\ stream[p].phase # "handler"

Routed(p, type) == Received(p, type) /\ registered[p]

\* A frame for a stream that is not in the registry.
DropFrame(p) ==
  /\ pipe[p] # <<>>
  /\ Head(pipe[p]).type # "REQUEST"
  /\ stream[p].phase # "handler"
  /\ ~registered[p]
  /\ Reply(p, <<>>)
  /\ UNCHANGED <<stream, registered, connected, subscriber, publisher>>

\* The connection of p closes; its multiplexer closes p's stream if "closing".
Hangup(p) ==
  /\ connected' = [connected EXCEPT ![p] = FALSE]
  /\ pipe' = [pipe EXCEPT ![p] = <<>>]

\* The handler is called with the request and the demand that came with it.
CallHandler(n) ==
  /\ stream' = [stream EXCEPT ![Responder].phase = "handler", ![Responder].hasFragments = FALSE]
  /\ publisher' = [publisher EXCEPT !.handled = @ + 1, !.credit = n]
  /\ Reply(Responder, <<>>)
=============================================================================
