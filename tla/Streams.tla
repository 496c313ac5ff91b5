------------------------------ MODULE Streams ------------------------------
(***************************************************************************)
(* One stream of any of the three interactions in which the requester      *)
(* sends a single payload, and what all three owe their applications and   *)
(* the registries of the two multiplexers.                                 *)
(***************************************************************************)
EXTENDS StreamPair, Sums

VARIABLE kind       \* the interaction: "stream", "response" or "fnf"

Stream == INSTANCE RequestStream
Response == INSTANCE RequestResponse
Fnf == INSTANCE RequestFnF

\* The method of RSocketRequester that the application calls.
Init ==
  \/ kind = "stream" /\ Stream!Init
  \/ kind = "response" /\ Response!Init
  \/ kind = "fnf" /\ Fnf!Init

StreamStep == kind = "stream" /\ Stream!Next /\ UNCHANGED kind
ResponseStep == kind = "response" /\ Response!Next /\ UNCHANGED kind
FnfStep == kind = "fnf" /\ Fnf!Next /\ UNCHANGED kind

Next == StreamStep \/ ResponseStep \/ FnfStep

allVars == <<vars, kind>>

Spec == Init /\ [][Next]_allVars

EventLoop(p) ==
  /\ \/ kind = "stream" /\ Stream!EventLoop(p)
     \/ kind = "response" /\ Response!EventLoop(p)
     \/ kind = "fnf" /\ Fnf!EventLoop(p)
  /\ UNCHANGED kind

\* An event loop does not stop while it has something to run; applications owe
\* nothing.
FairSpec == Spec /\ \A p \in Peers : WF_allVars(EventLoop(p))

-----------------------------------------------------------------------------
Count(signal) == Occurrences(subscriber.signals, signal)

\* The subscriber is given items and then at most one terminal signal.  If
\* that is the completion of a stream or a response, it was given every item
\* the publisher sent, and the publisher is the one that ended; and if the
\* publisher was cancelled, it was not.
SubscriberContract ==
  /\ \A i \in 1 .. Len(subscriber.signals) - 1 : subscriber.signals[i] = "next"
  /\ Count("complete") = 1 /\ kind # "fnf" =>
       publisher.ended /\ publisher.cancels = 0 /\ Count("next") = publisher.published
  /\ stream[Requester].done /\ ~subscriber.cancelled => Count("complete") + Count("error") = 1

\* The handler runs at most once, and a publisher that ended by itself is not
\* cancelled: nor is one cancelled twice.  A cancelled publisher may end later
\* only if it was cancelled by the close of the connection, which leaves done
\* unset.
PublisherContract ==
  /\ publisher.handled <= 1
  /\ publisher.cancels <= 1
  /\ publisher.cancels = 1 /\ publisher.ended => ~connected[Responder]

\* What both applications of a stream are told.
ApplicationContract == SubscriberContract /\ PublisherContract

\* The demand in frames on their way to the responder.
Demand(frame) == IF frame.type \in {"REQUEST", "REQUEST_N"} THEN frame.requestN ELSE 0
InFlight == Total([i \in DOMAIN pipe[Responder] |-> Demand(pipe[Responder][i])])

Held ==
  IF stream[Requester].phase = "new" THEN stream[Requester].initialRequestN
  ELSE IF stream[Responder].phase = "assembling" THEN stream[Responder].initialRequestN ELSE 0

\* What the subscriber of a stream asked for is what the publisher was asked
\* for and what is on its way, while both are open; REQUEST_N never fails the
\* stream for having come before the request or inside a payload.
DemandConserved ==
  kind = "stream" =>
    LET asked == publisher.credit + InFlight + Held IN
    /\ asked <= subscriber.demand
    /\ (\A p \in Peers : connected[p] /\ ~stream[p].done) /\ stream[Responder].phase # "rejected"
         => asked = subscriber.demand
    /\ Routed(Responder, "REQUEST_N") =>
         stream[Responder].phase = "ready" /\ ~stream[Responder].hasFragments

\* A stream is in the registry exactly while it may still be sent a frame, and
\* when nothing is on its way the two ends agree on whether it is over.
RegistryAgrees ==
  /\ \A p \in Peers : connected[p] =>
       (registered[p] <=> /\ ~stream[p].done
                          /\ \/ kind # "fnf" /\ stream[p].phase \in {"ready", "assembling", "handler"}
                             \/ kind = "fnf" /\ stream[p].phase = "assembling")
  /\ (\A p \in Peers : stream[p].phase \in {"ready", "failed"} /\ connected[p] /\ pipe[p] = <<>>)
       /\ kind # "fnf" => stream[Requester].done = stream[Responder].done

\* When the requester is done with what it sent, the handler's publisher ends
\* or is cancelled; and when the publisher is over or was never there, the
\* requester is done.  A fire-and-forget reaches the handler, unless the
\* connection closes or nobody handles it.
EventuallySettled ==
  /\ stream[Requester].done /\ stream[Requester].phase = "ready" ~>
       \/ stream[Responder].phase \in {"none", "rejected"} /\ ~(connected[Requester] /\ connected[Responder])
       \/ stream[Responder].phase \in {"rejected", "failed"}
       \/ kind # "fnf" /\ (publisher.ended \/ publisher.cancels = 1 \/ ~connected[Responder])
       \/ kind = "fnf" /\ (publisher.handled = 1 \/ ~connected[Responder])
  /\ publisher.ended \/ stream[Responder].phase \in {"failed", "rejected"} ~> stream[Requester].done
=============================================================================
