--------------------------- MODULE ReliableDelivery ---------------------------
(***************************************************************************)
(* What a resumable session promises to the streams of both peers: the     *)
(* stream frames a peer sends reach the handlers of the other peer exactly *)
(* once and in the order they were sent, however many connections carried  *)
(* them.  arrived[p] lists the numbers of the frames of p that arrived.    *)
(***************************************************************************)
EXTENDS Naturals, Sequences

CONSTANT Senders

VARIABLES sent, arrived

Init ==
  /\ sent = [p \in Senders |-> 0]
  /\ arrived = [p \in Senders |-> <<>>]

Send(p) ==
  /\ sent' = [sent EXCEPT ![p] = @ + 1]
  /\ UNCHANGED arrived

Arrive(p) ==
  /\ Len(arrived[p]) < sent[p]
  /\ arrived' = [arrived EXCEPT ![p] = Append(@, Len(@) + 1)]
  /\ UNCHANGED sent

Next == \E p \in Senders : Send(p) \/ Arrive(p)

Spec == Init /\ [][Next]_<<sent, arrived>>
==============================================================================
