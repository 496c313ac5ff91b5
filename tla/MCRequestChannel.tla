--------------------------- MODULE MCRequestChannel ---------------------------
(* Instances of RequestChannel for TLC; the configurations give the bounds. *)
EXTENDS RequestChannel, TLC

CONSTANTS RequesterDemand, ResponderDemand
MCMaxDemand == Requester :> RequesterDemand @@ Responder :> ResponderDemand
==============================================================================
