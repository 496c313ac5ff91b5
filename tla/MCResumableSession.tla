-------------------------- MODULE MCResumableSession --------------------------
(* Instances of ResumableSession for TLC. *)
EXTENDS ResumableSession, TLC

\* Frames of sizes 1, 1, 2 and 2, 1, 1: a position may be off by whole frames.
Positions == [client |-> (0 :> 0 @@ 1 :> 1 @@ 2 :> 2 @@ 3 :> 4),
              server |-> (0 :> 0 @@ 1 :> 2 @@ 2 :> 3 @@ 3 :> 4)]

CONSTANTS ClientFrames, ServerFrames
MCMaxFrames == [client |-> ClientFrames, server |-> ServerFrames]
MCFramePos == [p \in Peers |-> [n \in 0 .. MCMaxFrames[p] |-> Positions[p][n]]]
==============================================================================
