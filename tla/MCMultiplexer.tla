---------------------------- MODULE MCMultiplexer ----------------------------
(* Instances of Multiplexer for TLC; the configurations give the constants. *)
EXTENDS Multiplexer, TLC
CONSTANTS f1, f2, s1, s2, s3, s4

\* Requests of one kind are interchangeable.
Symmetry == Permutations(Fnf) \cup Permutations(Requests \ Fnf)
==============================================================================
