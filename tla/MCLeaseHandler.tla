--------------------------- MODULE MCLeaseHandler ---------------------------
(* Instances of LeaseHandler for TLC; the configurations give the constants. *)
EXTENDS LeaseHandler, TLC
CONSTANTS f1, f2, s1, s2, s3

\* Requests of one kind are interchangeable.
Symmetry == Permutations(Fnf) \cup Permutations(Requests \ Fnf)
==============================================================================
