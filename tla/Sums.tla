-------------------------------- MODULE Sums --------------------------------
(***************************************************************************)
(* Sums over sequences of numbers, and how often a value occurs in a       *)
(* sequence: what the statements about demand and about items count with.  *)
(***************************************************************************)
EXTENDS Naturals, Sequences, FiniteSets

Total(numbers) ==
  LET upTo[i \in 0 .. Len(numbers)] == IF i = 0 THEN 0 ELSE upTo[i - 1] + numbers[i]
  IN upTo[Len(numbers)]

Occurrences(s, x) == Cardinality({i \in DOMAIN s : s[i] = x})
=============================================================================
