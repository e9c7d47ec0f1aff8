---- MODULE MCFifoRing ----
(* An instance of FifoRing for TLC, with the empty string among the keys.
   The other keys are interchangeable. *)
EXTENDS FifoRing, TLC

Symmetry == Permutations(Keys \ {EmptyKey})
====
