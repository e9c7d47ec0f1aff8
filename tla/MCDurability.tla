---- MODULE MCDurability ----
(* Instances of Durability for TLC. *)
EXTENDS Durability
Symmetry == Permutations(Keys) \union Permutations(Clients)
====
