---- MODULE MCStoreReads ----
(* Small instances of StoreReads; the values have the same length. *)
EXTENDS StoreReads

MCKeyLen == [k \in Keys |-> 1]
MCValueLen == [v \in Values |-> 1]
Symmetry == Permutations(Keys) \union Permutations(Clients) \union Permutations(Values)
====
