---- MODULE MCStore ----
(* Small instances of Store: keys of one byte, a short value of which two  *)
(* fit under the limit, and a long value that alone exceeds it.            *)
EXTENDS Store

CONSTANTS short, long

MCKeyLen == [k \in Keys |-> IF k = EmptyKey THEN 0 ELSE 1]
MCValueLen == [v \in Values |-> IF v = long THEN 150 ELSE 1]
Symmetry == Permutations(Keys \ {EmptyKey}) \union Permutations(Clients)
====
