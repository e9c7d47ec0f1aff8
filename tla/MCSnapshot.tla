------------------------------ MODULE MCSnapshot ------------------------------
(* Instances of Snapshot for TLC: savers that overlap, failures that one    *)
(* saver meets, and both together with a single version of the store.       *)
EXTENDS Snapshot

Both == {"SAVE", "BGSAVE"}

MCSetups == {
  [commands |-> Both, errors |-> FALSE, crashes |-> FALSE, versions |-> 3],
  [commands |-> {"SAVE"}, errors |-> TRUE, crashes |-> TRUE, versions |-> 3],
  [commands |-> {"BGSAVE"}, errors |-> TRUE, crashes |-> TRUE, versions |-> 3],
  [commands |-> Both, errors |-> TRUE, crashes |-> TRUE, versions |-> 1]}
=============================================================================
