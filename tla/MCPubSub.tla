---- MODULE MCPubSub ----
(* An instance of PubSub for TLC: one publisher sends twice, for the order  *)
(* of its messages, another once, to interleave with it.                    *)
EXTENDS PubSub, TLC
CONSTANTS p1, p2
MCMaxMsgs == p1 :> 2 @@ p2 :> 1
====
