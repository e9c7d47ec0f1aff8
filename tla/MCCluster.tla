------------------------------ MODULE MCCluster ------------------------------
(* Instances of Cluster: two masters and a replica of the first, without    *)
(* tables, with equal ones, with a table the slot of "a" (15495) is not in, *)
(* with one that is refused, in event loops, and with memory limits.        *)
EXTENDS Cluster, Slot, TLC

MCSlotOf == "a" :> keySlot(<<97>>, Slots)

\* The check value of this CRC, for "123456789".
ASSUME CRCCheckValue == crc16([i \in 1..9 |-> 48 + i]) = 12739

Part(start, end, addr) == [start |-> start, end |-> end, addr |-> addr, ok |-> TRUE]
Split(n, m) == <<Part(0, 8191, n), Part(8192, Slots - 1, m)>>
Tables(a, b, r) == "A" :> a @@ "B" :> b @@ "R" :> r
None == Tables(<<>>, <<>>, <<>>)
Gap == <<Part(0, 0, "B"), Part(1, 1, "A")>>

MCSetups == {
  [parts |-> None, loops |-> {}, limited |-> {}, routes |-> {<<"A", "B">>}],
  [parts |-> None, loops |-> {"B"}, limited |-> {}, routes |-> {<<"A", "B">>, <<"B", "A">>}],
  [parts |-> None, loops |-> {"A", "B"}, limited |-> {}, routes |-> Nodes \X Nodes],
  [parts |-> None, loops |-> {"B"}, limited |-> {"A", "R"}, routes |-> {<<"B", "R">>}],
  [parts |-> Tables(Split("B", "A"), Split("B", "A"), Split("B", "A")),
   loops |-> {}, limited |-> {}, routes |-> {<<"A", "B">>}],
  [parts |-> Tables(Split("A", "B"), Split("A", "B"), <<>>),
   loops |-> {}, limited |-> {}, routes |-> {<<"B", "B">>, <<"B", "R">>}],
  [parts |-> Tables(Gap, Gap, <<>>),
   loops |-> {"A"}, limited |-> {}, routes |-> {<<"B", "A">>}],
  [parts |-> Tables(<<>>, <<Part(100, 0, "B")>>, <<>>),
   loops |-> {}, limited |-> {}, routes |-> {<<"A", "B">>}]}
=============================================================================
