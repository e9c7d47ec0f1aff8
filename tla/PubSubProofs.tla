----------------------------- MODULE PubSubProofs -----------------------------
(***************************************************************************)
(* Proofs about PubSub for any number of subscriptions, publishers and     *)
(* channels, any buffer size and any number of messages.                   *)
(*                                                                         *)
(* The lists are what holds everything together: a subscription leaves its *)
(* list before it is closed and only when no publisher is at work, so what *)
(* a publisher has still ahead of it stays listed, and therefore open,     *)
(* until the publisher is done.                                            *)
(***************************************************************************)
EXTENDS PubSub, SequenceProofs

Msg == Publishers \X Nat

\* Between Subscribe and Unsubscribe.
Listed(s) == pc[s] \in {"loop", "leaving"}

\* What a client has got or is about to get.
Got(s) == delivered[s] \o buf[s]

TypeOK ==
  /\ channels \in [Channels -> Seq(Subs)]
  /\ pc \in [Subs -> {"new", "loop", "leaving", "closing", "done"}]
  /\ topic \in [Subs -> Channels \union {NoTopic}]
  /\ buf \in [Subs -> Seq(Msg)]
  /\ closed \in [Subs -> BOOLEAN]
  /\ conn \in [Subs -> {"up", "stalled", "down"}]
  /\ delivered \in [Subs -> Seq(Msg)]
  /\ pub \in [Publishers -> [sending : BOOLEAN, sent : Nat, rest : Seq(Subs), count : Nat]]

\* A channel is closed only after its handler has left the list.
ClosedLast == \A s \in Subs :
  /\ closed[s] => pc[s] = "done"
  /\ Listed(s) => topic[s] \in Channels

\* A publisher has subscribers ahead of it only while it holds the read
\* lock, each once, and all of them listed.
RestListed == \A p \in Publishers :
  /\ ~pub[p].sending => pub[p].rest = <<>>
  /\ IsInjective(pub[p].rest)
  /\ \A s \in ToSet(pub[p].rest) : Listed(s)

\* Messages of one publisher are ordered in q.
Ordered(q) ==
  \A i, j \in 1..Len(q) : i < j /\ q[i][1] = q[j][1] => q[i][2] < q[j][2]

\* No message in q is from the future, and the message a publisher is
\* sending is not in q when its subscriber is still ahead.
Past(s, q) ==
  \A i \in 1..Len(q) :
    /\ q[i][2] <= pub[q[i][1]].sent
    /\ s \in ToSet(pub[q[i][1]].rest) => q[i][2] < pub[q[i][1]].sent

GotPast == \A s \in Subs : Ordered(Got(s)) /\ Past(s, Got(s))

IInv == TypeOK /\ ClosedLast /\ ListedWhileOpen /\ RestListed /\ GotPast
-----------------------------------------------------------------------------
(* What is left of a received sequence keeps its order *)

\* Losing messages, to a full buffer or to a client that is gone, leaves the
\* others in order.
LEMMA OrderedEmbeds ==
  ASSUME NEW q \in Seq(Msg), NEW r \in Seq(Msg), Embeds(r, q), Ordered(q)
  PROVE  Ordered(r)
<1>1. PICK f \in [1..Len(r) -> 1..Len(q)] :
        /\ \A i, j \in 1..Len(r) : i < j => f[i] < f[j]
        /\ \A i \in 1..Len(r) : r[i] = q[f[i]]
  BY DEF Embeds
<1>2. ASSUME NEW i \in 1..Len(r), NEW j \in 1..Len(r), i < j, r[i][1] = r[j][1]
      PROVE  r[i][2] < r[j][2]
  <2>1. f[i] \in 1..Len(q) /\ f[j] \in 1..Len(q) /\ f[i] < f[j]
    BY <1>1, <1>2
  <2>2. q[f[i]][1] = q[f[j]][1]
    BY <1>1, <1>2
  <2>3. q[f[i]][2] < q[f[j]][2]
    BY <2>1, <2>2 DEF Ordered
  <2> QED BY <1>1, <2>3
<1> QED BY <1>2 DEF Ordered

\* What is left is still from the past, as long as no publisher goes back
\* or gets the subscription ahead of it again.
LEMMA PastEmbeds ==
  ASSUME TypeOK, TypeOK', NEW s \in Subs, NEW q \in Seq(Msg), NEW r \in Seq(Msg),
         Embeds(r, q), Past(s, q),
         \A p \in Publishers : pub'[p].sent = pub[p].sent /\ pub'[p].rest = pub[p].rest
  PROVE  Past(s, r)'
<1>1. PICK f \in [1..Len(r) -> 1..Len(q)] : \A i \in 1..Len(r) : r[i] = q[f[i]]
  BY DEF Embeds
<1>2. ASSUME NEW i \in 1..Len(r)
      PROVE  /\ r[i][2] <= pub'[r[i][1]].sent
             /\ s \in ToSet(pub'[r[i][1]].rest) => r[i][2] < pub'[r[i][1]].sent
  <2>1. f[i] \in 1..Len(q) /\ r[i] = q[f[i]]
    BY <1>1
  <2>2. q[f[i]] \in Msg
    BY <2>1
  <2>3. q[f[i]][1] \in Publishers
    BY <2>2 DEF Msg
  <2> QED BY <2>1, <2>3 DEF Past
<1> QED BY <1>2 DEF Past

\* A step that only takes messages out of what clients get.
LEMMA GotShrinks ==
  ASSUME IInv, TypeOK',
         \A s \in Subs : Embeds(Got(s)', Got(s)),
         \A p \in Publishers : pub'[p].sent = pub[p].sent /\ pub'[p].rest = pub[p].rest
  PROVE  GotPast'
<1>1. ASSUME NEW s \in Subs
      PROVE  Ordered(Got(s))' /\ Past(s, Got(s))'
  <2>1. Got(s) \in Seq(Msg) /\ Got(s)' \in Seq(Msg)
    BY DEF IInv, TypeOK, Got
  <2>2. Ordered(Got(s)) /\ Past(s, Got(s))
    BY DEF IInv, GotPast
  <2>3. Ordered(Got(s)')
    BY <2>1, <2>2, OrderedEmbeds
  <2>4. ASSUME NEW r \in Seq(Msg), r = Got(s)'
        PROVE  Past(s, r)'
    BY <2>1, <2>2, <2>4, PastEmbeds DEF IInv
  <2> QED BY <2>1, <2>3, <2>4 DEF Past, Ordered
<1> QED BY <1>1 DEF GotPast

\* A step that leaves the messages and the publishers alone.
LEMMA GotSame ==
  ASSUME IInv, TypeOK', UNCHANGED <<buf, delivered, pub>>
  PROVE  GotPast'
<1>1. \A s \in Subs : Got(s)' = Got(s) /\ Got(s) \in Seq(Msg)
  BY DEF IInv, TypeOK, Got
<1>2. \A s \in Subs : Embeds(Got(s)', Got(s))
  BY <1>1, EmbedsReflexive
<1> QED BY <1>2, GotShrinks

\* A step that leaves the lists and the handlers alone.
LEMMA ListsSame ==
  ASSUME IInv, UNCHANGED <<channels, pc, topic, closed>>
  PROVE  ClosedLast' /\ ListedWhileOpen'
BY DEF IInv, ClosedLast, ListedWhileOpen, Listed

\* A step that leaves the publishers alone and takes no subscription off its
\* list.
LEMMA RestSame ==
  ASSUME IInv, UNCHANGED pub, \A s \in Subs : Listed(s) => Listed(s)'
  PROVE  RestListed'
<1>1. \A p \in Publishers : ToSet(pub[p].rest) \subseteq Subs
  BY DEF IInv, TypeOK, ToSet
<1> QED BY <1>1 DEF IInv, RestListed
-----------------------------------------------------------------------------
(* One lemma per operation *)

LEMMA InitIInv ==
  ASSUME Init
  PROVE  IInv
<1>1. TypeOK
  BY DEF Init, TypeOK
<1>2. ClosedLast
  BY DEF Init, ClosedLast, Listed
<1>3. ListedWhileOpen
  BY DEF Init, ListedWhileOpen, ToSet, IsInjective
<1>4. RestListed
  BY DEF Init, RestListed, ToSet, IsInjective
<1>5. GotPast
  BY DEF Init, GotPast, Got, Ordered, Past
<1> QED BY <1>1, <1>2, <1>3, <1>4, <1>5 DEF IInv

LEMMA SubscribeStep ==
  ASSUME IInv, NEW s \in Subs, NEW ch \in Channels, Subscribe(s, ch)
  PROVE  IInv'
<1>1. s \notin ToSet(channels[ch]) /\ channels[ch] \in Seq(Subs) /\ IsInjective(channels[ch])
  BY DEF IInv, TypeOK, ListedWhileOpen, Subscribe
<1> DEFINE q == Append(channels[ch], s)
<1>2. q \in Seq(Subs) /\ IsInjective(q) /\ ToSet(q) = ToSet(channels[ch]) \union {s}
  BY <1>1, AppendUniqueProperties
<1>3. channels' = [channels EXCEPT ![ch] = q]
  BY DEF Subscribe
<1> HIDE DEF q
<1>4. TypeOK'
  BY <1>2, <1>3 DEF IInv, TypeOK, Subscribe
<1>5. ClosedLast'
  BY DEF IInv, TypeOK, ClosedLast, Listed, Subscribe
<1>6. ListedWhileOpen'
  <2>1. ASSUME NEW c \in Channels
        PROVE  /\ IsInjective(channels'[c])
               /\ ToSet(channels'[c]) = {t \in Subs : pc'[t] \in {"loop", "leaving"} /\ topic'[t] = c}
    <3>1. \A t \in Subs : /\ pc'[t] = IF t = s THEN "loop" ELSE pc[t]
                          /\ topic'[t] = IF t = s THEN ch ELSE topic[t]
      BY DEF IInv, TypeOK, Subscribe
    <3>2. pc[s] = "new"
      BY DEF Subscribe
    <3>3. /\ IsInjective(channels[c])
          /\ ToSet(channels[c]) = {t \in Subs : pc[t] \in {"loop", "leaving"} /\ topic[t] = c}
      BY DEF IInv, ListedWhileOpen
    <3>4. CASE c = ch
      BY <1>2, <1>3, <3>1, <3>2, <3>3, <3>4 DEF IInv, TypeOK
    <3>5. CASE c # ch
      <4>1. channels'[c] = channels[c]
        BY <1>3, <3>5 DEF IInv, TypeOK
      <4> QED BY <3>1, <3>2, <3>3, <3>5, <4>1
    <3> QED BY <3>4, <3>5
  <2> QED BY <2>1 DEF ListedWhileOpen
<1>7. RestListed'
  BY RestSame DEF IInv, TypeOK, Listed, Subscribe
<1>8. GotPast'
  BY <1>4, GotSame DEF Subscribe
<1> QED BY <1>4, <1>5, <1>6, <1>7, <1>8 DEF IInv

LEMMA ForwardStep ==
  ASSUME IInv, NEW s \in Subs, Forward(s)
  PROVE  IInv'
<1>1. /\ buf[s] \in Seq(Msg) /\ buf[s] # <<>> /\ delivered[s] \in Seq(Msg)
      /\ buf' = [buf EXCEPT ![s] = Tail(buf[s])]
      /\ delivered' = [delivered EXCEPT ![s] = Append(delivered[s], Head(buf[s]))]
  BY DEF IInv, TypeOK, Forward
<1>2. Tail(buf[s]) \in Seq(Msg) /\ Append(delivered[s], Head(buf[s])) \in Seq(Msg)
  BY <1>1
<1>3. TypeOK'
  BY <1>1, <1>2 DEF IInv, TypeOK, Forward
<1>4. \A t \in Subs : Got(t)' = Got(t) /\ Got(t) \in Seq(Msg)
  <2>1. Got(s)' = Got(s)
    BY <1>1, MoveHead DEF Got, IInv, TypeOK
  <2>2. ASSUME NEW t \in Subs, t # s
        PROVE  Got(t)' = Got(t)
    <3>1. buf'[t] = buf[t] /\ delivered'[t] = delivered[t]
      BY <1>1, <2>2 DEF IInv, TypeOK
    <3> QED BY <3>1 DEF Got
  <2>3. \A t \in Subs : Got(t) \in Seq(Msg)
    BY DEF Got, IInv, TypeOK
  <2> QED BY <2>1, <2>2, <2>3
<1>5. \A t \in Subs : Embeds(Got(t)', Got(t))
  BY <1>4, EmbedsReflexive
<1>6. GotPast'
  BY <1>3, <1>5, GotShrinks DEF Forward
<1>7. ClosedLast' /\ ListedWhileOpen'
  BY ListsSame DEF Forward
<1>8. RestListed'
  BY RestSame DEF Forward, Listed
<1> QED BY <1>3, <1>6, <1>7, <1>8 DEF IInv

\* A message taken out of the buffer and not delivered.
LEMMA TakenOut ==
  ASSUME IInv, TypeOK', NEW s \in Subs, buf[s] # <<>>,
         buf' = [buf EXCEPT ![s] = Tail(@)], UNCHANGED <<delivered, pub>>
  PROVE  GotPast'
<1>1. ASSUME NEW t \in Subs
      PROVE  Embeds(Got(t)', Got(t))
  <2>1. buf[t] \in Seq(Msg) /\ delivered[t] \in Seq(Msg) /\ Got(t) \in Seq(Msg)
    BY DEF IInv, TypeOK, Got
  <2>2. CASE t = s
    <3>1. Got(t)' = delivered[t] \o Tail(buf[t])
      BY <2>2 DEF IInv, TypeOK, Got
    <3> QED BY <2>1, <2>2, <3>1, DropHeadEmbeds DEF Got
  <2>3. CASE t # s
    <3>1. Got(t)' = Got(t)
      BY <2>3 DEF IInv, TypeOK, Got
    <3> QED BY <2>1, <3>1, EmbedsReflexive
  <2> QED BY <2>2, <2>3
<1> QED BY <1>1, GotShrinks

LEMMA ForwardLostStep ==
  ASSUME IInv, NEW s \in Subs, ForwardLost(s)
  PROVE  IInv'
<1>1. TypeOK'
  BY DEF IInv, TypeOK, ForwardLost, svars
<1>2. GotPast'
  BY <1>1, TakenOut DEF ForwardLost, svars
<1>3. ClosedLast' /\ ListedWhileOpen'
  BY ListsSame DEF ForwardLost, svars
<1>4. RestListed'
  BY RestSame DEF ForwardLost, svars, Listed
<1> QED BY <1>1, <1>2, <1>3, <1>4 DEF IInv

LEMMA ForwardErrorStep ==
  ASSUME IInv, NEW s \in Subs, ForwardError(s)
  PROVE  IInv'
<1>1. TypeOK'
  BY DEF IInv, TypeOK, ForwardError
<1>2. GotPast'
  BY <1>1, TakenOut DEF ForwardError
<1>3. \A t \in Subs : pc'[t] = IF t = s THEN "leaving" ELSE pc[t]
  BY DEF IInv, TypeOK, ForwardError
<1>4. pc[s] = "loop" /\ UNCHANGED <<channels, topic, closed, pub>>
  BY DEF ForwardError
<1>5. ClosedLast'
  BY <1>3, <1>4 DEF IInv, ClosedLast, Listed
<1>6. ListedWhileOpen'
  BY <1>3, <1>4 DEF IInv, ListedWhileOpen
<1>7. RestListed'
  BY <1>3, <1>4, RestSame DEF Listed
<1> QED BY <1>1, <1>2, <1>5, <1>6, <1>7 DEF IInv

LEMMA UnsubscribeStep ==
  ASSUME IInv, NEW s \in Subs, Unsubscribe(s)
  PROVE  IInv'
<1> DEFINE ch == topic[s]
           q  == RemoveFirst(channels[ch], s)
<1>1. ch \in Channels /\ pc[s] = "leaving"
  BY DEF IInv, ClosedLast, Listed, Unsubscribe
<1>2. channels[ch] \in Seq(Subs) /\ IsInjective(channels[ch])
  BY <1>1 DEF IInv, TypeOK, ListedWhileOpen
<1>3. q \in Seq(Subs) /\ IsInjective(q) /\ ToSet(q) = ToSet(channels[ch]) \ {s}
  BY <1>2, RemoveFirstProperties
<1>4. /\ channels' = [channels EXCEPT ![ch] = q]
      /\ UNCHANGED <<topic, buf, closed, conn, delivered, pub>>
  BY DEF Unsubscribe
<1> HIDE DEF q
<1>5. TypeOK'
  BY <1>3, <1>4, ZenonT(40) DEF IInv, TypeOK, Unsubscribe
<1>6. \A t \in Subs : pc'[t] = IF t = s THEN "closing" ELSE pc[t]
  BY DEF IInv, TypeOK, Unsubscribe
<1>7. ClosedLast'
  BY <1>1, <1>4, <1>6 DEF IInv, ClosedLast, Listed
<1>8. ListedWhileOpen'
  <2>1. ASSUME NEW c \in Channels
        PROVE  /\ IsInjective(channels'[c])
               /\ ToSet(channels'[c]) = {t \in Subs : pc'[t] \in {"loop", "leaving"} /\ topic'[t] = c}
    <3>1. /\ IsInjective(channels[c])
          /\ ToSet(channels[c]) = {t \in Subs : pc[t] \in {"loop", "leaving"} /\ topic[t] = c}
      BY DEF IInv, ListedWhileOpen
    <3>2. CASE c = ch
      <4>1. channels'[c] = q
        BY <1>4, <3>2 DEF IInv, TypeOK
      <4> QED BY <1>3, <1>4, <1>6, <3>1, <3>2, <4>1
    <3>3. CASE c # ch
      <4>1. channels'[c] = channels[c]
        BY <1>4, <3>3 DEF IInv, TypeOK
      <4> QED BY <1>4, <1>6, <3>1, <3>3, <4>1
    <3> QED BY <3>2, <3>3
  <2> QED BY <2>1 DEF ListedWhileOpen
\* No publisher is at work, so nobody has the subscription ahead of it.
<1>9. RestListed'
  <2>1. \A p \in Publishers : ~pub[p].sending /\ pub[p].rest = <<>>
    BY DEF IInv, RestListed, Unsubscribe, NoReaders
  <2> QED BY <1>4, <2>1 DEF RestListed, ToSet, IsInjective
<1>10. GotPast'
  BY <1>4, <1>5, GotSame
<1> QED BY <1>5, <1>7, <1>8, <1>9, <1>10 DEF IInv

LEMMA CloseStep ==
  ASSUME IInv, NEW s \in Subs, Close(s)
  PROVE  IInv'
<1>1. /\ pc[s] = "closing"
      /\ closed' = [closed EXCEPT ![s] = TRUE]
      /\ buf' = [buf EXCEPT ![s] = <<>>]
      /\ UNCHANGED <<channels, topic, conn, delivered, pub>>
  BY DEF Close
<1>2. TypeOK'
  BY DEF IInv, TypeOK, Close
<1>3. \A t \in Subs : pc'[t] = IF t = s THEN "done" ELSE pc[t]
  BY DEF IInv, TypeOK, Close
<1>4. ClosedLast'
  BY <1>1, <1>3 DEF IInv, TypeOK, ClosedLast, Listed
<1>5. ListedWhileOpen'
  BY <1>1, <1>3 DEF IInv, ListedWhileOpen
<1>6. RestListed'
  BY <1>1, <1>3, RestSame DEF Listed
<1>7. ASSUME NEW t \in Subs
      PROVE  Embeds(Got(t)', Got(t))
  <2>1. buf[t] \in Seq(Msg) /\ delivered[t] \in Seq(Msg) /\ Got(t) \in Seq(Msg)
    BY DEF IInv, TypeOK, Got
  <2>2. CASE t = s
    <3>1. Got(t)' = delivered[t] \o <<>>
      BY <1>1, <2>2 DEF IInv, TypeOK, Got
    <3> QED BY <2>1, <3>1, DropSecondEmbeds DEF Got
  <2>3. CASE t # s
    <3>1. buf'[t] = buf[t]
      BY <1>1, <2>3 DEF IInv, TypeOK
    <3>2. Got(t)' = Got(t)
      BY <1>1, <3>1 DEF Got
    <3> QED BY <2>1, <3>2, EmbedsReflexive
  <2> QED BY <2>2, <2>3
<1>8. GotPast'
  BY <1>1, <1>2, <1>7, GotShrinks
<1> QED BY <1>2, <1>4, <1>5, <1>6, <1>8 DEF IInv

LEMMA PublishBeginStep ==
  ASSUME IInv, NEW p \in Publishers, NEW ch \in Channels, PublishBegin(p, ch)
  PROVE  IInv'
<1> DEFINE rec == [sending |-> channels[ch] # <<>>, sent |-> pub[p].sent + 1,
                   rest |-> channels[ch], count |-> 0]
<1>1. pub' = [pub EXCEPT ![p] = rec] /\ UNCHANGED <<channels, buf, closed, pc, topic, conn, delivered>>
  BY DEF PublishBegin, svars
<1>2. pub[p].sent \in Nat /\ channels[ch] \in Seq(Subs)
  BY DEF IInv, TypeOK
<1>3. rec \in [sending : BOOLEAN, sent : Nat, rest : Seq(Subs), count : Nat]
  BY <1>2
<1>4. /\ rec.sent = pub[p].sent + 1
      /\ rec.rest = channels[ch]
      /\ rec.sending <=> channels[ch] # <<>>
  OBVIOUS
<1> HIDE DEF rec
<1>5. TypeOK'
  BY <1>1, <1>3 DEF IInv, TypeOK
<1>6. \A o \in Publishers : pub'[o] = IF o = p THEN rec ELSE pub[o]
  BY <1>1 DEF IInv, TypeOK
<1>7. ClosedLast' /\ ListedWhileOpen'
  BY <1>1, ListsSame
<1>8. RestListed'
  <2>1. IsInjective(channels[ch]) /\ \A s \in ToSet(channels[ch]) : Listed(s)
    BY DEF IInv, ListedWhileOpen, Listed
  <2> QED BY <1>1, <1>4, <1>6, <2>1 DEF IInv, RestListed, Listed
<1>9. ASSUME NEW s \in Subs
      PROVE  Ordered(Got(s))' /\ Past(s, Got(s))'
  <2>1. Got(s)' = Got(s) /\ Got(s) \in Seq(Msg)
    BY <1>1 DEF Got, IInv, TypeOK
  <2>2. Ordered(Got(s)) /\ Past(s, Got(s))
    BY DEF IInv, GotPast
  <2>3. ASSUME NEW i \in 1..Len(Got(s))
        PROVE  /\ Got(s)[i][2] <= pub'[Got(s)[i][1]].sent
               /\ s \in ToSet(pub'[Got(s)[i][1]].rest) => Got(s)[i][2] < pub'[Got(s)[i][1]].sent
    <3> DEFINE m == Got(s)[i]
    <3>1. m \in Msg
      BY <2>1
    <3>2. m[1] \in Publishers /\ m[2] \in Nat
      BY <3>1 DEF Msg
    <3>3. m[2] <= pub[m[1]].sent /\ (s \in ToSet(pub[m[1]].rest) => m[2] < pub[m[1]].sent)
      BY <2>2 DEF Past
    <3> HIDE DEF m
    <3>4. /\ m[2] <= pub'[m[1]].sent
          /\ s \in ToSet(pub'[m[1]].rest) => m[2] < pub'[m[1]].sent
      BY <1>2, <1>4, <1>6, <3>2, <3>3, SMTT(20)
    <3> QED BY <3>4 DEF m
  <2> QED BY <2>1, <2>2, <2>3 DEF Ordered, Past
<1>10. GotPast'
  BY <1>9 DEF GotPast
<1> QED BY <1>5, <1>7, <1>8, <1>10 DEF IInv

\* A message enters the buffer of a subscription that is then no longer
\* ahead of its publisher.
LEMMA PublishSendStep ==
  ASSUME IInv, NEW p \in Publishers, PublishSend(p)
  PROVE  IInv'
<1> DEFINE s == Head(pub[p].rest)
           m == <<p, pub[p].sent>>
           fits == Len(buf[s]) < BufferSize
           n == IF fits THEN pub[p].count + 1 ELSE pub[p].count
           rec == [pub[p] EXCEPT !.rest = Tail(@), !.count = n]
<1>1. /\ pub[p].sending
      /\ pub[p].rest # <<>>
      /\ buf' = IF fits THEN [buf EXCEPT ![s] = Append(buf[s], m)] ELSE buf
      /\ pub' = [pub EXCEPT ![p] = rec]
      /\ UNCHANGED <<channels, closed, pc, topic, conn, delivered>>
  BY DEF PublishSend, svars
<1>2. /\ pub[p] \in [sending : BOOLEAN, sent : Nat, rest : Seq(Subs), count : Nat]
      /\ pub[p].rest \in Seq(Subs) /\ pub[p].sent \in Nat /\ IsInjective(pub[p].rest)
  BY DEF IInv, TypeOK, RestListed
<1>3. /\ s \in ToSet(pub[p].rest) /\ s \in Subs
      /\ Tail(pub[p].rest) \in Seq(Subs)
      /\ IsInjective(Tail(pub[p].rest))
      /\ ToSet(Tail(pub[p].rest)) = ToSet(pub[p].rest) \ {s}
  BY <1>1, <1>2, TailProperties
<1>4. /\ rec \in [sending : BOOLEAN, sent : Nat, rest : Seq(Subs), count : Nat]
      /\ rec.sent = pub[p].sent
      /\ rec.rest = Tail(pub[p].rest)
      /\ rec.sending
  <2>1. n \in Nat
    BY <1>2
  <2> HIDE DEF n
  <2> QED BY <1>1, <1>2, <1>3, <2>1
<1>5. m \in Msg /\ m[1] = p /\ m[2] = pub[p].sent
  BY <1>2 DEF Msg
<1> HIDE DEF s, m, n, rec, fits
<1>6. \A o \in Publishers : pub'[o] = IF o = p THEN rec ELSE pub[o]
  BY <1>1 DEF IInv, TypeOK
<1>7. buf' \in [Subs -> Seq(Msg)]
  BY <1>1, <1>3, <1>5 DEF IInv, TypeOK
<1>8. TypeOK'
  BY <1>1, <1>4, <1>7 DEF IInv, TypeOK
<1>9. ClosedLast' /\ ListedWhileOpen'
  BY <1>1, ListsSame
<1>10. RestListed'
  <2>1. \A t \in Subs : Listed(t)' <=> Listed(t)
    BY <1>1 DEF Listed
  <2>2. ASSUME NEW o \in Publishers
        PROVE  /\ ~pub'[o].sending => pub'[o].rest = <<>>
               /\ IsInjective(pub'[o].rest)
               /\ \A t \in ToSet(pub'[o].rest) : Listed(t)'
    <3>1. /\ ~pub[o].sending => pub[o].rest = <<>>
          /\ IsInjective(pub[o].rest)
          /\ \A t \in ToSet(pub[o].rest) : Listed(t) /\ t \in Subs
      BY DEF IInv, TypeOK, RestListed, ToSet
    <3>2. CASE o = p
      <4>1. pub'[o] = rec
        BY <1>6, <3>2
      <4> QED BY <1>3, <1>4, <2>1, <3>1, <3>2, <4>1
    <3>3. CASE o # p
      <4>1. pub'[o] = pub[o]
        BY <1>6, <3>3
      <4> QED BY <2>1, <3>1, <4>1
    <3> QED BY <3>2, <3>3
  <2> QED BY <2>2 DEF RestListed
<1>11. ASSUME NEW t \in Subs
       PROVE  Ordered(Got(t))' /\ Past(t, Got(t))'
  <2>1. Got(t) \in Seq(Msg) /\ Ordered(Got(t)) /\ Past(t, Got(t))
    BY DEF IInv, TypeOK, Got, GotPast
  <2>2. ASSUME NEW i \in 1..Len(Got(t))
        PROVE  /\ Got(t)[i][2] <= pub'[Got(t)[i][1]].sent
               /\ t \in ToSet(pub'[Got(t)[i][1]].rest) => Got(t)[i][2] < pub'[Got(t)[i][1]].sent
    <3> DEFINE g == Got(t)[i]
    <3>1. g \in Msg
      BY <2>1
    <3>2. g[1] \in Publishers
      BY <3>1 DEF Msg
    <3>3. g[2] <= pub[g[1]].sent /\ (t \in ToSet(pub[g[1]].rest) => g[2] < pub[g[1]].sent)
      BY <2>1 DEF Past
    <3> HIDE DEF g
    <3>4. /\ g[2] <= pub'[g[1]].sent
          /\ t \in ToSet(pub'[g[1]].rest) => g[2] < pub'[g[1]].sent
      BY <1>3, <1>4, <1>6, <3>2, <3>3
    <3> QED BY <3>4 DEF g
  <2>3. CASE t = s /\ fits
    <3>1. Got(t)' = Append(Got(t), m)
      <4>1. buf'[t] = Append(buf[t], m) /\ delivered'[t] = delivered[t]
        BY <1>1, <1>3, <2>3 DEF IInv, TypeOK
      <4>2. buf[t] \in Seq(Msg) /\ delivered[t] \in Seq(Msg)
        BY DEF IInv, TypeOK
      <4>3. delivered[t] \o Append(buf[t], m) = Append(delivered[t] \o buf[t], m)
        <5>1. ASSUME NEW d \in Seq(Msg), NEW b \in Seq(Msg), NEW x \in Msg
              PROVE  d \o Append(b, x) = Append(d \o b, x)
          BY AppendToSecond
        <5>2. m \in Msg
          BY <1>5
        <5> QED BY <4>2, <5>1, <5>2, Zenon
      <4> QED BY <4>1, <4>3 DEF Got
    <3> DEFINE q == Got(t)
    <3>2. ASSUME NEW i \in 1..Len(q), q[i][1] = p
          PROVE  q[i][2] < m[2]
      BY <1>3, <1>5, <2>1, <2>3, <3>2 DEF Past
    <3>3. q \in Seq(Msg) /\ Ordered(q)
      BY <2>1
    <3>4. ASSUME NEW i \in 1..Len(q)
          PROVE  /\ q[i][2] <= pub'[q[i][1]].sent
                 /\ t \in ToSet(pub'[q[i][1]].rest) => q[i][2] < pub'[q[i][1]].sent
      BY <2>2
    <3> HIDE DEF q
    <3>5. /\ Len(Append(q, m)) = Len(q) + 1 /\ Len(q) \in Nat
          /\ \A i \in 1..Len(q) : Append(q, m)[i] = q[i]
          /\ Append(q, m)[Len(q) + 1] = m
      BY <1>5, <3>3
    <3>6. Ordered(Append(q, m))
      BY <1>5, <3>2, <3>3, <3>5 DEF Ordered
    <3>7. m[2] <= pub'[m[1]].sent /\ t \notin ToSet(pub'[m[1]].rest)
      <4>1. pub'[m[1]] = rec
        BY <1>5, <1>6
      <4>2. rec.sent \in Nat /\ m[2] = rec.sent
        BY <1>2, <1>4, <1>5
      <4>3. t \notin ToSet(rec.rest)
        BY <1>3, <1>4, <2>3
      <4> QED BY <4>1, <4>2, <4>3
    <3>8. \A i \in 1..Len(Append(q, m)) :
            /\ Append(q, m)[i][2] <= pub'[Append(q, m)[i][1]].sent
            /\ t \in ToSet(pub'[Append(q, m)[i][1]].rest)
               => Append(q, m)[i][2] < pub'[Append(q, m)[i][1]].sent
      <4>1. ASSUME NEW i \in 1..Len(Append(q, m))
            PROVE  /\ Append(q, m)[i][2] <= pub'[Append(q, m)[i][1]].sent
                   /\ t \in ToSet(pub'[Append(q, m)[i][1]].rest)
                      => Append(q, m)[i][2] < pub'[Append(q, m)[i][1]].sent
        <5>1. CASE i \in 1..Len(q)
          <6>1. Append(q, m)[i] = q[i]
            BY <3>5, <5>1
          <6> QED BY <3>4, <5>1, <6>1
        <5>2. CASE i = Len(q) + 1
          <6>1. Append(q, m)[i] = m
            BY <3>5, <5>2
          <6> QED BY <3>7, <6>1
        <5> QED BY <3>5, <5>1, <5>2
      <4> QED BY <4>1
    <3>9. Got(t)' = Append(q, m)
      BY <3>1 DEF q
    <3> QED BY <3>6, <3>8, <3>9 DEF Ordered, Past
  <2>4. CASE ~(t = s /\ fits)
    <3>1. buf'[t] = buf[t]
      BY <1>1, <2>4 DEF IInv, TypeOK
    <3>2. Got(t)' = Got(t)
      BY <1>1, <3>1 DEF Got
    <3> QED BY <2>1, <2>2, <3>2 DEF Ordered, Past
  <2> QED BY <2>3, <2>4
<1>12. GotPast'
  BY <1>11 DEF GotPast
<1> QED BY <1>8, <1>9, <1>10, <1>12 DEF IInv

LEMMA PublishReturnStep ==
  ASSUME IInv, NEW p \in Publishers, PublishReturn(p)
  PROVE  IInv'
<1> DEFINE rec == [pub[p] EXCEPT !.sending = FALSE, !.count = 0]
<1>1. /\ pub[p].rest = <<>>
      /\ pub' = [pub EXCEPT ![p] = rec]
      /\ UNCHANGED <<channels, buf, closed, pc, topic, conn, delivered>>
  BY DEF PublishReturn, svars
<1>2. /\ rec \in [sending : BOOLEAN, sent : Nat, rest : Seq(Subs), count : Nat]
      /\ rec.sent = pub[p].sent
      /\ rec.rest = pub[p].rest
  BY DEF IInv, TypeOK
<1> HIDE DEF rec
<1>3. \A o \in Publishers : pub'[o] = IF o = p THEN rec ELSE pub[o]
  BY <1>1 DEF IInv, TypeOK
<1>4. TypeOK'
  BY <1>1, <1>2 DEF IInv, TypeOK
<1>5. ClosedLast' /\ ListedWhileOpen'
  BY <1>1, ListsSame
<1>6. RestListed'
  BY <1>1, <1>2, <1>3 DEF IInv, RestListed, Listed
<1>7. \A s \in Subs : Got(s)' = Got(s) /\ Got(s) \in Seq(Msg)
  BY <1>1 DEF IInv, TypeOK, Got
<1>8. \A s \in Subs : Embeds(Got(s)', Got(s))
  BY <1>7, EmbedsReflexive
<1>9. GotPast'
  BY <1>2, <1>3, <1>4, <1>8, GotShrinks
<1> QED BY <1>4, <1>5, <1>6, <1>9 DEF IInv

LEMMA ClientChangeStep ==
  ASSUME IInv, NEW s \in Subs, ClientChange(s)
  PROVE  IInv'
<1>1. UNCHANGED <<channels, pc, topic, buf, closed, delivered, pub>>
  BY DEF ClientChange
<1>2. conn' \in [Subs -> {"up", "stalled", "down"}]
  BY DEF ClientChange, IInv, TypeOK
<1>3. TypeOK'
  BY <1>1, <1>2 DEF IInv, TypeOK
<1>4. ClosedLast' /\ ListedWhileOpen'
  BY <1>1, ListsSame
<1>5. RestListed'
  BY <1>1, RestSame DEF Listed
<1>6. GotPast'
  BY <1>1, <1>3, GotSame
<1> QED BY <1>3, <1>4, <1>5, <1>6 DEF IInv

\* The invariant is inductive.
LEMMA Inductive ==
  ASSUME IInv, [Next]_vars
  PROVE  IInv'
<1>1. ASSUME NEW s \in Subs, Handler(s) \/ ClientChange(s) \/ \E ch \in Channels : Subscribe(s, ch)
      PROVE  IInv'
  BY <1>1, ForwardStep, ForwardLostStep, ForwardErrorStep, UnsubscribeStep, CloseStep,
     ClientChangeStep, SubscribeStep DEF Handler
<1>2. ASSUME NEW p \in Publishers,
             PublishSend(p) \/ PublishReturn(p) \/ \E ch \in Channels : PublishBegin(p, ch)
      PROVE  IInv'
  BY <1>2, PublishSendStep, PublishReturnStep, PublishBeginStep
<1>3. CASE UNCHANGED vars
  <2>1. UNCHANGED <<channels, pc, topic, buf, closed, conn, delivered, pub>>
    BY <1>3 DEF vars
  <2>2. TypeOK'
    BY <2>1 DEF IInv, TypeOK
  <2>3. ClosedLast' /\ ListedWhileOpen'
    BY <2>1, ListsSame
  <2>4. RestListed'
    BY <2>1, RestSame DEF Listed
  <2>5. GotPast'
    BY <2>1, <2>2, GotSame
  <2> QED BY <2>2, <2>3, <2>4, <2>5 DEF IInv
<1> QED BY <1>1, <1>2, <1>3 DEF Next
-----------------------------------------------------------------------------
\* In every reachable state the lists, the handlers and the publishers fit
\* together.
THEOREM Invariance == Spec => []IInv
<1>1. Init => IInv
  BY InitIInv
<1>2. IInv /\ [Next]_vars => IInv'
  BY Inductive
<1> QED BY <1>1, <1>2, PTL DEF Spec

\* Publish never sends to a channel that Unsubscribe has closed, which would
\* panic and take the server down, however many publishers and handlers
\* interleave.
THEOREM PublishIsSafe == Spec => []NoSendOnClosed
<1>1. ASSUME IInv PROVE NoSendOnClosed
  <2>1. ASSUME NEW p \in Publishers, NEW s \in ToSet(pub[p].rest)
        PROVE  ~closed[s]
    <3>1. Listed(s) /\ s \in Subs
      BY <1>1 DEF IInv, TypeOK, RestListed, ToSet
    <3> QED BY <1>1, <3>1 DEF IInv, ClosedLast, Listed
  <2> QED BY <2>1 DEF NoSendOnClosed
<1> QED BY <1>1, Invariance, PTL

\* A subscription is on the list of its channel, once, exactly from
\* Subscribe to Unsubscribe.
THEOREM SubscriptionIsListed == Spec => []ListedWhileOpen
<1>1. IInv => ListedWhileOpen
  BY DEF IInv
<1> QED BY <1>1, Invariance, PTL

\* A client gets the messages of one publisher in the order of their
\* PUBLISHes and none twice, whatever full buffers and broken connections
\* take out.
THEOREM OrderIsKept == Spec => []InPublishOrder
<1>1. IInv => InPublishOrder
  BY DEF IInv, GotPast, Ordered, Got, InPublishOrder
<1> QED BY <1>1, Invariance, PTL
===============================================================================
