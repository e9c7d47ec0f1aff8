-------------------------------- MODULE PubSub --------------------------------
(***************************************************************************)
(* Publish/subscribe: pkg/pubsub/pubsub.go and the subscription loop of    *)
(* handleSubscribe in pkg/server/server.go.                                *)
(*                                                                         *)
(* A subscription is one Go channel with the goroutine that forwards it to *)
(* a client.  Publishers hold ps.mu for reading while they go through the  *)
(* subscribers one by one, so several of them interleave; Subscribe and    *)
(* the removal of Unsubscribe need ps.mu for themselves; the close of the  *)
(* channel comes after the lock is released.                               *)
(***************************************************************************)
EXTENDS Naturals, SequencesExt

CONSTANTS
  Subs,        \* subscriptions, one SUBSCRIBE each
  Publishers,  \* goroutines that execute PUBLISH
  Channels,    \* channel names
  BufferSize,  \* capacity of a subscription's Go channel (100 in the code)
  MaxMsgs      \* bound on the PUBLISHes of each publisher

ASSUME PubSubAssumption == BufferSize \in Nat \ {0} /\ MaxMsgs \in [Publishers -> Nat]

VARIABLES
  channels,   \* ps.channels
  pc,         \* where handleSubscribe is
  topic,      \* the channel a subscription is for
  buf,        \* messages in the Go channel
  closed,     \* whether the Go channel has been closed
  conn,       \* the client: "up", "stalled" (does not read) or "down"
  delivered,  \* messages written to the client
  pub         \* the Publish each publisher is in

svars == <<pc, topic, conn, delivered>>
vars == <<channels, pc, topic, buf, closed, conn, delivered, pub>>

NoTopic == "none"
-----------------------------------------------------------------------------
Init ==
  /\ channels = [ch \in Channels |-> <<>>]
  /\ pc = [s \in Subs |-> "new"]
  /\ topic = [s \in Subs |-> NoTopic]
  /\ buf = [s \in Subs |-> <<>>]
  /\ closed = [s \in Subs |-> FALSE]
  /\ conn = [s \in Subs |-> "up"]
  /\ delivered = [s \in Subs |-> <<>>]
  /\ pub = [p \in Publishers |-> [sending |-> FALSE, sent |-> 0, rest |-> <<>>, count |-> 0]]

\* ps.mu.Lock() needs every reader to have left.
NoReaders == \A p \in Publishers : ~pub[p].sending

\* SUBSCRIBE: handleSubscribe calls Subscribe and enters its loop.
Subscribe(s, ch) ==
  /\ pc[s] = "new"
  /\ NoReaders
  /\ channels' = [channels EXCEPT ![ch] = Append(@, s)]
  /\ topic' = [topic EXCEPT ![s] = ch]
  /\ pc' = [pc EXCEPT ![s] = "loop"]
  /\ UNCHANGED <<buf, closed, conn, delivered, pub>>

\* Mutant: the message is delivered but stays in the channel.
ForwardPeeks(s) ==
  /\ pc[s] = "loop"
  /\ conn[s] = "up"
  /\ buf[s] # <<>>
  /\ delivered' = [delivered EXCEPT ![s] = Append(@, Head(buf[s]))]
  /\ UNCHANGED <<channels, pc, topic, buf, closed, conn, pub>>

\* Mutant: the loop takes the message and does not write it.
ForwardDrops(s) ==
  /\ pc[s] = "loop"
  /\ conn[s] = "up"
  /\ buf[s] # <<>>
  /\ buf' = [buf EXCEPT ![s] = Tail(@)]
  /\ UNCHANGED <<channels, closed, svars, pub>>

\* The loop takes a message and writes it to a client that reads.
Forward(s) ==
  /\ pc[s] = "loop"
  /\ conn[s] = "up"
  /\ buf[s] # <<>>
  /\ buf' = [buf EXCEPT ![s] = Tail(@)]
  /\ delivered' = [delivered EXCEPT ![s] = Append(@, Head(buf[s]))]
  /\ UNCHANGED <<channels, pc, topic, closed, conn, pub>>

\* The client is gone: a write still succeeds until the connection is reset ...
ForwardLost(s) ==
  /\ pc[s] = "loop"
  /\ conn[s] = "down"
  /\ buf[s] # <<>>
  /\ buf' = [buf EXCEPT ![s] = Tail(@)]
  /\ UNCHANGED <<channels, closed, svars, pub>>

\* ... and then fails, which ends the loop.
ForwardError(s) ==
  /\ pc[s] = "loop"
  /\ conn[s] = "down"
  /\ buf[s] # <<>>
  /\ buf' = [buf EXCEPT ![s] = Tail(@)]
  /\ pc' = [pc EXCEPT ![s] = "leaving"]
  /\ UNCHANGED <<channels, topic, closed, conn, delivered, pub>>

\* Mutant: the list is changed while publishers walk over it.
UnsubscribeUnlocked(s) ==
  /\ pc[s] = "leaving"
  /\ channels' = [channels EXCEPT ![topic[s]] = RemoveFirst(@, s)]
  /\ pc' = [pc EXCEPT ![s] = "closing"]
  /\ UNCHANGED <<topic, buf, closed, conn, delivered, pub>>

\* Mutant: the first subscriber is removed, whoever it is.
UnsubscribeFirst(s) ==
  /\ pc[s] = "leaving"
  /\ NoReaders
  /\ channels' = [channels EXCEPT ![topic[s]] = IF @ = <<>> THEN @ ELSE Tail(@)]
  /\ pc' = [pc EXCEPT ![s] = "closing"]
  /\ UNCHANGED <<topic, buf, closed, conn, delivered, pub>>

\* The deferred Unsubscribe, as far as it holds the lock.
Unsubscribe(s) ==
  /\ pc[s] = "leaving"
  /\ NoReaders
  /\ channels' = [channels EXCEPT ![topic[s]] = RemoveFirst(@, s)]
  /\ pc' = [pc EXCEPT ![s] = "closing"]
  /\ UNCHANGED <<topic, buf, closed, conn, delivered, pub>>

\* The channel is closed after the lock is released; the handler returns and
\* nobody is left to receive what the channel still holds.
Close(s) ==
  /\ pc[s] = "closing"
  /\ closed' = [closed EXCEPT ![s] = TRUE]
  /\ buf' = [buf EXCEPT ![s] = <<>>]
  /\ pc' = [pc EXCEPT ![s] = "done"]
  /\ UNCHANGED <<channels, topic, conn, delivered, pub>>

\* Publish takes the read lock and the list of subscribers; with no
\* subscribers it returns 0.
PublishBegin(p, ch) ==
  /\ ~pub[p].sending
  /\ pub[p].sent < MaxMsgs[p]
  /\ pub' = [pub EXCEPT ![p] = [sending |-> channels[ch] # <<>>, sent |-> @.sent + 1,
                                rest |-> channels[ch], count |-> 0]]
  /\ UNCHANGED <<channels, buf, closed, svars>>

\* Mutant: the send blocks while the channel is full.
PublishSendBlocks(p) ==
  LET s == Head(pub[p].rest)
  IN  /\ pub[p].sending
      /\ pub[p].rest # <<>>
      /\ Len(buf[s]) < BufferSize
      /\ buf' = [buf EXCEPT ![s] = Append(@, <<p, pub[p].sent>>)]
      /\ pub' = [pub EXCEPT ![p].rest = Tail(@), ![p].count = @ + 1]
      /\ UNCHANGED <<channels, closed, svars>>

\* The non-blocking send to the next subscriber: a full channel drops the message.
PublishSend(p) ==
  LET s == Head(pub[p].rest)
      fits == Len(buf[s]) < BufferSize
  IN  /\ pub[p].sending
      /\ pub[p].rest # <<>>
      /\ buf' = IF fits THEN [buf EXCEPT ![s] = Append(@, <<p, pub[p].sent>>)] ELSE buf
      /\ pub' = [pub EXCEPT ![p].rest = Tail(@), ![p].count = IF fits THEN @ + 1 ELSE @]
      /\ UNCHANGED <<channels, closed, svars>>

\* Publish returns its count and releases the read lock.
PublishReturn(p) ==
  /\ pub[p].sending
  /\ pub[p].rest = <<>>
  /\ pub' = [pub EXCEPT ![p].sending = FALSE, ![p].count = 0]
  /\ UNCHANGED <<channels, buf, closed, svars>>

\* The client stops reading, reads again, or goes away.
ClientChange(s) ==
  /\ \/ conn[s] = "up" /\ conn' = [conn EXCEPT ![s] = "stalled"]
     \/ conn[s] = "stalled" /\ conn' = [conn EXCEPT ![s] = "up"]
     \/ conn[s] # "down" /\ conn' = [conn EXCEPT ![s] = "down"]
  /\ UNCHANGED <<channels, pc, topic, buf, closed, delivered, pub>>

Handler(s) ==
  Forward(s) \/ ForwardLost(s) \/ ForwardError(s) \/ Unsubscribe(s) \/ Close(s)

Next ==
  \/ \E s \in Subs : Handler(s) \/ ClientChange(s) \/ \E ch \in Channels : Subscribe(s, ch)
  \/ \E p \in Publishers :
       PublishSend(p) \/ PublishReturn(p) \/ \E ch \in Channels : PublishBegin(p, ch)

Spec == Init /\ [][Next]_vars

\* Goroutines that can run do run; ps.mu, a Go RWMutex, lets a waiting
\* writer in before new readers, so Unsubscribe is not starved.
Fairness ==
  /\ \A s \in Subs : WF_vars(Forward(s) \/ ForwardLost(s) \/ ForwardError(s))
                     /\ SF_vars(Unsubscribe(s)) /\ WF_vars(Close(s))
  /\ \A p \in Publishers : WF_vars(PublishSend(p) \/ PublishReturn(p))

FairSpec == Spec /\ Fairness
-----------------------------------------------------------------------------
\* Publish never sends to a closed Go channel, which would panic: whatever
\* a publisher still has ahead of it is open, because Unsubscribe removes
\* the channel under the lock before it closes it.
NoSendOnClosed ==
  \A p \in Publishers : \A s \in ToSet(pub[p].rest) : ~closed[s]

\* A subscriber sees the messages of one publisher in the order of their
\* PUBLISHes and none twice, although publishers interleave; a message may
\* be missing, because a full buffer drops it.
InPublishOrder ==
  \A s \in Subs :
    LET got == delivered[s] \o buf[s] IN
    \A i, j \in 1..Len(got) : i < j /\ got[i][1] = got[j][1] => got[i][2] < got[j][2]

\* A subscription is listed exactly once, under its own channel, from
\* Subscribe to Unsubscribe: one missing would be deaf, one left behind
\* would be sent to after its close.
ListedWhileOpen ==
  \A ch \in Channels :
    /\ IsInjective(channels[ch])
    /\ ToSet(channels[ch]) = {s \in Subs : pc[s] \in {"loop", "leaving"} /\ topic[s] = ch}

\* A message Publish counted as received reaches the client, as long as the
\* client stays and reads.
ReceivedIsDelivered ==
  \A s \in Subs, p \in Publishers : \A n \in 1..MaxMsgs[p] :
    <<p, n>> \in ToSet(buf[s]) ~> <<p, n>> \in ToSet(delivered[s]) \/ conn[s] # "up"

\* A slow or stalled subscriber never holds up a publisher.
PublishReturns == \A p \in Publishers : pub[p].sending ~> ~pub[p].sending
=============================================================================
