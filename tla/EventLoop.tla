------------------------------ MODULE EventLoop ------------------------------
(***************************************************************************)
(* The single-threaded servers of pkg/server/eventloop_linux.go (epoll)    *)
(* and eventloop_darwin.go (kqueue).  The loop fetches a batch of events   *)
(* and handles them one after the other: accept, read with its parse loop, *)
(* write, close.  Clients connect, send commands cut anywhere, read their  *)
(* replies or not, and go away at any time.                                *)
(*                                                                         *)
(* A step of the loop is a handler or one round of the parse loop.  The    *)
(* events of a batch are handled in any order, and are those of the moment *)
(* of the poll: when an event's turn comes, its descriptor may be closed,  *)
(* or belong to another connection.  epoll_ctl and kevent do not fail on   *)
(* an open descriptor.  A round of the parse loop is done when the command *)
(* has returned; a MIGRATE may never return.                               *)
(***************************************************************************)
EXTENDS Protocol, FiniteSets

CONSTANTS
  Peers,      \* the connections clients may open: 1..n
  Fds,        \* the descriptors they are given: 1..n
  Scripts,    \* what each client may send: a set of streams with their items
  Pollers,    \* "epoll", "kqueue"
  Auths,      \* "off", "password" (-requirepass without -auth), "required"
  RequirePass, \* the password
  Deaf,       \* targets that may never answer a MIGRATE, the server's own address first
  ReadSize,   \* units one read returns at most (4096 bytes)
  SockBuf     \* replies the kernel takes before the client reads one

ASSUME EventLoopAssumption ==
  /\ Peers \subseteq Nat \ {0} /\ Fds \subseteq Nat \ {0}
  /\ IsFiniteSet(Fds)
  /\ Pollers \subseteq {"epoll", "kqueue"} /\ Auths \subseteq {"off", "password", "required"}
  /\ ReadSize \in Nat \ {0} /\ SockBuf \in Nat \ {0}

(* A script is a stream and its items.  An item says where it ends in the  *)
(* stream, what it is ("command", "stall" for a line the parse loop never  *)
(* gets past, "error", "panic") and the command.                           *)

\* How many units of the stream are before item j.
Begin(s, j) == IF j = 1 THEN 0 ELSE s.items[j - 1].end

\* What the parser makes of item j once n units of the stream have come.
ReadsAs(s, j, n) ==
  LET item == s.items[j]
      p == ParseCommandFromBytes(SubSeq(s.stream, Begin(s, j) + 1, n))
  IN  /\ p.err = (n >= item.end /\ item.kind = "error")
      /\ p.panics = (n >= item.end /\ item.kind = "panic")
      /\ IF n >= item.end /\ item.kind = "command"
         THEN p.cmd = item.cmd /\ p.consumed = item.end - Begin(s, j)
         ELSE p.cmd = <<>>

\* The items say what the parser makes of the stream, however it is cut.
ASSUME ScriptAssumption ==
  \A i \in Peers : \A s \in Scripts[i] :
    /\ s.stream \in Seq(ToSet(s.stream)) /\ s.items \in Seq(ToSet(s.items))
    /\ Len(s.stream) = Begin(s, Len(s.items) + 1)
    /\ \A j \in DOMAIN s.items :
         /\ s.items[j].end \in Begin(s, j) + 1..Len(s.stream)
         /\ s.items[j].kind = "command" => s.items[j].cmd \in Seq(STRING) \ {<<>>}
         /\ (\A m \in 1..j - 1 : s.items[m].kind = "command") =>
              \A n \in Begin(s, j)..Len(s.stream) : ReadsAs(s, j, n)

VARIABLES
  poller, auth, script,
  client,       \* what each client has done
  state,        \* the loop's ClientState of each connection
  connections,  \* the connection of each descriptor, 0 if closed
  batch,        \* events of the last poll that are still to be handled
  event         \* the event being handled

config == <<poller, auth, script>>
loopVars == <<config, client, state, connections, batch, event>>

Stream(i) == script[i].stream
Items(i) == script[i].items

\* ClientState.authed of a new connection, which also is the gate.
authedLinux == auth # "required"
authedDarwin == auth = "off"

NewClient == [phase |-> "away", sent |-> 0, gone |-> "no", unread |-> 0, received |-> <<>>]
NewState == [buffer |-> <<>>, got |-> 0, writeBuffer |-> <<>>, writeEnabled |-> FALSE,
             authed |-> FALSE]
None == [fd |-> 0, owner |-> 0, filter |-> "none", todo |-> {}]
Listener == [fd |-> 0, owner |-> 0, filter |-> "accept", todo |-> {"accept"}]
-----------------------------------------------------------------------------
(* The clients *)

Connect(i) ==
  /\ client[i].phase = "away"
  /\ client' = [client EXCEPT ![i].phase = "waiting"]
  /\ UNCHANGED <<config, state, connections, batch, event>>

\* What a client does before it is accepted, the loop sees only afterwards.
Send(i, n) ==
  /\ client[i].phase = "open"
  /\ client[i].gone = "no"
  /\ n \in client[i].sent + 1..Len(Stream(i))
  /\ client' = [client EXCEPT ![i].sent = n]
  /\ UNCHANGED <<config, state, connections, batch, event>>

Receive(i) ==
  /\ client[i].unread > 0
  /\ client[i].gone = "no"
  /\ client' = [client EXCEPT ![i].unread = @ - 1]
  /\ UNCHANGED <<config, state, connections, batch, event>>

\* The client closes its side ("fin") or the connection is reset ("rst").
Leave(i, how) ==
  /\ client[i].phase = "open"
  /\ client[i].gone = "no"
  /\ client' = [client EXCEPT ![i].gone = how]
  /\ UNCHANGED <<config, state, connections, batch, event>>
-----------------------------------------------------------------------------
(* The poll *)

Pending(i) == client[i].sent > state[i].got
Room(i) == state[i].writeEnabled /\ client[i].unread < SockBuf

\* What EpollWait reports of descriptor fd: one event with all its flags.
EpollEvents(fd) ==
  LET i == connections[fd]
      todo == (IF client[i].gone = "rst" THEN {"close"} ELSE {}) \union
              (IF Pending(i) \/ client[i].gone = "fin" THEN {"read"} ELSE {}) \union
              (IF Room(i) THEN {"write"} ELSE {})
  IN  {[fd |-> fd, owner |-> i, filter |-> "all", todo |-> t] : t \in {todo} \ {{}}}

\* What Kevent reports: an event per filter, with EV_EOF as soon as the
\* peer is gone, even if there is data to read.
KqueueEvents(fd) ==
  LET i == connections[fd]
      reads == IF client[i].gone # "no" THEN {"close"} ELSE IF Pending(i) THEN {"read"} ELSE {}
      writes == IF ~state[i].writeEnabled THEN {}
                ELSE IF client[i].gone = "rst" THEN {"close"}
                ELSE IF Room(i) THEN {"write"} ELSE {}
  IN  {[fd |-> fd, owner |-> i, filter |-> "read", todo |-> {t}] : t \in reads} \union
      {[fd |-> fd, owner |-> i, filter |-> "write", todo |-> {t}] : t \in writes}

Waiting == {i \in Peers : client[i].phase = "waiting"}
Open == {fd \in Fds : connections[fd] # 0}

Ready ==
  (IF Waiting = {} THEN {} ELSE {Listener}) \union
  UNION {IF poller = "epoll" THEN EpollEvents(fd) ELSE KqueueEvents(fd) : fd \in Open}

Poll ==
  /\ event = None
  /\ batch = {}
  /\ Ready # {}
  /\ batch' = Ready
  /\ UNCHANGED <<config, client, state, connections, event>>

Dispatch(e) ==
  /\ event = None
  /\ e \in batch
  /\ event' = e
  /\ batch' = batch \ {e}
  /\ UNCHANGED <<config, client, state, connections>>
-----------------------------------------------------------------------------
(* The handlers *)

\* accept takes one connection after the other, which gets the lowest free
\* descriptor, and returns when none is waiting or no descriptor is left.
accept(i) ==
  /\ "accept" \in event.todo
  /\ i \in Waiting
  /\ Open # Fds
  /\ connections' = [connections EXCEPT ![Min(Fds \ Open)] = i]
  /\ client' = [client EXCEPT ![i].phase = "open"]
  /\ state' = [state EXCEPT ![i].authed =
                 IF poller = "epoll" THEN authedLinux ELSE authedDarwin]
  /\ UNCHANGED <<config, batch, event>>

\* Handlers look the descriptor up; all but the closing ones then do this.
Current == connections[event.fd]
Handles(action) == event # None /\ event.fd \in Open /\ action \in event.todo

close ==
  /\ connections' = [connections EXCEPT ![event.fd] = 0]
  /\ client' = [client EXCEPT ![Current].phase = "closed"]
  /\ event' = None
  /\ UNCHANGED <<config, state, batch>>

\* EPOLLHUP, EPOLLERR or EV_EOF.
closeGone == Handles("close") /\ close

\* On with the event, or with the next one.
Continue(todo) == event' = IF todo = {} THEN None ELSE [event EXCEPT !.todo = todo]

\* The data read, and on with the parse loop.
Fetch(n) ==
  LET i == Current
  IN  /\ state' = [state EXCEPT ![i].got = n,
                     ![i].buffer = @ \o SubSeq(Stream(i), state[i].got + 1, n)]
      /\ Continue((event.todo \ {"read"}) \union {"parse"})
      /\ UNCHANGED <<config, client, connections, batch>>

\* Linux reads until EAGAIN; a peer that is gone by then closes the
\* connection, with whatever has been read.
readLinux ==
  /\ poller = "epoll"
  /\ Handles("read") /\ "close" \notin event.todo
  /\ IF client[Current].gone # "no" THEN close ELSE Fetch(client[Current].sent)

\* Darwin reads once.
readDarwin ==
  /\ poller = "kqueue"
  /\ Handles("read")
  /\ LET c == client[Current]
     IN  \/ c.gone = "rst" /\ close
         \/ c.gone # "rst" /\ Pending(Current)
            /\ Fetch(Min({c.sent, state[Current].got + ReadSize}))
         \/ c.gone = "fin" /\ ~Pending(Current) /\ close
         \/ c.gone = "no" /\ ~Pending(Current) /\ Continue({})
            /\ UNCHANGED <<config, client, state, connections, batch>>

\* The reply to a command, and whether the connection is authenticated then.
serve(authed, cmd) ==
  IF authed THEN [reply |-> <<"executed", cmd>>, authed |-> TRUE]
  ELSE IF cmd[1] # "AUTH" THEN [reply |-> <<"NOAUTH">>, authed |-> FALSE]
  ELSE IF Len(cmd) # 2 THEN [reply |-> <<"ERR wrong number">>, authed |-> FALSE]
  ELSE IF cmd[2] = RequirePass THEN [reply |-> <<"OK">>, authed |-> TRUE]
  ELSE [reply |-> <<"ERR invalid password">>, authed |-> FALSE]

\* Mutant: a reply that is still in the buffer is replaced.
queueWriteOver(s, data) == [s EXCEPT !.writeBuffer = <<data>>, !.writeEnabled = TRUE]

\* Mutant: the first reply does not enable the write.
queueWriteLate(s, data) ==
  [s EXCEPT !.writeBuffer = Append(@, data), !.writeEnabled = s.writeBuffer # <<>>]

queueWrite(s, data) == [s EXCEPT !.writeBuffer = Append(@, data), !.writeEnabled = TRUE]

parseEnd ==
  /\ Continue(event.todo \ {"parse"})
  /\ UNCHANGED <<config, client, state, connections, batch>>

\* No panic is recovered from: the process ends, every connection is closed
\* and who comes later is refused.
crash ==
  /\ connections' = [fd \in Fds |-> 0]
  /\ client' = [i \in Peers |-> [client[i] EXCEPT !.phase = "closed"]]
  /\ batch' = {}
  /\ event' = None
  /\ UNCHANGED <<config, state>>

\* One round of the parse loop.
parse ==
  /\ Handles("parse")
  /\ \E i \in {Current} : \E p \in {ParseCommandFromBytes(state[i].buffer)} :
       IF p.panics THEN crash
       ELSE IF p.err THEN close
       ELSE IF p.cmd = <<>> THEN parseEnd
       ELSE \E s \in {serve(state[i].authed, p.cmd)} :
              /\ state' = [state EXCEPT ![i] = queueWrite(
                   [@ EXCEPT !.buffer = SubSeq(state[i].buffer, p.consumed + 1, Len(state[i].buffer)),
                             !.authed = s.authed],
                   s.reply)]
              /\ UNCHANGED <<config, client, connections, batch, event>>

\* Mutant: a partial write gives up the interest.
interestAfterNone(rest, enabled) == FALSE

\* Interest in writing after a write: disableWrite if nothing is left; after
\* EAGAIN the Linux loop calls enableWrite, the other leaves it.
interestAfter(rest, enabled) == rest # <<>> /\ (poller = "epoll" \/ enabled)

\* Mutant: EAGAIN closes as other errors do.
writeAgain ==
  LET i == Current
      w == state[i].writeBuffer
      n == Min({Len(w), SockBuf - client[i].unread})
  IN  /\ Handles("write") /\ event.todo \intersect {"close", "read", "parse"} = {}
      /\ IF n < Len(w) THEN close
         ELSE /\ state' = [state EXCEPT ![i].writeBuffer = <<>>, ![i].writeEnabled = FALSE]
              /\ client' = [client EXCEPT ![i].unread = @ + n, ![i].received = @ \o w]
              /\ Continue({})
              /\ UNCHANGED <<config, connections, batch>>

\* The kernel takes what it has room for; a broken connection is closed, and
\* the interest in writing ends with the buffer.
write ==
  LET i == Current
      w == state[i].writeBuffer
      n == Min({Len(w), SockBuf - client[i].unread})
  IN  /\ Handles("write") /\ event.todo \intersect {"close", "read", "parse"} = {}
      /\ IF client[i].gone = "rst" /\ w # <<>> THEN close
         ELSE /\ state' = [state EXCEPT ![i].writeBuffer = SubSeq(w, n + 1, Len(w)),
                                        ![i].writeEnabled = interestAfter(SubSeq(w, n + 1, Len(w)), @)]
              /\ client' = [client EXCEPT ![i].unread = @ + n,
                                          ![i].received = @ \o SubSeq(w, 1, n)]
              /\ Continue({})
              /\ UNCHANGED <<config, connections, batch>>

\* The descriptor is no longer known, or accept fails.
return ==
  /\ event # None
  /\ IF event = Listener THEN Waiting = {} \/ Open = Fds ELSE event.fd \notin Open
  /\ Continue({})
  /\ UNCHANGED <<config, client, state, connections, batch>>
-----------------------------------------------------------------------------
LoopInit ==
  /\ poller \in Pollers
  /\ auth \in Auths
  /\ script \in [Peers -> UNION {Scripts[i] : i \in Peers}]
  /\ \A i \in Peers : script[i] \in Scripts[i]
  /\ client = [i \in Peers |-> NewClient]
  /\ state = [i \in Peers |-> NewState]
  /\ connections = [fd \in Fds |-> 0]
  /\ batch = {}
  /\ event = None

Clients ==
  \E i \in Peers : \/ Connect(i)
                   \/ \E n \in 1..Len(Stream(i)) : Send(i, n)
                   \/ Receive(i)
                   \/ \E how \in {"fin", "rst"} : Leave(i, how)

Loop ==
  \/ Poll
  \/ \E e \in batch : Dispatch(e)
  \/ \E i \in Peers : accept(i)
  \/ closeGone
  \/ readLinux
  \/ readDarwin
  \/ parse
  \/ write
  \/ return

LoopNext == Clients \/ Loop

LoopSpec == LoopInit /\ [][LoopNext]_loopVars

\* The loop is at a MIGRATE, which reads the target's answer without a deadline.
Migrating ==
  /\ Handles("parse")
  /\ LET s == state[Current]
         p == ParseCommandFromBytes(s.buffer)
     IN  s.authed /\ Len(p.cmd) > 2 /\ p.cmd[1] = "MIGRATE" /\ p.cmd[3] \in Deaf

\* The loop's goroutine keeps running, but need not come back from there.
FairLoopSpec == LoopSpec /\ WF_loopVars(~Migrating /\ Loop)
-----------------------------------------------------------------------------
\* Every open connection is known under exactly one descriptor, and is
\* registered for writing as long as replies are left in its buffer: no
\* interest is lost between queueWrite, partial writes and disableWrite, and
\* no descriptor is shared although numbers are used again.
NoneForgotten ==
  /\ \A fd \in Open : client[connections[fd]].phase = "open"
  /\ \A fd, other \in Open : connections[fd] = connections[other] => fd = other
  /\ \A i \in Peers : client[i].phase = "open" =>
       /\ \E fd \in Open : connections[fd] = i
       /\ state[i].writeBuffer # <<>> => state[i].writeEnabled

Arrived(i) == {j \in DOMAIN Items(i) : Items(i)[j].end <= client[i].sent}
Commands(i) == {j \in Arrived(i) : \A m \in 1..j : Items(i)[m].kind = "command"}
Replies(i) == client[i].received \o state[i].writeBuffer

\* What a client must be told for its j-th command.
Expected(i, j) ==
  LET cmd == Items(i)[j].cmd
      login == <<"AUTH", RequirePass>>
      open == \/ auth = "off"
              \/ auth = "password" /\ poller = "epoll"
              \/ \E m \in 1..j - 1 : Items(i)[m].cmd = login
  IN  IF open THEN <<"executed", cmd>>
      ELSE IF cmd = login THEN <<"OK">>
      ELSE IF cmd[1] # "AUTH" THEN <<"NOAUTH">>
      ELSE IF Len(cmd) = 2 THEN <<"ERR invalid password">> ELSE <<"ERR wrong number">>

\* However the stream is cut and whatever is read and written when, the
\* replies received and buffered are those to the commands sent, one each
\* and in order, and none is executed before a successful AUTH.
AnswersInOrder ==
  \A i \in Peers : \A j \in DOMAIN Replies(i) :
    j \in Commands(i) /\ Replies(i)[j] = Expected(i, j)

\* Every command that has arrived whole is executed and its reply handed to
\* the kernel as far as the client leaves room, unless the connection is
\* closed, if no line that stalls the parse loop came before it.  While a
\* MIGRATE, of whichever client, waits for its target, nobody is served.
ServedEventually ==
  \A i \in Peers :
    client[i].phase = "open" ~>
      \/ client[i].phase = "closed"
      \/ Migrating
      \/ /\ DOMAIN Replies(i) = Commands(i)
         /\ state[i].writeBuffer = <<>> \/ client[i].unread = SockBuf

\* A connection is closed only because its own client is gone or has sent
\* what cannot be parsed, or because some client sent an array with a
\* negative count or length and the process ended.  Under kqueue there is
\* one more cause: an event of the connection that had the descriptor before.
ClosedForCause ==
  [][\A i \in Peers : client[i].phase = "open" /\ client'[i].phase = "closed" =>
       \/ client[i].gone # "no"
       \/ \E j \in Arrived(i) : Items(i)[j].kind = "error"
       \/ \E m \in Peers : \E j \in Arrived(m) : Items(m)[j].kind = "panic"
       \/ poller = "kqueue" /\ event.owner # i]_loopVars
=============================================================================
