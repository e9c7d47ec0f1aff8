--------------------------- MODULE ConnectionProofs ---------------------------
(***************************************************************************)
(* The gates, the client limit and the settings of Connection, for any     *)
(* number of connections, any addresses and any starts of the server, and  *)
(* the descriptors, replies and events of EventLoop, for any clients,      *)
(* descriptors and scripts.                                                *)
(***************************************************************************)
EXTENDS Connection, EventLoop, SequenceProofs, FiniteSetTheorems

Phases == {"away", "dialled", "started", "serving", "migrating", "replica", "subscribed",
           "leaving", "closing", "closed", "rejected"}

AnyConn == [phase : Phases, ip : Addresses \union {NewConn.ip}, gone : {"no", "fin", "rst"},
            authed : BOOLEAN, proven : BOOLEAN, effect : BOOLEAN, inbox : BOOLEAN]

ConnType == conn \in [Conns -> AnyConn]

LEMMA NewConnType == NewConn \in AnyConn
  BY DEF AnyConn, NewConn, Phases

LEMMA WrittenType == \A c \in AnyConn : Written(c) \in AnyConn
  BY DEF AnyConn, Written

LEMMA TypeStep == ConnType /\ [Next]_vars => ConnType'
<1> SUFFICES ASSUME ConnType, [Next]_vars PROVE ConnType'
  OBVIOUS
<1>0. ASSUME NEW i \in Conns, NEW c \in AnyConn, conn' = [conn EXCEPT ![i] = c]
      PROVE  ConnType'
  BY <1>0 DEF ConnType
<1>m. ASSUME NEW i \in Conns, NEW p \in Phases, Move(i, p) PROVE ConnType'
  <2>1. [conn[i] EXCEPT !.phase = p] \in AnyConn
    BY DEF ConnType, AnyConn
  <2>2. conn' = [conn EXCEPT ![i] = [conn[i] EXCEPT !.phase = p]]
    BY <1>m DEF Move
  <2>3. QED
    BY <1>0, <2>1, <2>2
<1>1. ASSUME NEW i \in Conns, Client(i) PROVE ConnType'
  <2>1. ASSUME NEW ip \in Addresses, Dial(i, ip) PROVE ConnType'
    <3>1. [conn[i] EXCEPT !.phase = "dialled", !.ip = ip] \in AnyConn
      BY ZenonT(40) DEF ConnType, AnyConn, Phases
    <3>2. conn' = [conn EXCEPT ![i] = [conn[i] EXCEPT !.phase = "dialled", !.ip = ip]]
      BY <2>1 DEF Dial, ConnType
    <3>3. QED
      BY <1>0, <3>1, <3>2
  <2>2. CASE Forget(i)
    BY <1>0, <2>2, NewConnType DEF Forget
  <2>3. CASE Hangup(i)
    <3>1. [conn[i] EXCEPT !.gone = "fin"] \in AnyConn
      BY DEF ConnType, AnyConn
    <3>2. QED
      BY <1>0, <2>3, <3>1 DEF Hangup
  <2>4. QED
    BY <1>1, <2>1, <2>2, <2>3 DEF Client
<1>2. ASSUME NEW i \in Conns, Accept(i) PROVE ConnType'
  BY <1>2, <1>m DEF Accept, Phases
<1>3. ASSUME NEW i \in Conns, Handler(i) PROVE ConnType'
  <2>1. CASE begin(i)
    <3>1. [conn[i] EXCEPT !.phase = "serving", !.authed = ~AuthEnabled] \in AnyConn
      BY ZenonT(40) DEF ConnType, AnyConn, Phases
    <3>2. CASE conn' = [conn EXCEPT ![i].phase = "serving", ![i].authed = ~AuthEnabled]
      <4>1. conn' = [conn EXCEPT ![i] = [conn[i] EXCEPT !.phase = "serving", !.authed = ~AuthEnabled]]
        BY <3>2 DEF ConnType
      <4>2. QED
        BY <1>0, <3>1, <4>1
    <3>3. QED
      BY <1>m, <2>1, <3>2 DEF begin, Phases
  <2>2. CASE forward(i)
    <3>1. [conn[i] EXCEPT !.inbox = FALSE, !.phase = "leaving"] \in AnyConn
      BY ZenonT(40) DEF ConnType, AnyConn, Phases
    <3>2. [conn[i] EXCEPT !.inbox = FALSE] \in AnyConn
      BY ZenonT(40) DEF ConnType, AnyConn, Phases
    <3>3. QED
      BY <1>0, <2>2, <3>1, <3>2, WrittenType DEF forward
  <2>3. CASE eof(i) \/ countOff(i) \/ Close(i)
    BY <1>m, <2>3 DEF eof, countOff, Close, Phases
  <2>4. QED
    BY <1>3, <2>1, <2>2, <2>3 DEF Handler
<1>4. ASSUME NEW i \in Conns, Reader(i) PROVE ConnType'
  <2>1. CASE AUTH(i)
    <3>1. [conn[i] EXCEPT !.authed = TRUE, !.proven = TRUE] \in AnyConn
      BY DEF ConnType, AnyConn
    <3>2. conn' = [conn EXCEPT ![i] = [conn[i] EXCEPT !.authed = TRUE, !.proven = TRUE]]
      BY <2>1 DEF AUTH, ConnType
    <3>3. QED
      BY <1>0, <3>1, <3>2
  <2>2. CASE SUBSCRIBE(i)
    <3>1. [conn[i] EXCEPT !.phase = "subscribed"] \in AnyConn
      BY DEF ConnType, AnyConn, Phases
    <3>2. QED
      BY <1>0, <2>2, <3>1, WrittenType DEF SUBSCRIBE
  <2>3. ASSUME NEW publish \in BOOLEAN, execute(i, publish) PROVE ConnType'
    <3>1. [conn[i] EXCEPT !.effect = TRUE] \in AnyConn
      BY DEF ConnType, AnyConn
    <3>2. ASSUME NEW j \in Conns, NEW b \in BOOLEAN
          PROVE  [conn[j] EXCEPT !.inbox = b] \in AnyConn
      BY DEF ConnType, AnyConn
    <3>3. ASSUME NEW j \in Conns
          PROVE  [conn[j] EXCEPT !.inbox = @ \/ (publish /\ conn[j].phase = "subscribed")] \in AnyConn
      BY <3>2
    <3>4. QED
      BY <2>3, <3>1, <3>3 DEF execute, ConnType
  <2>4. CASE parseError(i) \/ refuse(i) \/ REPL(i) \/ replicaRead(i) \/ migrated(i)
    BY <1>m, <2>4 DEF parseError, refuse, REPL, replicaRead, migrated, Phases
  <2>5. CASE MIGRATE(i)
    <3>1. [conn[i] EXCEPT !.phase = "migrating", !.effect = TRUE] \in AnyConn
      BY ZenonT(40) DEF ConnType, AnyConn, Phases
    <3>2. conn' = [conn EXCEPT ![i] = [conn[i] EXCEPT !.phase = "migrating", !.effect = TRUE]]
      BY <2>5 DEF MIGRATE, ConnType
    <3>3. QED
      BY <1>0, <3>1, <3>2
  <2>6. QED
    <3>1. CASE \E publish \in BOOLEAN : execute(i, publish)
      BY <2>3, <3>1, Zenon
    <3>2. QED
      BY <1>4, <2>1, <2>2, <2>4, <2>5, <3>1, Zenon DEF Reader
<1>5. CASE UNCHANGED vars
  BY <1>5 DEF vars, ConnType
<1>6. QED
  BY <1>1, <1>2, <1>3, <1>4, <1>5 DEF Next
-----------------------------------------------------------------------------
(* What the gates rest on, for one connection: before the command loop it  *)
(* has done nothing, and in it the password is set and authenticated only  *)
(* by it.  The third part is GateHolds.                                    *)
GateOne(c) ==
  /\ c.phase \in {"away", "dialled", "started"} => ~c.effect
  /\ c.phase \in {"serving", "migrating"} /\ AuthEnabled => Password # "" /\ (c.authed => c.proven)
  /\ c.effect \/ c.phase \in {"replica", "subscribed"} =>
       isAllowed(c.ip) /\ (AuthEnabled => c.proven /\ Password # "")

GateInv == \A i \in Conns : GateOne(conn[i])

LEMMA GateStep == ConnType /\ GateInv /\ [Next]_vars => GateInv'
<1> SUFFICES ASSUME ConnType, GateInv, [Next]_vars PROVE GateInv'
  OBVIOUS
<1> USE DEF ConnType, AnyConn, Phases
<1>0. ASSUME NEW i \in Conns, NEW c, UNCHANGED server, GateOne(c), conn' = [conn EXCEPT ![i] = c]
      PROVE  GateInv'
  BY <1>0 DEF GateInv, GateOne, server, isAllowed, AuthEnabled, Password
<1>s. ASSUME NEW i \in Conns, NEW d, d.phase \in {conn[i].phase, "leaving"}, d.ip = conn[i].ip,
             d.authed = conn[i].authed, d.proven = conn[i].proven, d.effect = conn[i].effect
      PROVE  GateOne(d)
  <2>1. GateOne(conn[i])
    BY DEF GateInv
  <2> QED BY <1>s, <2>1 DEF GateOne
<1>m. ASSUME NEW i \in Conns, UNCHANGED server, NEW p \in {"rejected", "started", "leaving",
             "closing", "closed"},
             Move(i, p), p = "started" => conn[i].phase = "dialled"
      PROVE  GateInv'
  <2>1. GateOne([conn[i] EXCEPT !.phase = p])
    BY <1>m DEF GateInv, GateOne
  <2>2. QED
    BY <1>0, <1>m, <2>1 DEF Move
<1>1. ASSUME NEW i \in Conns, Client(i) PROVE GateInv'
  <2>1. ASSUME NEW ip \in Addresses, Dial(i, ip) PROVE GateInv'
    <3>1. GateOne([conn[i] EXCEPT !.phase = "dialled", !.ip = ip])
      BY <2>1 DEF GateInv, GateOne, Dial
    <3>2. conn' = [conn EXCEPT ![i] = [conn[i] EXCEPT !.phase = "dialled", !.ip = ip]]
      BY <2>1 DEF Dial
    <3>3. QED
      BY <1>0, <2>1, <3>1, <3>2 DEF Dial
  <2>2. CASE Forget(i)
    <3>1. GateOne(NewConn)
      BY DEF GateOne, NewConn
    <3>2. QED
      BY <1>0, <2>2, <3>1 DEF Forget
  <2>3. CASE Hangup(i)
    <3>1. GateOne([conn[i] EXCEPT !.gone = "fin"])
      BY <1>s
    <3>2. QED
      BY <1>0, <2>3, <3>1 DEF Hangup
  <2>4. QED
    BY <1>1, <2>1, <2>2, <2>3 DEF Client
<1>2. ASSUME NEW i \in Conns, Accept(i) PROVE GateInv'
  BY <1>2, <1>m DEF Accept
<1>3. ASSUME NEW i \in Conns, Handler(i) PROVE GateInv'
  <2>1. CASE begin(i)
    <3>1. CASE AuthEnabled /\ Password = ""
      BY <1>m, <2>1, <3>1 DEF begin
    <3>2. CASE ~(AuthEnabled /\ Password = "")
      <4> DEFINE d == [conn[i] EXCEPT !.phase = "serving", !.authed = ~AuthEnabled]
      <4>1. /\ d.phase = "serving" /\ d.ip = conn[i].ip /\ d.authed = ~AuthEnabled
            /\ d.proven = conn[i].proven /\ d.effect = conn[i].effect
        BY ZenonT(20)
      <4>2. GateOne(conn[i]) /\ conn[i].phase = "started"
        BY <2>1 DEF GateInv, begin
      <4> HIDE DEF d
      <4>3. GateOne(d)
        BY <3>2, <4>1, <4>2 DEF GateOne
      <4>4. GateOne([conn[i] EXCEPT !.phase = "serving", !.authed = ~AuthEnabled])
        BY <4>3 DEF d
      <4>5. conn' = [conn EXCEPT ![i] = [conn[i] EXCEPT !.phase = "serving", !.authed = ~AuthEnabled]]
        BY <2>1, <3>2 DEF begin
      <4>6. QED
        BY <1>0, <2>1, <4>4, <4>5 DEF begin
    <3>3. QED
      BY <3>1, <3>2
  <2>2. CASE forward(i)
    <3> DEFINE left == [conn[i] EXCEPT !.inbox = FALSE, !.phase = "leaving"]
               sent == Written([conn[i] EXCEPT !.inbox = FALSE])
    <3>1. /\ left.phase = "leaving" /\ left.ip = conn[i].ip /\ left.authed = conn[i].authed
          /\ left.proven = conn[i].proven /\ left.effect = conn[i].effect
      BY ZenonT(20)
    <3>2. /\ sent.phase = conn[i].phase /\ sent.ip = conn[i].ip /\ sent.authed = conn[i].authed
          /\ sent.proven = conn[i].proven /\ sent.effect = conn[i].effect
      BY ZenonT(20) DEF Written
    <3> HIDE DEF left, sent
    <3>3. GateOne(left) /\ GateOne(sent)
      BY <1>s, <3>1, <3>2
    <3>4. GateOne([conn[i] EXCEPT !.inbox = FALSE, !.phase = "leaving"])
      BY <3>3 DEF left
    <3>5. GateOne(Written([conn[i] EXCEPT !.inbox = FALSE]))
      BY <3>3 DEF sent
    <3>6. QED
      BY <1>0, <2>2, <3>4, <3>5 DEF forward
  <2>3. CASE eof(i) \/ countOff(i) \/ Close(i)
    BY <1>m, <2>3 DEF eof, countOff, Close
  <2>4. QED
    BY <1>3, <2>1, <2>2, <2>3 DEF Handler
<1>4. ASSUME NEW i \in Conns, Reader(i) PROVE GateInv'
  <2>1. CASE AUTH(i)
    <3>1. GateOne([conn[i] EXCEPT !.authed = TRUE, !.proven = TRUE])
      BY <2>1 DEF GateInv, GateOne, AUTH, Reads
    <3>2. conn' = [conn EXCEPT ![i] = [conn[i] EXCEPT !.authed = TRUE, !.proven = TRUE]]
      BY <2>1 DEF AUTH
    <3>3. QED
      BY <1>0, <2>1, <3>1, <3>2 DEF AUTH
  <2>2. CASE SUBSCRIBE(i)
    <3>1. GateOne(Written([conn[i] EXCEPT !.phase = "subscribed"]))
      BY <2>2 DEF GateInv, GateOne, SUBSCRIBE, Passes, Reads, Written
    <3>2. QED
      BY <1>0, <2>2, <3>1 DEF SUBSCRIBE
  <2>3. CASE REPL(i)
    <3>1. GateOne([conn[i] EXCEPT !.phase = "replica"])
      BY <2>3 DEF GateInv, GateOne, REPL, Passes, Reads
    <3>2. QED
      BY <1>0, <2>3, <3>1 DEF REPL, Move
  <2>4. ASSUME NEW publish \in BOOLEAN, execute(i, publish) PROVE GateInv'
    <3>1. GateOne([conn[i] EXCEPT !.effect = TRUE])
      BY <2>4 DEF GateInv, GateOne, execute, Passes, Reads
    <3>2. ASSUME NEW j \in Conns, NEW b \in BOOLEAN PROVE GateOne([conn[j] EXCEPT !.inbox = b])
      BY <1>s
    <3>3. ASSUME NEW j \in Conns
          PROVE  GateOne([conn[j] EXCEPT !.inbox = @ \/ (publish /\ conn[j].phase = "subscribed")])
      BY <3>2
    <3>4. \A j \in Conns : GateOne(conn'[j])
      BY <2>4, <3>1, <3>3 DEF execute
    <3>5. QED
      BY <2>4, <3>4 DEF execute, GateInv, GateOne, server, isAllowed, AuthEnabled, Password
  <2>5. CASE parseError(i) \/ refuse(i) \/ replicaRead(i)
    BY <1>m, <2>5 DEF parseError, refuse, replicaRead
  <2>6. CASE MIGRATE(i)
    <3>1. GateOne([conn[i] EXCEPT !.phase = "migrating", !.effect = TRUE])
      BY <2>6 DEF GateInv, GateOne, MIGRATE, Passes, Reads
    <3>2. conn' = [conn EXCEPT ![i] = [conn[i] EXCEPT !.phase = "migrating", !.effect = TRUE]]
      BY <2>6 DEF MIGRATE
    <3>3. QED
      BY <1>0, <2>6, <3>1, <3>2 DEF MIGRATE
  <2>7. CASE migrated(i)
    <3>1. GateOne([conn[i] EXCEPT !.phase = "serving"])
      BY <2>7 DEF GateInv, GateOne, migrated
    <3>2. QED
      BY <1>0, <2>7, <3>1 DEF migrated, Move
  <2>8. QED
    <3>1. CASE \E publish \in BOOLEAN : execute(i, publish)
      BY <2>4, <3>1, Zenon
    <3>2. QED
      BY <1>4, <2>1, <2>2, <2>3, <2>5, <2>6, <2>7, <3>1, Zenon DEF Reader
<1>5. CASE UNCHANGED vars
  BY <1>5 DEF vars, server, GateInv, GateOne, isAllowed, AuthEnabled, Password
<1>6. QED
  BY <1>1, <1>2, <1>3, <1>4, <1>5 DEF Next

LEMMA InitFacts == Init => ConnType /\ GateInv
<1> SUFFICES ASSUME Init PROVE ConnType /\ GateInv
  OBVIOUS
<1>1. conn = [i \in Conns |-> NewConn]
  BY DEF Init
<1>2. GateOne(NewConn)
  BY DEF GateOne, NewConn
<1>3. QED
  BY <1>1, <1>2, NewConnType DEF ConnType, GateInv

(* No command, subscription or replication stream of a connection takes    *)
(* effect past the allowlist and the authentication gate of                *)
(* handleConnection, whatever the configuration.                           *)
THEOREM GatesCorrect == Spec => []GateHolds
<1>1. ConnType /\ GateInv /\ [Next]_vars => (ConnType /\ GateInv)'
  BY TypeStep, GateStep
<1>2. GateInv => GateHolds
  BY DEF GateInv, GateOne, GateHolds
<1>3. QED
  BY InitFacts, <1>1, <1>2, PTL DEF Spec
-----------------------------------------------------------------------------
\* The limit is a number, and the count exact, whenever there is a limit.
SlotInv == MaxClients \in Int /\ SlotsExact

LEMMA HoldersFinite == IsFiniteSet(Holders) /\ Cardinality(Holders) \in Nat
  BY ConnectionAssumption, FS_Subset, FS_CardinalityType DEF Holders

\* A step keeps the holders, or Accept adds one, or countOff takes one out.
LEMMA HoldersStep ==
  ASSUME ConnType, [Next]_vars
  PROVE  /\ UNCHANGED MaxClients
         /\ \/ UNCHANGED <<Holders, clients>>
            \/ \E i \in Conns : /\ i \notin Holders /\ Holders' = Holders \union {i}
                                /\ MaxClients > 0 => ~(clients >= MaxClients)
                                /\ clients' = IF MaxClients > 0 THEN clients + 1 ELSE clients
            \/ \E i \in Conns : /\ i \in Holders /\ Holders' = Holders \ {i}
                                /\ clients' = IF MaxClients > 0 THEN clients - 1 ELSE clients
<1> USE DEF ConnType, AnyConn, Phases, Holders
<1>c. UNCHANGED MaxClients
  BY DEF Next, vars, server, MaxClients, Client, Dial, Forget, Hangup, Accept, Handler, begin, eof,
     forward, countOff, Close, Reader, parseError, refuse, AUTH, REPL, SUBSCRIBE, execute,
     replicaRead, MIGRATE, migrated
<1>1. ASSUME NEW i \in Conns, Client(i) PROVE UNCHANGED <<Holders, clients>>
  <2>1. ASSUME NEW ip \in Addresses, Dial(i, ip) PROVE UNCHANGED <<Holders, clients>>
    BY <2>1 DEF Dial
  <2>2. CASE Forget(i)
    BY <2>2 DEF Forget, NewConn
  <2>3. CASE Hangup(i)
    BY <2>3 DEF Hangup
  <2>4. QED
    BY <1>1, <2>1, <2>2, <2>3 DEF Client
<1>2. ASSUME NEW i \in Conns, Accept(i)
      PROVE  \/ UNCHANGED <<Holders, clients>>
             \/ /\ i \notin Holders /\ Holders' = Holders \union {i}
                /\ MaxClients > 0 => ~(clients >= MaxClients)
                /\ clients' = IF MaxClients > 0 THEN clients + 1 ELSE clients
  BY <1>2 DEF Accept, Move
<1>3. ASSUME NEW i \in Conns, Handler(i), ~countOff(i) PROVE UNCHANGED <<Holders, clients>>
  <2>1. CASE begin(i)
    BY <2>1, ZenonT(40) DEF begin, Move
  <2>2. CASE eof(i)
    BY <2>2 DEF eof, Reads, Move
  <2>3. CASE forward(i)
    BY <2>3 DEF forward, Written
  <2>4. CASE Close(i)
    BY <2>4 DEF Close, Move
  <2>5. QED
    BY <1>3, <2>1, <2>2, <2>3, <2>4 DEF Handler
<1>4. ASSUME NEW i \in Conns, countOff(i)
      PROVE  /\ i \in Holders /\ Holders' = Holders \ {i}
             /\ clients' = IF MaxClients > 0 THEN clients - 1 ELSE clients
  BY <1>4 DEF countOff, Move
<1>5. ASSUME NEW i \in Conns, Reader(i) PROVE UNCHANGED <<Holders, clients>>
  <2>1. CASE parseError(i) \/ refuse(i) \/ REPL(i)
    BY <2>1 DEF parseError, refuse, REPL, Passes, Reads, Move
  <2>2. CASE AUTH(i)
    BY <2>2 DEF AUTH
  <2>3. CASE SUBSCRIBE(i)
    BY <2>3 DEF SUBSCRIBE, Passes, Reads, Written
  <2>4. ASSUME NEW publish \in BOOLEAN, execute(i, publish) PROVE UNCHANGED <<Holders, clients>>
    <3>1. \A j \in Conns : conn'[j].phase = conn[j].phase
      BY <2>4 DEF execute
    <3>2. QED
      BY <2>4, <3>1 DEF execute
  <2>5. CASE \E publish \in BOOLEAN : execute(i, publish)
    BY <2>4, <2>5, Zenon
  <2>6. CASE replicaRead(i) \/ migrated(i)
    BY <2>6 DEF replicaRead, migrated, Move
  <2>7. CASE MIGRATE(i)
    BY <2>7 DEF MIGRATE, Passes, Reads
  <2>8. QED
    BY <1>5, <2>1, <2>2, <2>3, <2>5, <2>6, <2>7, Zenon DEF Reader
<1>6. ASSUME UNCHANGED vars PROVE UNCHANGED <<Holders, clients>>
  BY <1>6 DEF vars
<1>7. QED
  <2>1. CASE Next
    <3>1. PICK i \in Conns : Client(i) \/ Accept(i) \/ Handler(i) \/ Reader(i)
      BY <2>1, Zenon DEF Next
    <3>2. CASE Accept(i)
      BY <1>2, <1>c, <3>2, Zenon
    <3>3. CASE countOff(i)
      BY <1>4, <1>c, <3>3, Zenon
    <3>4. QED
      BY <1>1, <1>3, <1>5, <1>c, <3>1, <3>2, <3>3, Zenon
  <2>2. QED
    BY <1>6, <1>c, <2>1, Zenon

LEMMA SlotStep == ConnType /\ SlotInv /\ [Next]_vars => SlotInv'
<1> SUFFICES ASSUME ConnType, SlotInv, [Next]_vars PROVE SlotInv'
  OBVIOUS
<1>1. UNCHANGED MaxClients
  BY HoldersStep
<1>2. CASE ~(MaxClients > 0)
  BY <1>1, <1>2 DEF SlotInv, SlotsExact
<1>3. CASE MaxClients > 0
  <2>1. clients = Cardinality(Holders) /\ clients \in Nat /\ clients <= MaxClients /\ MaxClients \in Int
    BY <1>3, HoldersFinite DEF SlotInv, SlotsExact
  <2>2. CASE UNCHANGED <<Holders, clients>>
    BY <1>1, <2>1, <2>2 DEF SlotInv, SlotsExact
  <2>3. ASSUME NEW i \in Conns, i \notin Holders, Holders' = Holders \union {i},
               ~(clients >= MaxClients), clients' = clients + 1
        PROVE  SlotInv'
    <3>1. Cardinality(Holders \union {i}) = Cardinality(Holders) + 1
      BY <2>3, HoldersFinite, FS_AddElement
    <3>2. QED
      BY <1>1, <2>1, <2>3, <3>1 DEF SlotInv, SlotsExact
  <2>4. ASSUME NEW i \in Conns, i \in Holders, Holders' = Holders \ {i}, clients' = clients - 1
        PROVE  SlotInv'
    <3>1. Cardinality(Holders \ {i}) = Cardinality(Holders) - 1
      BY <2>4, HoldersFinite, FS_RemoveElement
    <3>2. QED
      BY <1>1, <2>1, <2>4, <3>1 DEF SlotInv, SlotsExact
  <2>5. QED
    BY <1>3, <2>2, <2>3, <2>4, HoldersStep
<1>4. QED
  BY <1>2, <1>3

(* With a limit, which is an int in the code, s.clients is at every moment *)
(* the number of handlers that have not counted themselves off, and never  *)
(* above -maxclients, however connections come, fail and go.               *)
THEOREM SlotsCorrect == Spec /\ MaxClients \in Int => []SlotsExact
<1>1. Init /\ MaxClients \in Int => SlotInv
  <2> SUFFICES ASSUME Init, MaxClients \in Int PROVE SlotInv
    OBVIOUS
  <2>1. Holders = {} /\ clients = 0
    BY DEF Init, Holders, NewConn
  <2>2. QED
    BY <2>1, FS_EmptySet DEF SlotInv, SlotsExact
<1>2. ConnType /\ SlotInv /\ [Next]_vars => (ConnType /\ SlotInv)'
  BY TypeStep, SlotStep
<1>3. SlotInv => SlotsExact
  BY DEF SlotInv
<1>4. QED
  BY InitFacts, <1>1, <1>2, <1>3, PTL DEF Spec
-----------------------------------------------------------------------------
(* The settings a server runs with *)

\* f[n] is the configuration after the first n lines.
Loads(f, flags, lines) ==
  f = [n \in 0..Len(lines) |->
         IF n = 0 THEN flags
         ELSE IF badLine(lines[n]) THEN f[n - 1] ELSE applyLine(f[n - 1], lines[n])]

\* A sequence of lines.
Lines(lines) == Len(lines) \in Nat /\ lines = [m \in 1..Len(lines) |-> lines[m]]

\* A line sets one setting of a configuration, or none.
LEMMA ApplyLineType ==
  ASSUME NEW V, NEW c \in [FileKeys -> V], NEW l, l.val \in V, ParseEvictionPolicy[l.val] \in V,
         TRUE \in V
  PROVE  applyLine(c, l) \in [FileKeys -> V]
<1>1. CASE l.key = "seed"
  BY <1>1 DEF applyLine
<1>2. CASE l.key = "maxmemory-policy"
  BY <1>2 DEF applyLine
<1>3. CASE l.key \in FileKeys \ {"seed", "maxmemory-policy"}
  BY <1>3 DEF applyLine
<1>4. CASE l.key \notin FileKeys
  <2>1. l.key # "seed" /\ l.key # "maxmemory-policy"
    BY <1>4 DEF FileKeys, NamedKeys
  <2> QED BY <1>4, <2>1 DEF applyLine
<1> QED BY <1>1, <1>2, <1>3, <1>4

\* Whatever the lines, there is a configuration after each of them, and
\* LoadConfigFile returns the last one.
LEMMA LoadsExist ==
  ASSUME NEW flags, flags = [k \in FileKeys |-> flags[k]], NEW lines, Lines(lines)
  PROVE  \E f : Loads(f, flags, lines) /\ f[Len(lines)] = LoadConfigFile(flags, lines).cfg
<1> DEFINE N == Len(lines)
           V == {flags[k] : k \in FileKeys} \union {lines[m].val : m \in 1..N}
                  \union {ParseEvictionPolicy[lines[m].val] : m \in 1..N} \union {TRUE}
           C == [FileKeys -> V]
           step == [n \in Nat |-> [c \in C |->
                      IF n \in 1..N /\ ~badLine(lines[n]) THEN applyLine(c, lines[n]) ELSE c]]
<1>1. N \in Nat /\ flags \in C
  BY DEF Lines
<1>2. ASSUME NEW n \in 1..N, NEW c \in C PROVE applyLine(c, lines[n]) \in C
  <2>1. lines[n].val \in V /\ ParseEvictionPolicy[lines[n].val] \in V /\ TRUE \in V
    OBVIOUS
  <2> HIDE DEF V
  <2> QED BY <2>1, ApplyLineType
<1> HIDE DEF C
<1>3. step \in [Nat -> [C -> C]]
  BY <1>2
<1>4. PICK f \in [Nat -> C] : f[0] = flags /\ \A n \in Nat \ {0} : f[n] = step[n][f[n - 1]]
  <2> HIDE DEF step
  <2>1. \E f \in [Nat -> C] : Follows(f, flags, step)
    BY <1>1, <1>3, Recursion
  <2> QED BY <2>1 DEF Follows
<1> DEFINE g == [n \in 0..N |-> f[n]]
<1>5. ASSUME NEW n \in 0..N
      PROVE  g[n] = IF n = 0 THEN flags
                    ELSE IF badLine(lines[n]) THEN g[n - 1] ELSE applyLine(g[n - 1], lines[n])
  <2>1. CASE n = 0
    BY <1>4, <2>1
  <2>2. CASE n # 0
    <3>1. n \in Nat \ {0} /\ n \in 1..N /\ n - 1 \in Nat /\ n - 1 \in 0..N
      BY <1>1, <2>2
    <3>2. f[n] = step[n][f[n - 1]] /\ f[n - 1] \in C
      BY <1>4, <3>1
    <3>3. step[n][f[n - 1]] = IF badLine(lines[n]) THEN f[n - 1] ELSE applyLine(f[n - 1], lines[n])
      BY <3>1, <3>2
    <3> HIDE DEF step
    <3> QED BY <2>2, <3>1, <3>2, <3>3
  <2> QED BY <2>1, <2>2
<1>6. g = [n \in 0..N |-> g[n]]
  OBVIOUS
<1> HIDE DEF g, step
<1>7. Loads(g, flags, lines)
  BY <1>5, <1>6 DEF Loads
<1> DEFINE h == CHOOSE f1 : Loads(f1, flags, lines)
<1>8. Loads(h, flags, lines)
  BY <1>7
<1>9. LoadConfigFile(flags, lines).cfg = h[Len(lines)]
  BY DEF LoadConfigFile, Loads
<1> QED BY <1>8, <1>9

\* m is the last of the first n lines that sets k, or 0 if none does.
IsLast(lines, k, m, n) ==
  /\ m \in 0..n
  /\ m > 0 => lines[m].key = k
  /\ \A l \in m + 1..n : lines[l].key # k

\* What a line m, or the flags if m is 0, says of setting k.
Says(flags, lines, k, m) == IF m > 0 THEN lines[m].val ELSE flags[k]

\* c is what the flags and the first n lines make of the configuration.
LoadedAs(c, flags, lines, n) ==
  /\ c = [k \in FileKeys |-> c[k]]
  /\ \A k \in FileKeys \ {"auth", "maxmemory-policy"} : \A m \in 0..n :
       IsLast(lines, k, m, n) => c[k] = Says(flags, lines, k, m)
  /\ \A m \in 0..n : IsLast(lines, "maxmemory-policy", m, n) =>
       c["maxmemory-policy"] = IF m > 0 THEN ParseEvictionPolicy[lines[m].val]
                               ELSE flags["maxmemory-policy"]
  /\ \A m, s \in 0..n : IsLast(lines, "auth", m, n) /\ IsLast(lines, "seed", s, n) =>
       c["auth"] = (Says(flags, lines, "auth", m) \/ s > m)

\* The last line of a longer file.
LEMMA LastOfMore ==
  ASSUME NEW lines, NEW k, NEW n \in Nat, NEW m \in 0..n + 1, IsLast(lines, k, m, n + 1)
  PROVE  IF lines[n + 1].key = k THEN m = n + 1 ELSE m \in 0..n /\ IsLast(lines, k, m, n)
<1>1. CASE lines[n + 1].key = k
  <2>1. n + 1 \notin m + 1..n + 1
    BY <1>1 DEF IsLast
  <2> QED BY <1>1, <2>1
<1>2. CASE lines[n + 1].key # k
  <2>1. m # n + 1
    BY <1>2 DEF IsLast
  <2>2. m \in 0..n /\ \A l \in m + 1..n : l \in m + 1..n + 1
    BY <2>1
  <2> QED BY <1>2, <2>2 DEF IsLast
<1> QED BY <1>1, <1>2

\* One more line.
LEMMA LoadedMore ==
  ASSUME NEW flags, NEW lines, NEW n \in Nat, NEW c, LoadedAs(c, flags, lines, n),
         ~badLine(lines[n + 1]), lines[n + 1].key = "auth" => lines[n + 1].val \in BOOLEAN
  PROVE  LoadedAs(applyLine(c, lines[n + 1]), flags, lines, n + 1)
<1> DEFINE l == lines[n + 1]
           d == applyLine(c, l)
<1>1. c = [k \in FileKeys |-> c[k]]
  BY DEF LoadedAs
<1>2. "auth" \in FileKeys /\ "seed" \in FileKeys /\ "maxmemory-policy" \in FileKeys
  BY DEF FileKeys, BoolKeys, NamedKeys
<1> HIDE DEF l
<1>3. /\ d = [k \in FileKeys |-> d[k]]
      /\ \A k \in FileKeys \ {"auth", "maxmemory-policy"} : d[k] = IF l.key = k THEN l.val ELSE c[k]
      /\ d["maxmemory-policy"] = IF l.key = "maxmemory-policy" THEN ParseEvictionPolicy[l.val]
                                 ELSE c["maxmemory-policy"]
      /\ d["auth"] = IF l.key = "auth" THEN l.val ELSE IF l.key = "seed" THEN TRUE ELSE c["auth"]
  <2>1. CASE l.key = "seed"
    <3>1. d = [c EXCEPT !["seed"] = l.val, !["auth"] = TRUE]
      BY <2>1 DEF applyLine
    <3> HIDE DEF d
    <3> QED BY <1>1, <1>2, <2>1, <3>1
  <2>2. CASE l.key = "maxmemory-policy"
    <3>1. d = [c EXCEPT !["maxmemory-policy"] = ParseEvictionPolicy[l.val]]
      BY <2>2 DEF applyLine
    <3> HIDE DEF d
    <3> QED BY <1>1, <1>2, <2>2, <3>1
  <2>3. CASE l.key \in FileKeys \ {"seed", "maxmemory-policy"}
    <3>1. d = [c EXCEPT ![l.key] = l.val]
      BY <2>3 DEF applyLine
    <3> HIDE DEF d
    <3> QED BY <1>1, <1>2, <2>3, <3>1
  <2>4. CASE l.key \notin FileKeys
    <3>1. l.key # "seed" /\ l.key # "maxmemory-policy" /\ l.key # "auth"
      BY <1>2, <2>4
    <3>2. d = c
      BY <2>4, <3>1 DEF applyLine
    <3> HIDE DEF d
    <3> QED BY <1>1, <2>4, <3>1, <3>2
  <2> QED BY <2>1, <2>2, <2>3, <2>4
<1> HIDE DEF d
<1>4. ASSUME NEW k \in FileKeys \ {"auth", "maxmemory-policy"}, NEW m \in 0..n + 1,
             IsLast(lines, k, m, n + 1)
      PROVE  d[k] = Says(flags, lines, k, m)
  <2>1. CASE l.key = k
    <3>1. m = n + 1 /\ m > 0
      BY <1>4, <2>1, LastOfMore DEF l
    <3> QED BY <1>3, <2>1, <3>1 DEF Says, l
  <2>2. CASE l.key # k
    <3>1. m \in 0..n /\ IsLast(lines, k, m, n)
      BY <1>4, <2>2, LastOfMore DEF l
    <3>2. c[k] = Says(flags, lines, k, m)
      BY <3>1 DEF LoadedAs
    <3> QED BY <1>3, <2>2, <3>2
  <2> QED BY <2>1, <2>2
<1>5. ASSUME NEW m \in 0..n + 1, IsLast(lines, "maxmemory-policy", m, n + 1)
      PROVE  d["maxmemory-policy"] = IF m > 0 THEN ParseEvictionPolicy[lines[m].val]
                                     ELSE flags["maxmemory-policy"]
  <2>1. CASE l.key = "maxmemory-policy"
    <3>1. m = n + 1 /\ m > 0
      BY <1>5, <2>1, LastOfMore DEF l
    <3> QED BY <1>3, <2>1, <3>1 DEF l
  <2>2. CASE l.key # "maxmemory-policy"
    <3>1. m \in 0..n /\ IsLast(lines, "maxmemory-policy", m, n)
      BY <1>5, <2>2, LastOfMore DEF l
    <3>2. c["maxmemory-policy"] = IF m > 0 THEN ParseEvictionPolicy[lines[m].val]
                                  ELSE flags["maxmemory-policy"]
      BY <3>1 DEF LoadedAs
    <3> QED BY <1>3, <2>2, <3>2
  <2> QED BY <2>1, <2>2
<1>6. ASSUME NEW m \in 0..n + 1, NEW s \in 0..n + 1,
             IsLast(lines, "auth", m, n + 1), IsLast(lines, "seed", s, n + 1)
      PROVE  d["auth"] = (Says(flags, lines, "auth", m) \/ s > m)
  <2>1. CASE l.key = "auth"
    <3>1. m = n + 1 /\ m > 0 /\ s \in 0..n /\ ~(s > m)
      <4>1. m = n + 1
        BY <1>6, <2>1, LastOfMore DEF l
      <4>2. l.key # "seed"
        BY <2>1
      <4>3. s \in 0..n
        BY <1>6, <4>2, LastOfMore DEF l
      <4> QED BY <4>1, <4>3
    <3>2. d["auth"] = lines[m].val /\ lines[m].val \in BOOLEAN /\ Says(flags, lines, "auth", m) = lines[m].val
      BY <1>3, <2>1, <3>1 DEF Says, l
    <3> QED BY <3>1, <3>2
  <2>2. CASE l.key = "seed"
    <3>1. s = n + 1 /\ m \in 0..n /\ s > m
      <4>1. s = n + 1
        BY <1>6, <2>2, LastOfMore DEF l
      <4>2. l.key # "auth"
        BY <2>2
      <4>3. m \in 0..n
        BY <1>6, <4>2, LastOfMore DEF l
      <4> QED BY <4>1, <4>3
    <3>2. d["auth"] = TRUE
      BY <1>3, <2>2
    <3> QED BY <3>1, <3>2
  <2>3. CASE l.key # "auth" /\ l.key # "seed"
    <3>1. /\ m \in 0..n /\ IsLast(lines, "auth", m, n)
          /\ s \in 0..n /\ IsLast(lines, "seed", s, n)
      BY <1>6, <2>3, LastOfMore DEF l
    <3>2. c["auth"] = (Says(flags, lines, "auth", m) \/ s > m)
      BY <3>1 DEF LoadedAs
    <3> QED BY <1>3, <2>3, <3>2
  <2> QED BY <2>1, <2>2, <2>3
<1>7. LoadedAs(d, flags, lines, n + 1)
  BY <1>3, <1>4, <1>5, <1>6 DEF LoadedAs
<1> QED BY <1>7 DEF d, l

\* A file without a bad line is loaded line by line.
LEMMA FileLoaded ==
  ASSUME NEW flags, flags = [k \in FileKeys |-> flags[k]], flags["auth"] \in BOOLEAN,
         NEW lines, Lines(lines),
         \A m \in DOMAIN lines : /\ lines[m].key = "auth" => lines[m].val \in BOOLEAN
                                 /\ ~badLine(lines[m])
  PROVE  LoadedAs(LoadConfigFile(flags, lines).cfg, flags, lines, Len(lines))
<1> DEFINE N == Len(lines)
<1>1. PICK f : Loads(f, flags, lines) /\ f[Len(lines)] = LoadConfigFile(flags, lines).cfg
  BY LoadsExist
<1>2. N \in Nat /\ DOMAIN lines = 1..N
  BY DEF Lines
<1>3. \A n \in 0..N : f[n] = IF n = 0 THEN flags
                             ELSE IF badLine(lines[n]) THEN f[n - 1] ELSE applyLine(f[n - 1], lines[n])
  BY <1>1 DEF Loads
<1> DEFINE D == {n \in 0..N : ~LoadedAs(f[n], flags, lines, n)}
<1>4. D = {}
  <2> SUFFICES ASSUME D # {} PROVE FALSE
    OBVIOUS
  <2>1. PICK n \in D : \A m \in D : n <= m
    <3>1. D \subseteq Nat
      BY <1>2
    <3> HIDE DEF D
    <3> QED BY <3>1, LeastNatural
  <2>2. n \in 0..N /\ ~LoadedAs(f[n], flags, lines, n)
    OBVIOUS
  <2>3. CASE n = 0
    <3>1. f[n] = flags
      BY <1>3, <2>2, <2>3
    <3>2. \A m \in 0..n : m = 0 /\ ~(m > 0)
      BY <2>3
    <3>3. \A m, s \in 0..n : ~(s > m)
      BY <2>3
    <3> QED BY <2>2, <3>1, <3>2, <3>3 DEF LoadedAs, Says
  <2>4. CASE n # 0
    <3>1. n - 1 \in Nat /\ n - 1 \in 0..N /\ (n - 1) + 1 = n /\ n \in 1..N /\ ~(n <= n - 1)
      BY <1>2, <2>2, <2>4
    <3>2. LoadedAs(f[n - 1], flags, lines, n - 1)
      <4>1. n - 1 \notin D
        BY <2>1, <3>1
      <4> QED BY <3>1, <4>1
    <3>3. ~badLine(lines[n]) /\ (lines[n].key = "auth" => lines[n].val \in BOOLEAN)
      BY <1>2, <3>1
    <3>4. f[n] = applyLine(f[n - 1], lines[n])
      BY <1>3, <2>2, <2>4, <3>3
    <3>5. LoadedAs(applyLine(f[n - 1], lines[(n - 1) + 1]), flags, lines, (n - 1) + 1)
      <4> DEFINE p == n - 1
      <4>1. p \in Nat /\ LoadedAs(f[p], flags, lines, p) /\ p + 1 = n
        BY <3>1, <3>2
      <4> HIDE DEF p
      <4>2. LoadedAs(applyLine(f[p], lines[p + 1]), flags, lines, p + 1)
        BY <3>3, <4>1, LoadedMore
      <4> QED BY <4>2 DEF p
    <3> QED BY <2>2, <3>1, <3>4, <3>5
  <2> QED BY <2>3, <2>4
<1>5. N \in 0..N
  BY <1>2
<1>6. LoadedAs(f[N], flags, lines, N)
  BY <1>4, <1>5
<1> QED BY <1>1, <1>6

\* LastLine is the last line, and Asked what it says.
LEMMA LastLineIs ==
  ASSUME Lines(start.lines), NEW k
  PROVE  /\ LastLine(k) \in 0..Len(start.lines)
         /\ IsLast(start.lines, k, LastLine(k), Len(start.lines))
<1> DEFINE lines == start.lines
           N == Len(lines)
           sets == {n \in DOMAIN lines : lines[n].key = k}
           m == IF sets = {} THEN 0 ELSE CHOOSE n \in sets : \A j \in sets : j <= n
<1>1. N \in Nat /\ DOMAIN lines = 1..N
  BY DEF Lines
<1>2. LastLine(k) = m
  BY DEF LastLine
<1>3. CASE sets = {}
  <2>1. LastLine(k) = 0
    BY <1>2, <1>3
  <2>2. \A l \in 0 + 1..N : lines[l].key # k
    BY <1>1, <1>3
  <2>3. 0 \in 0..N /\ ~(0 > 0)
    BY <1>1
  <2> HIDE DEF lines, N, sets, m
  <2>4. IsLast(lines, k, 0, N)
    BY <2>2, <2>3 DEF IsLast
  <2> QED BY <2>1, <2>3, <2>4 DEF lines, N
<1>4. CASE sets # {}
  <2>1. sets \subseteq 1..N
    BY <1>1
  <2>2. \E n \in sets : \A j \in sets : j <= n
    BY <1>1, <1>4, <2>1, LastPosition
  <2>3. m \in sets /\ \A j \in sets : j <= m
    BY <1>4, <2>2
  <2>4. m \in 1..N /\ lines[m].key = k
    BY <2>1, <2>3
  <2>5. ASSUME NEW l \in m + 1..N PROVE lines[l].key # k
    <3> HIDE DEF m, sets, N
    <3>1. l \in 1..N /\ ~(l <= m)
      BY <1>1, <2>4
    <3> QED BY <1>1, <2>3, <3>1 DEF sets
  <2> HIDE DEF m, sets
  <2>6. m \in 0..N
    BY <1>1, <2>4
  <2> QED BY <1>2, <2>4, <2>5, <2>6 DEF IsLast
<1> QED BY <1>3, <1>4

\* The names of policies, parsed.
LEMMA PoliciesParsed ==
  /\ \A p \in Policies : ParseEvictionPolicy[p] = p
  /\ \A p \in DOMAIN ParseEvictionPolicy :
       /\ ParseEvictionPolicy[p] # "noeject" => ParseEvictionPolicy[p] = p
       /\ ParseEvictionPolicy[p] \in Policies
BY DEF ParseEvictionPolicy, Policies

\* What NewServer makes of a configuration.
LEMMA FilledIn ==
  ASSUME NEW c, c = [k \in FileKeys |-> c[k]]
  PROVE  /\ \A k \in FileKeys \ {"maxmemory", "maxmemory-policy"} : NewServer(c)[k] = c[k]
         /\ NewServer(c)["maxmemory"] = IF c["maxmemory"] = 0 THEN 2^30 ELSE c["maxmemory"]
         /\ NewServer(c)["maxmemory-policy"] =
              IF c["maxmemory-policy"] = "noeject" THEN "allkeys-random" ELSE c["maxmemory-policy"]
<1> DEFINE a == IF c["maxmemory"] = 0 THEN 2^30 ELSE c["maxmemory"]
           b == IF c["maxmemory-policy"] = "noeject" THEN "allkeys-random" ELSE c["maxmemory-policy"]
           d == [[c EXCEPT !["maxmemory"] = a] EXCEPT !["maxmemory-policy"] = b]
<1>1. NewServer(c) = d
  BY DEF NewServer, ValidateAndFill
<1>2. "maxmemory" \in FileKeys /\ "maxmemory-policy" \in FileKeys
  BY DEF FileKeys, NumberKeys, NamedKeys
<1> HIDE DEF a, b
<1>3. /\ \A k \in FileKeys \ {"maxmemory", "maxmemory-policy"} : d[k] = c[k]
      /\ d["maxmemory"] = a /\ d["maxmemory-policy"] = b
  BY <1>2
<1> HIDE DEF d
<1> QED BY <1>1, <1>3 DEF a, b

\* An embedding program's configuration.
LEMMA EmbeddedHonoured ==
  ASSUME \E n \in DOMAIN Starts : start = Starts[n],
         start.how # "main", cfg = NewServer(start.flags), mode = "standard"
  PROVE  SettingsHonoured
<1> DEFINE flags == start.flags
<1>1. /\ flags = [k \in FileKeys |-> flags[k]]
      /\ flags["auth"] \in BOOLEAN /\ flags["maxmemory-policy"] \in Policies
  BY StartsAssumption
<1> HIDE DEF flags
<1>2. /\ \A k \in FileKeys \ {"maxmemory", "maxmemory-policy"} : cfg[k] = flags[k]
      /\ cfg["maxmemory"] = IF flags["maxmemory"] = 0 THEN 2^30 ELSE flags["maxmemory"]
      /\ cfg["maxmemory-policy"] =
           IF flags["maxmemory-policy"] = "noeject" THEN "allkeys-random" ELSE flags["maxmemory-policy"]
  BY <1>1, FilledIn DEF flags
<1>3. \A k : Asked(k) = flags[k]
  BY DEF Asked, flags
<1>4. ParseEvictionPolicy[flags["maxmemory-policy"]] = flags["maxmemory-policy"]
  BY <1>1, PoliciesParsed
<1>5. "auth" \in FileKeys \ {"maxmemory", "maxmemory-policy"}
  BY DEF FileKeys, BoolKeys
<1>6. AuthEnabled = Asked("auth") /\ Asked("auth") \in BOOLEAN
  BY <1>1, <1>2, <1>3, <1>5 DEF AuthEnabled
<1>7. AuthEnabled = (Asked("auth") \/ (start.how = "main" /\ LastLine("seed") > LastLine("auth")))
  BY <1>6
<1> QED BY <1>2, <1>3, <1>4, <1>7 DEF SettingsHonoured

\* The configuration of a server that main has started.
LEMMA MainHonoured ==
  ASSUME \E n \in DOMAIN Starts : start = Starts[n], start.how = "main", mode # "refused",
         LET run == main(start.flags, start.flagsOk, start.lines, start.eventloop, allow)
         IN  cfg = run.cfg /\ mode = run.mode
  PROVE  SettingsHonoured
<1> DEFINE flags == start.flags
           lines == start.lines
           file == LoadConfigFile(flags, lines)
           c == file.cfg
           N == Len(lines)
<1>1. /\ flags = [k \in FileKeys |-> flags[k]]
      /\ flags["auth"] \in BOOLEAN /\ flags["maxmemory-policy"] \in Policies
      /\ Lines(lines)
      /\ \A m \in DOMAIN lines :
           /\ lines[m].key = "auth" => lines[m].val \in BOOLEAN
           /\ lines[m].key = "maxmemory-policy" /\ lines[m].ok
                => lines[m].val \in DOMAIN ParseEvictionPolicy
  BY StartsAssumption DEF Lines
<1>2. /\ cfg = NewServer(c)
      /\ ~file.err /\ ~ValidateAndFill(c).err
      /\ mode = "eventloop" => ~eventLoopRefuses(cfg, allow)
  <2>1. cfg = NewServer(c)
    BY DEF main
  <2>2. mode = IF ~start.flagsOk \/ file.err \/ ValidateAndFill(c).err THEN "refused"
               ELSE IF ~start.eventloop THEN "standard"
               ELSE IF eventLoopRefuses(cfg, allow) THEN "refused" ELSE "eventloop"
    BY <2>1 DEF main
  <2> HIDE DEF file, c
  <2> QED BY <2>1, <2>2
<1>3. \A m \in DOMAIN lines : ~badLine(lines[m])
  BY <1>2 DEF LoadConfigFile
<1>4. LoadedAs(c, flags, lines, N)
  BY <1>1, <1>3, FileLoaded
<1>5. \A k : LastLine(k) \in 0..N /\ IsLast(lines, k, LastLine(k), N)
  BY <1>1, LastLineIs
<1>6. \A k : Asked(k) = Says(flags, lines, k, LastLine(k))
  BY DEF Asked, Says
<1>7. N \in Nat /\ DOMAIN lines = 1..N
  BY <1>1 DEF Lines
<1>8. ~(c["auth"] /\ c["requirepass"] = "")
  BY <1>2 DEF ValidateAndFill
<1>9. mode = "eventloop" => allow = {} /\ cfg["tls-cert"] = ""
  BY <1>2 DEF eventLoopRefuses
<1> HIDE DEF file, c, flags, lines, N
<1>10. /\ \A k \in FileKeys \ {"auth", "maxmemory-policy"} : c[k] = Asked(k)
       /\ c["auth"] = (Asked("auth") \/ LastLine("seed") > LastLine("auth"))
  BY <1>4, <1>5, <1>6 DEF LoadedAs
<1>11. c["maxmemory-policy"] = ParseEvictionPolicy[Asked("maxmemory-policy")]
       /\ Asked("maxmemory-policy") \in DOMAIN ParseEvictionPolicy
  <2> DEFINE m == LastLine("maxmemory-policy")
  <2>1. m \in 0..N /\ IsLast(lines, "maxmemory-policy", m, N)
    BY <1>5
  <2> HIDE DEF m
  <2>2. c["maxmemory-policy"] = IF m > 0 THEN ParseEvictionPolicy[lines[m].val]
                                ELSE flags["maxmemory-policy"]
    BY <1>4, <2>1 DEF LoadedAs
  <2>3. Asked("maxmemory-policy") = Says(flags, lines, "maxmemory-policy", m)
    BY <1>6 DEF m
  <2>4. CASE m > 0
    <3>1. m \in DOMAIN lines /\ lines[m].key = "maxmemory-policy"
      BY <1>7, <2>1, <2>4 DEF IsLast
    <3>2. lines[m].ok
      <4>1. ~badLine(lines[m])
        BY <1>3, <3>1
      <4> QED BY <3>1, <4>1 DEF badLine, NamedKeys
    <3> QED BY <1>1, <2>2, <2>3, <2>4, <3>1, <3>2 DEF Says
  <2>5. CASE ~(m > 0)
    <3>1. flags["maxmemory-policy"] \in DOMAIN ParseEvictionPolicy
      BY <1>1 DEF ParseEvictionPolicy
    <3> QED BY <1>1, <2>2, <2>3, <2>5, <3>1, PoliciesParsed DEF Says
  <2> QED BY <2>4, <2>5
<1>12. c = [k \in FileKeys |-> c[k]]
  BY <1>4 DEF LoadedAs
<1>13. /\ \A k \in FileKeys \ {"maxmemory", "maxmemory-policy"} : cfg[k] = c[k]
       /\ cfg["maxmemory"] = IF c["maxmemory"] = 0 THEN 2^30 ELSE c["maxmemory"]
       /\ cfg["maxmemory-policy"] =
            IF c["maxmemory-policy"] = "noeject" THEN "allkeys-random" ELSE c["maxmemory-policy"]
  BY <1>2, <1>12, FilledIn
<1>14. /\ "auth" \in FileKeys \ {"maxmemory", "maxmemory-policy"}
       /\ "requirepass" \in FileKeys \ {"maxmemory", "maxmemory-policy"}
       /\ "maxmemory" \in FileKeys \ {"auth", "maxmemory-policy"}
  BY DEF FileKeys, BoolKeys, TextKeys, NumberKeys
<1>15. \A k \in FileKeys \ {"auth", "maxmemory", "maxmemory-policy"} : cfg[k] = Asked(k)
  BY <1>10, <1>13
<1>16. AuthEnabled = (Asked("auth") \/ (start.how = "main" /\ LastLine("seed") > LastLine("auth")))
  BY <1>10, <1>13, <1>14 DEF AuthEnabled
<1>17. cfg["maxmemory"] = IF Asked("maxmemory") = 0 THEN 2^30 ELSE Asked("maxmemory")
  BY <1>10, <1>13, <1>14
<1>18. cfg["maxmemory-policy"] =
         IF ParseEvictionPolicy[Asked("maxmemory-policy")] = "noeject" THEN "allkeys-random"
         ELSE Asked("maxmemory-policy")
  BY <1>11, <1>13, PoliciesParsed
<1>19. ~(AuthEnabled /\ Password = "")
  BY <1>8, <1>13, <1>14 DEF AuthEnabled, Password
<1> QED BY <1>9, <1>15, <1>16, <1>17, <1>18, <1>19 DEF SettingsHonoured

\* However a server is started, it runs with the settings it was given last,
\* or not at all, for any flags and any lines of the file.
THEOREM SettingsCorrect == Spec => []SettingsHonoured
<1>1. Init => SettingsHonoured
  <2> SUFFICES ASSUME Init PROVE SettingsHonoured
    OBVIOUS
  <2>1. CASE mode = "refused"
    BY <2>1 DEF SettingsHonoured
  <2>2. CASE mode # "refused" /\ start.how = "main"
    <3>1. \E n \in DOMAIN Starts : start = Starts[n]
      BY DEF Init
    <3>2. LET run == main(start.flags, start.flagsOk, start.lines, start.eventloop, allow)
          IN  cfg = run.cfg /\ mode = run.mode
      BY <2>2 DEF Init
    <3> QED BY <2>2, <3>1, <3>2, MainHonoured
  <2>3. CASE start.how # "main"
    BY <2>3, EmbeddedHonoured DEF Init
  <2> QED BY <2>1, <2>2, <2>3
<1>2. SettingsHonoured /\ [Next]_vars => SettingsHonoured'
  <2> SUFFICES ASSUME SettingsHonoured, [Next]_vars PROVE SettingsHonoured'
    OBVIOUS
  <2>1. UNCHANGED server
    BY DEF Next, Client, Handler, Reader, Dial, Forget, Hangup, Accept, begin, eof, forward, countOff,
           Close, parseError, refuse, AUTH, REPL, SUBSCRIBE, execute, replicaRead, MIGRATE, migrated,
           vars
  <2>2. start' = start /\ cfg' = cfg /\ allow' = allow /\ mode' = mode
    BY <2>1 DEF server
  <2>3. \A k : Asked(k)' = Asked(k) /\ LastLine(k)' = LastLine(k)
    BY <2>2 DEF Asked, LastLine
  <2> QED BY <2>2, <2>3 DEF SettingsHonoured, AuthEnabled, Password
<1> QED BY <1>1, <1>2, PTL DEF Spec
-----------------------------------------------------------------------------
(* The other way to serve connections: the event loops.                    *)

\* The records of the clients and of the loop keep their fields, the kernel
\* never holds more replies than it has room for, a write buffer is a
\* sequence, and writing is enabled for all connections with replies in it,
\* not only for the open ones.
LoopShape ==
  /\ client = [i \in Peers |-> client[i]]
  /\ state = [i \in Peers |-> state[i]]
  /\ connections \in [Fds -> Peers \union {0}]
  /\ \A i \in Peers :
       /\ DOMAIN client[i] = {"phase", "sent", "gone", "unread", "received"}
       /\ DOMAIN state[i] = {"buffer", "got", "writeBuffer", "writeEnabled", "authed"}
       /\ client[i].unread \in 0..SockBuf
       /\ \E S : state[i].writeBuffer \in Seq(S)
       /\ state[i].writeBuffer # <<>> => state[i].writeEnabled

LoopInv == LoopShape /\ NoneForgotten

\* A client acts: its phase is not one the loop has anything to do with.
LEMMA ClientStep ==
  ASSUME LoopInv, NEW i \in Peers, NEW c,
         client' = [client EXCEPT ![i] = c], UNCHANGED <<state, connections>>,
         DOMAIN c = {"phase", "sent", "gone", "unread", "received"},
         c.unread \in 0..SockBuf,
         c.phase = "open" <=> client[i].phase = "open"
  PROVE  LoopInv'
<1>1. \A j \in Peers : client'[j] = IF j = i THEN c ELSE client[j]
  BY DEF LoopInv, LoopShape
<1>2. LoopShape'
  <2>1. client' = [j \in Peers |-> client'[j]]
    BY DEF LoopInv, LoopShape
  <2> QED BY <1>1, <2>1 DEF LoopInv, LoopShape
<1>3. \A j \in Peers : client'[j].phase = "open" <=> client[j].phase = "open"
  BY <1>1
<1>4. \A fd \in Open : connections[fd] \in Peers
  BY DEF LoopInv, LoopShape, Open
<1>5. NoneForgotten'
  BY <1>3, <1>4 DEF LoopInv, NoneForgotten, Open
<1> QED BY <1>2, <1>5 DEF LoopInv

\* The loop changes the state it keeps for a connection.
LEMMA StateStep ==
  ASSUME LoopInv, NEW i \in Peers, NEW s,
         state' = [state EXCEPT ![i] = s], UNCHANGED <<client, connections>>,
         DOMAIN s = {"buffer", "got", "writeBuffer", "writeEnabled", "authed"},
         \E S : s.writeBuffer \in Seq(S),
         s.writeBuffer # <<>> => s.writeEnabled
  PROVE  LoopInv'
<1>1. \A j \in Peers : state'[j] = IF j = i THEN s ELSE state[j]
  BY DEF LoopInv, LoopShape
<1>2. LoopShape'
  <2>1. state' = [j \in Peers |-> state'[j]]
    BY DEF LoopInv, LoopShape
  <2> QED BY <1>1, <2>1 DEF LoopInv, LoopShape
<1>3. NoneForgotten'
  BY <1>1 DEF LoopInv, NoneForgotten, Open
<1> QED BY <1>2, <1>3 DEF LoopInv

\* A step that concerns only the events.
LEMMA QuietStep ==
  ASSUME LoopInv, UNCHANGED <<client, state, connections>>
  PROVE  LoopInv'
<1>1. LoopShape'
  BY DEF LoopInv, LoopShape
<1>2. NoneForgotten'
  BY DEF LoopInv, NoneForgotten, Open
<1> QED BY <1>1, <1>2 DEF LoopInv

\* The clients' steps.
LEMMA ClientsStep == ASSUME LoopInv, Clients PROVE LoopInv'
<1>0. \A i \in Peers :
        /\ DOMAIN client[i] = {"phase", "sent", "gone", "unread", "received"}
        /\ client[i].unread \in 0..SockBuf
  BY DEF LoopInv, LoopShape
<1>1. ASSUME NEW i \in Peers, Connect(i) PROVE LoopInv'
  <2> DEFINE c == [client[i] EXCEPT !.phase = "waiting"]
  <2>1. client' = [client EXCEPT ![i] = c] /\ UNCHANGED <<state, connections>>
    BY <1>1 DEF Connect
  <2>2. /\ DOMAIN c = {"phase", "sent", "gone", "unread", "received"}
        /\ c.unread \in 0..SockBuf /\ c.phase = "waiting" /\ client[i].phase = "away"
    BY <1>0, <1>1 DEF Connect
  <2> HIDE DEF c
  <2> QED BY <2>1, <2>2, ClientStep
<1>2. ASSUME NEW i \in Peers, NEW n, Send(i, n) PROVE LoopInv'
  <2> DEFINE c == [client[i] EXCEPT !.sent = n]
  <2>1. client' = [client EXCEPT ![i] = c] /\ UNCHANGED <<state, connections>>
    BY <1>2 DEF Send
  <2>2. /\ DOMAIN c = {"phase", "sent", "gone", "unread", "received"}
        /\ c.unread \in 0..SockBuf /\ c.phase = client[i].phase
    BY <1>0
  <2> HIDE DEF c
  <2> QED BY <2>1, <2>2, ClientStep
<1>3. ASSUME NEW i \in Peers, Receive(i) PROVE LoopInv'
  <2> DEFINE c == [client[i] EXCEPT !.unread = client[i].unread - 1]
  <2>1. client' = [client EXCEPT ![i] = c] /\ UNCHANGED <<state, connections>>
    BY <1>3 DEF Receive
  <2>2. client[i].unread - 1 \in 0..SockBuf
    BY <1>0, <1>3, EventLoopAssumption DEF Receive
  <2>3. /\ DOMAIN c = {"phase", "sent", "gone", "unread", "received"}
        /\ c.unread \in 0..SockBuf /\ c.phase = client[i].phase
    BY <1>0, <2>2
  <2> HIDE DEF c
  <2> QED BY <2>1, <2>3, ClientStep
<1>4. ASSUME NEW i \in Peers, NEW how, Leave(i, how) PROVE LoopInv'
  <2> DEFINE c == [client[i] EXCEPT !.gone = how]
  <2>1. client' = [client EXCEPT ![i] = c] /\ UNCHANGED <<state, connections>>
    BY <1>4 DEF Leave
  <2>2. /\ DOMAIN c = {"phase", "sent", "gone", "unread", "received"}
        /\ c.unread \in 0..SockBuf /\ c.phase = client[i].phase
    BY <1>0
  <2> HIDE DEF c
  <2> QED BY <2>1, <2>2, ClientStep
<1> QED BY <1>1, <1>2, <1>3, <1>4 DEF Clients

\* A connection is accepted under a descriptor that is free.
LEMMA AcceptStep ==
  ASSUME LoopInv, NEW i \in Peers, accept(i)
  PROVE  LoopInv'
<1> DEFINE free == Fds \ Open
           fd == Min(free)
           c == [client[i] EXCEPT !.phase = "open"]
           a == IF poller = "epoll" THEN authedLinux ELSE authedDarwin
           s == [state[i] EXCEPT !.authed = a]
<1>1. /\ client[i].phase = "waiting"
      /\ free # {}
      /\ connections' = [connections EXCEPT ![fd] = i]
      /\ client' = [client EXCEPT ![i] = c]
      /\ state' = [state EXCEPT ![i] = s]
  <2>1. client[i].phase = "waiting" /\ Open # Fds
    BY DEF accept, Waiting
  <2>2. free # {}
    BY <2>1 DEF Open
  <2>3. /\ connections' = [connections EXCEPT ![fd] = i]
        /\ client' = [client EXCEPT ![i] = c]
        /\ state' = [state EXCEPT ![i] = s]
    BY DEF accept
  <2> QED BY <2>1, <2>2, <2>3
<1>2. fd \in Fds /\ fd \notin Open
  <2>1. free \subseteq Nat
    BY EventLoopAssumption
  <2>2. PICK x \in free : \A y \in free : x <= y
    BY <1>1, <2>1, LeastNatural
  <2>3. fd \in free
    BY <2>2 DEF Min
  <2> QED BY <2>3
<1>3. connections[fd] = 0 /\ i # 0
  BY <1>2, EventLoopAssumption DEF Open
<1>4. /\ DOMAIN c = {"phase", "sent", "gone", "unread", "received"}
      /\ c.unread \in 0..SockBuf
      /\ c.phase = "open"
  BY DEF LoopInv, LoopShape
<1>5. /\ DOMAIN s = {"buffer", "got", "writeBuffer", "writeEnabled", "authed"}
      /\ s.writeBuffer = state[i].writeBuffer
      /\ s.writeEnabled = state[i].writeEnabled
  BY DEF LoopInv, LoopShape
<1> HIDE DEF fd, c, s
<1>6. /\ \A j \in Peers : client'[j] = IF j = i THEN c ELSE client[j]
      /\ \A j \in Peers : state'[j] = IF j = i THEN s ELSE state[j]
      /\ \A d \in Fds : connections'[d] = IF d = fd THEN i ELSE connections[d]
      /\ connections' \in [Fds -> Peers \union {0}]
      /\ client' = [j \in Peers |-> client'[j]]
      /\ state' = [j \in Peers |-> state'[j]]
  BY <1>1, <1>2 DEF LoopInv, LoopShape
<1>7. LoopShape'
  BY <1>4, <1>5, <1>6 DEF LoopInv, LoopShape
<1>8. Open' = Open \union {fd}
  BY <1>2, <1>3, <1>6 DEF Open
<1>9. \A d \in Open : d \in Fds /\ d # fd /\ connections[d] \in Peers /\ connections[d] # i
  <2>1. \A d \in Open : d \in Fds /\ connections[d] \in Peers
    BY DEF LoopInv, LoopShape, Open
  <2>2. \A d \in Open : client[connections[d]].phase = "open"
    BY DEF LoopInv, NoneForgotten
  <2> QED BY <1>1, <1>2, <2>1, <2>2
<1>10. NoneForgotten'
  <2>1. \A d \in Open' : client'[connections'[d]].phase = "open"
    BY <1>2, <1>4, <1>6, <1>8, <1>9 DEF LoopInv, NoneForgotten
  <2>2. \A d, other \in Open' : connections'[d] = connections'[other] => d = other
    BY <1>2, <1>6, <1>8, <1>9 DEF LoopInv, NoneForgotten
  <2>3. ASSUME NEW j \in Peers, client'[j].phase = "open"
        PROVE  \E d \in Open' : connections'[d] = j
    <3>1. CASE j = i
      BY <1>2, <1>6, <1>8, <3>1
    <3>2. CASE j # i
      <4>1. PICK d \in Open : connections[d] = j
        BY <1>6, <2>3, <3>2 DEF LoopInv, NoneForgotten
      <4> QED BY <1>6, <1>8, <1>9, <4>1
    <3> QED BY <3>1, <3>2
  <2>4. \A j \in Peers : state'[j].writeBuffer # <<>> => state'[j].writeEnabled
    BY <1>7 DEF LoopShape
  <2> QED BY <2>1, <2>2, <2>3, <2>4 DEF NoneForgotten
<1> QED BY <1>7, <1>10 DEF LoopInv

\* A connection is closed together with its descriptor.
LEMMA CloseStep ==
  ASSUME LoopInv, event.fd \in Open, close
  PROVE  LoopInv'
<1> DEFINE fd == event.fd
           i == connections[fd]
           c == [client[i] EXCEPT !.phase = "closed"]
<1>1. /\ connections' = [connections EXCEPT ![fd] = 0]
      /\ client' = [client EXCEPT ![i] = c]
      /\ state' = state
  BY DEF close, Current
<1>2. fd \in Fds /\ fd \in Open /\ i \in Peers /\ i # 0 /\ i = connections[fd]
  BY DEF LoopInv, LoopShape, Open
<1>3. /\ DOMAIN c = {"phase", "sent", "gone", "unread", "received"}
      /\ c.unread \in 0..SockBuf
      /\ c.phase = "closed"
  BY <1>2 DEF LoopInv, LoopShape
<1> HIDE DEF fd, i, c
<1>4. /\ \A j \in Peers : client'[j] = IF j = i THEN c ELSE client[j]
      /\ \A d \in Fds : connections'[d] = IF d = fd THEN 0 ELSE connections[d]
      /\ connections' \in [Fds -> Peers \union {0}]
      /\ client' = [j \in Peers |-> client'[j]]
  BY <1>1, <1>2 DEF LoopInv, LoopShape
<1>5. LoopShape'
  BY <1>1, <1>3, <1>4 DEF LoopInv, LoopShape
<1>6. Open' = Open \ {fd}
  BY <1>2, <1>4 DEF Open
<1>7. \A d \in Open \ {fd} : d \in Fds /\ connections[d] \in Peers /\ connections[d] # i
  BY <1>2 DEF LoopInv, LoopShape, Open, NoneForgotten
<1>8. NoneForgotten'
  <2>1. \A d \in Open' : client'[connections'[d]].phase = "open"
    BY <1>4, <1>6, <1>7 DEF LoopInv, NoneForgotten
  <2>2. \A d, other \in Open' : connections'[d] = connections'[other] => d = other
    BY <1>4, <1>6, <1>7 DEF LoopInv, NoneForgotten
  <2>3. ASSUME NEW j \in Peers, client'[j].phase = "open"
        PROVE  \E d \in Open' : connections'[d] = j
    <3>1. j # i /\ client[j].phase = "open"
      BY <1>3, <1>4, <2>3
    <3>2. PICK d \in Open : connections[d] = j
      BY <3>1 DEF LoopInv, NoneForgotten
    <3>3. d # fd
      BY <1>2, <3>1, <3>2
    <3> QED BY <1>4, <1>6, <1>7, <3>2, <3>3
  <2>4. \A j \in Peers : state'[j].writeBuffer # <<>> => state'[j].writeEnabled
    BY <1>5 DEF LoopShape
  <2> QED BY <2>1, <2>2, <2>3, <2>4 DEF NoneForgotten
<1> QED BY <1>5, <1>8 DEF LoopInv

\* When the process ends nothing is open.
LEMMA CrashStep ==
  ASSUME LoopInv, crash
  PROVE  LoopInv'
<1>1. /\ \A j \in Peers : client'[j] = [client[j] EXCEPT !.phase = "closed"]
      /\ client' = [j \in Peers |-> client'[j]]
      /\ connections' \in [Fds -> Peers \union {0}] /\ \A fd \in Fds : connections'[fd] = 0
      /\ state' = state
  BY DEF crash
<1>2. \A j \in Peers : /\ DOMAIN client'[j] = DOMAIN client[j]
                       /\ client'[j].unread = client[j].unread /\ client'[j].phase = "closed"
  BY <1>1 DEF LoopInv, LoopShape
<1>3. LoopShape'
  BY <1>1, <1>2 DEF LoopInv, LoopShape
<1>4. Open' = {}
  BY <1>1 DEF Open
<1>5. NoneForgotten'
  BY <1>2, <1>4 DEF NoneForgotten
<1> QED BY <1>3, <1>5 DEF LoopInv

\* The connection an event is handled for.
LEMMA CurrentConn ==
  ASSUME LoopInv, event.fd \in Open
  PROVE  Current \in Peers
BY DEF LoopInv, LoopShape, Open, Current

\* The data read goes to the parse loop's buffer.
LEMMA FetchStep ==
  ASSUME LoopInv, event.fd \in Open, NEW n, Fetch(n)
  PROVE  LoopInv'
<1> DEFINE i == Current
           b == state[i].buffer \o SubSeq(Stream(i), state[i].got + 1, n)
           s == [[state[i] EXCEPT !.got = n] EXCEPT !.buffer = b]
<1>1. i \in Peers
  BY CurrentConn
<1>2. state' = [state EXCEPT ![i] = s] /\ UNCHANGED <<client, connections>>
  <2>1. state' = [state EXCEPT ![i].got = n, ![i].buffer = b]
    BY <1>1 DEF Fetch, LoopInv, LoopShape
  <2> HIDE DEF i, b
  <2> QED BY <1>1, <2>1 DEF Fetch, LoopInv, LoopShape
<1>3. /\ DOMAIN s = {"buffer", "got", "writeBuffer", "writeEnabled", "authed"}
      /\ s.writeBuffer = state[i].writeBuffer
      /\ s.writeEnabled = state[i].writeEnabled
  <2> HIDE DEF i, b
  <2> QED BY <1>1 DEF LoopInv, LoopShape
<1>4. (\E S : s.writeBuffer \in Seq(S)) /\ (s.writeBuffer # <<>> => s.writeEnabled)
  <2> HIDE DEF i, s
  <2> QED BY <1>1, <1>3 DEF LoopInv, LoopShape
<1> HIDE DEF i, s
<1> QED BY <1>1, <1>2, <1>3, <1>4, StateStep

\* A round of the parse loop closes the connection, or all of them, ends, or
\* queues a reply.
LEMMA ParseStep ==
  ASSUME LoopInv, parse
  PROVE  LoopInv'
<1> DEFINE i == Current
<1>1. event.fd \in Open /\ i \in Peers
  BY CurrentConn DEF parse, Handles
<1>2. CASE close
  BY <1>1, <1>2, CloseStep
<1>3. CASE parseEnd
  BY <1>3, QuietStep DEF parseEnd
<1>4. ASSUME NEW b, NEW a, NEW reply,
             state' = [state EXCEPT ![i] =
               queueWrite([state[i] EXCEPT !.buffer = b, !.authed = a], reply)],
             UNCHANGED <<client, connections>>
      PROVE  LoopInv'
  <2> DEFINE r == [state[i] EXCEPT !.buffer = b, !.authed = a]
             w == Append(state[i].writeBuffer, reply)
             s == queueWrite(r, reply)
  <2>1. /\ DOMAIN r = {"buffer", "got", "writeBuffer", "writeEnabled", "authed"}
        /\ r.writeBuffer = state[i].writeBuffer
    <3> HIDE DEF i
    <3> QED BY <1>1 DEF LoopInv, LoopShape
  <2>2. state' = [state EXCEPT ![i] = s]
    BY <1>4
  <2> HIDE DEF r
  <2>3. /\ DOMAIN s = {"buffer", "got", "writeBuffer", "writeEnabled", "authed"}
        /\ s.writeBuffer = w
        /\ s.writeEnabled = TRUE
    BY <2>1 DEF queueWrite
  <2>4. PICK S : state[i].writeBuffer \in Seq(S)
    BY <1>1 DEF LoopInv, LoopShape
  <2>5. w \in Seq(S \union {reply})
    BY <2>4
  <2> HIDE DEF i, s, w
  <2> QED BY <1>1, <1>4, <2>2, <2>3, <2>5, StateStep
<1>5. close \/ parseEnd \/ crash \/
      \E b, a, reply :
        /\ state' = [state EXCEPT ![i] =
             queueWrite([state[i] EXCEPT !.buffer = b, !.authed = a], reply)]
        /\ UNCHANGED <<client, connections>>
  BY DEF parse
<1> QED BY <1>2, <1>3, <1>4, <1>5, CrashStep

\* The kernel takes no more than there is, and no more than it has room for.
LEMMA WriteCount ==
  ASSUME SockBuf \in Nat, NEW l \in Nat, NEW unread \in 0..SockBuf
  PROVE  /\ Min({l, SockBuf - unread}) \in 0..l
         /\ unread + Min({l, SockBuf - unread}) \in 0..SockBuf
<1> DEFINE m == SockBuf - unread
           n == Min({l, m})
<1>1. m \in Nat
  OBVIOUS
<1>2. \E x \in {l, m} : \A y \in {l, m} : x <= y
  BY <1>1
<1> HIDE DEF m
<1>3. n \in {l, m} /\ n <= l /\ n <= m
  BY <1>2 DEF Min
<1> HIDE DEF n
<1>4. n \in 0..l /\ unread + n \in 0..SockBuf
  BY <1>1, <1>3 DEF m
<1> QED BY <1>4 DEF n, m

\* A write takes replies from the front of the buffer and keeps the interest
\* in writing as long as one is left.
LEMMA WriteStep ==
  ASSUME LoopInv, write
  PROVE  LoopInv'
<1> DEFINE i == Current
           w == state[i].writeBuffer
           n == Min({Len(w), SockBuf - client[i].unread})
           rest == SubSeq(w, n + 1, Len(w))
           s == [[state[i] EXCEPT !.writeBuffer = rest]
                  EXCEPT !.writeEnabled = interestAfter(rest, state[i].writeEnabled)]
           c == [[client[i] EXCEPT !.unread = client[i].unread + n]
                  EXCEPT !.received = client[i].received \o SubSeq(w, 1, n)]
<1>1. event.fd \in Open /\ i \in Peers
  BY CurrentConn DEF write, Handles
<1>2. CASE close
  BY <1>1, <1>2, CloseStep
<1>3. CASE ~close
  <2>1. /\ state' = [state EXCEPT ![i].writeBuffer = rest,
                       ![i].writeEnabled = interestAfter(rest, @)]
        /\ client' = [client EXCEPT ![i].unread = @ + n, ![i].received = @ \o SubSeq(w, 1, n)]
        /\ UNCHANGED connections
    <3>1. \/ client[i].gone = "rst" /\ w # <<>> /\ close
          \/ /\ state' = [state EXCEPT ![i].writeBuffer = rest,
                             ![i].writeEnabled = interestAfter(rest, @)]
             /\ client' = [client EXCEPT ![i].unread = @ + n,
                                         ![i].received = @ \o SubSeq(w, 1, n)]
             /\ UNCHANGED connections
      BY DEF write
    <3> QED BY <1>3, <3>1
  <2>2. PICK S : w \in Seq(S)
    BY <1>1 DEF LoopInv, LoopShape
  <2>3. client[i].unread \in 0..SockBuf /\ Len(w) \in Nat /\ SockBuf \in Nat
    BY <1>1, <2>2, EventLoopAssumption DEF LoopInv, LoopShape
  <2>4. n \in 0..Len(w) /\ client[i].unread + n \in 0..SockBuf
    BY <2>3, WriteCount
  <2> HIDE DEF n
  <2>5. rest \in Seq(S) /\ (rest # <<>> => w # <<>>)
    <3>1. rest \in Seq(S)
      BY <2>2, <2>3, <2>4
    <3>2. w = <<>> => rest = <<>>
      BY <2>2, <2>3, <2>4
    <3> QED BY <3>1, <3>2
  <2> HIDE DEF i, w, rest
  <2>6. state' = [state EXCEPT ![i] = s] /\ client' = [client EXCEPT ![i] = c]
    BY <1>1, <2>1 DEF LoopInv, LoopShape
  <2>7. /\ DOMAIN s = {"buffer", "got", "writeBuffer", "writeEnabled", "authed"}
        /\ s.writeBuffer = rest
        /\ s.writeEnabled = interestAfter(rest, state[i].writeEnabled)
    BY <1>1 DEF LoopInv, LoopShape
  <2>8. s.writeBuffer # <<>> => s.writeEnabled
    BY <1>1, <2>5, <2>7 DEF interestAfter, LoopInv, LoopShape, w
  <2>9. /\ DOMAIN c = {"phase", "sent", "gone", "unread", "received"}
        /\ c.unread = client[i].unread + n
        /\ c.phase = client[i].phase
    BY <1>1 DEF LoopInv, LoopShape
  <2> HIDE DEF s, c
  <2>10. /\ \A j \in Peers : client'[j] = IF j = i THEN c ELSE client[j]
         /\ \A j \in Peers : state'[j] = IF j = i THEN s ELSE state[j]
         /\ client' = [j \in Peers |-> client'[j]]
         /\ state' = [j \in Peers |-> state'[j]]
    BY <1>1, <2>6 DEF LoopInv, LoopShape
  <2>11. LoopShape'
    BY <1>1, <2>1, <2>4, <2>5, <2>7, <2>8, <2>9, <2>10 DEF LoopInv, LoopShape
  <2>12. \A j \in Peers : client'[j].phase = client[j].phase
    BY <2>9, <2>10
  <2>13. \A fd \in Open : connections[fd] \in Peers
    BY DEF LoopInv, LoopShape, Open
  <2>14. NoneForgotten'
    <3>1. Open' = Open
      BY <2>1 DEF Open
    <3>2. \A fd \in Open : client'[connections[fd]].phase = "open"
      BY <2>12, <2>13 DEF LoopInv, NoneForgotten
    <3>3. \A fd, other \in Open : connections[fd] = connections[other] => fd = other
      BY DEF LoopInv, NoneForgotten
    <3>4. \A j \in Peers : client'[j].phase = "open" => \E fd \in Open : connections[fd] = j
      BY <2>12 DEF LoopInv, NoneForgotten
    <3>5. \A j \in Peers : state'[j].writeBuffer # <<>> => state'[j].writeEnabled
      BY <2>11 DEF LoopShape
    <3> QED BY <2>1, <3>1, <3>2, <3>3, <3>4, <3>5 DEF NoneForgotten
  <2> QED BY <2>11, <2>14 DEF LoopInv
<1> QED BY <1>2, <1>3

\* Every step of clients and loop preserves the invariant.
LEMMA LoopStep ==
  ASSUME LoopInv, [LoopNext]_loopVars
  PROVE  LoopInv'
<1>1. CASE Clients
  BY <1>1, ClientsStep
<1>2. ASSUME NEW i \in Peers, accept(i) PROVE LoopInv'
  BY <1>2, AcceptStep
<1>3. CASE Poll \/ (\E e \in batch : Dispatch(e)) \/ return \/ UNCHANGED loopVars
  BY <1>3, QuietStep DEF Poll, Dispatch, return, loopVars
<1>4. CASE closeGone
  BY <1>4, CloseStep DEF closeGone, Handles
<1>5. CASE readLinux
  BY <1>5, CloseStep, FetchStep DEF readLinux, Handles
<1>6. CASE readDarwin
  <2>1. event.fd \in Open
    BY <1>6 DEF readDarwin, Handles
  <2>2. close \/ (\E n : Fetch(n)) \/ UNCHANGED <<client, state, connections>>
    BY <1>6 DEF readDarwin
  <2> QED BY <2>1, <2>2, CloseStep, FetchStep, QuietStep
<1>7. CASE parse
  BY <1>7, ParseStep
<1>8. CASE write
  BY <1>8, WriteStep
<1> QED BY <1>1, <1>2, <1>3, <1>4, <1>5, <1>6, <1>7, <1>8 DEF LoopNext, Loop

\* At first nothing is open.
LEMMA LoopInitInv == LoopInit => LoopInv
<1> SUFFICES ASSUME LoopInit PROVE LoopInv
  OBVIOUS
<1>1. /\ client = [i \in Peers |-> NewClient]
      /\ state = [i \in Peers |-> NewState]
      /\ connections = [fd \in Fds |-> 0]
  BY DEF LoopInit
<1>2. /\ DOMAIN NewClient = {"phase", "sent", "gone", "unread", "received"}
      /\ NewClient.unread = 0 /\ NewClient.phase = "away"
  BY DEF NewClient
<1>3. /\ DOMAIN NewState = {"buffer", "got", "writeBuffer", "writeEnabled", "authed"}
      /\ NewState.writeBuffer = <<>>
  BY DEF NewState
<1>4. <<>> \in Seq({})
  OBVIOUS
<1>5. LoopShape
  <2>1. \A i \in Peers : client[i] = NewClient /\ state[i] = NewState
    BY <1>1
  <2>2. /\ client = [i \in Peers |-> client[i]]
        /\ state = [i \in Peers |-> state[i]]
        /\ connections \in [Fds -> Peers \union {0}]
    BY <1>1
  <2>3. 0 \in 0..SockBuf
    BY EventLoopAssumption
  <2>4. ASSUME NEW i \in Peers
        PROVE  /\ DOMAIN client[i] = {"phase", "sent", "gone", "unread", "received"}
               /\ DOMAIN state[i] = {"buffer", "got", "writeBuffer", "writeEnabled", "authed"}
               /\ client[i].unread \in 0..SockBuf
               /\ state[i].writeBuffer = <<>>
    BY <1>2, <1>3, <2>1, <2>3
  <2>5. \A i \in Peers : \E S : state[i].writeBuffer \in Seq(S)
    BY <1>4, <2>4
  <2> QED BY <2>2, <2>4, <2>5 DEF LoopShape
<1>6. Open = {}
  BY <1>1 DEF Open
<1>7. NoneForgotten
  BY <1>1, <1>2, <1>6 DEF NoneForgotten
<1> QED BY <1>5, <1>7 DEF LoopInv

\* No open connection of an event loop is forgotten: it has exactly one
\* descriptor, and the loop asks to write to it as long as replies are left,
\* whatever clients send, in which order events are handled and however
\* descriptors are used again.
THEOREM LoopKeepsConnections == LoopSpec => []NoneForgotten
<1>1. LoopInit => LoopInv
  BY LoopInitInv
<1>2. LoopInv /\ [LoopNext]_loopVars => LoopInv'
  BY LoopStep
<1>3. LoopInv => NoneForgotten
  BY DEF LoopInv
<1> QED BY <1>1, <1>2, <1>3, PTL DEF LoopSpec
-----------------------------------------------------------------------------
(* What clients are told *)

\* Some set has the elements of q.
IsSeq(q) == \E S : q \in Seq(S)

\* What connection i has been told: the replies received and those buffered.
Told(c, s) == c.received \o s.writeBuffer

\* The gate is open for the j-th command of connection i.
Opened(i, j) ==
  \/ auth = "off"
  \/ auth = "password" /\ poller = "epoll"
  \/ \E m \in 1..j - 1 : Items(i)[m].cmd = <<"AUTH", RequirePass>>

\* Connection i, as client c and state s have it, was told the replies to
\* its first commands, and the buffer is what has been read after them.
Served(i, c, s) ==
  LET d == Len(Told(c, s))
      from == Begin(script[i], d + 1)
  IN  /\ IsSeq(c.received) /\ IsSeq(s.writeBuffer)
      /\ d \in 0..Len(Items(i))
      /\ \A j \in 1..d : Items(i)[j].kind = "command" /\ Told(c, s)[j] = Expected(i, j)
      /\ c.sent \in 0..Len(Stream(i))
      /\ s.got \in from..c.sent
      /\ s.buffer = SubSeq(Stream(i), from + 1, s.got)
      /\ c.phase \in {"away", "waiting"} => d = 0
      /\ c.phase = "open" => s.authed = Opened(i, d + 1)

AllServed ==
  /\ poller \in {"epoll", "kqueue"} /\ auth \in {"off", "password", "required"}
  /\ \A i \in Peers : script[i] \in Scripts[i] /\ Served(i, client[i], state[i])

\* An event closes a connection only if the client it was meant for is gone,
\* and epoll's are for the connection that has the descriptor.
EventOK(e) ==
  /\ DOMAIN e = {"fd", "owner", "filter", "todo"}
  /\ e.fd = 0 => "close" \notin e.todo
  /\ e.fd # 0 => e.fd \in Fds /\ e.owner \in Peers
  /\ "close" \in e.todo => client[e.owner].gone # "no"
  /\ poller = "epoll" /\ e.fd # 0 => e.fd \in Open /\ connections[e.fd] = e.owner

EventsInv ==
  /\ EventOK(event) /\ \A e \in batch : EventOK(e)
  /\ poller = "epoll" =>
       /\ \A e \in batch : e.fd # 0 => e.fd # event.fd
       /\ \A e, f \in batch : e.fd # 0 /\ e.fd = f.fd => e = f
-----------------------------------------------------------------------------
\* The items of a script follow each other in its stream.
LEMMA ItemProperties ==
  ASSUME NEW i \in Peers, script[i] \in Scripts[i]
  PROVE  /\ IsSeq(Stream(i)) /\ IsSeq(Items(i)) /\ Len(Stream(i)) \in Nat /\ Len(Items(i)) \in Nat
         /\ \A j \in 1..Len(Items(i)) + 1 : Begin(script[i], j) \in 0..Len(Stream(i))
         /\ \A j \in 1..Len(Items(i)) :
              /\ Items(i)[j].end = Begin(script[i], j + 1)
              /\ Items(i)[j].end \in Begin(script[i], j) + 1..Len(Stream(i))
              /\ Items(i)[j].kind = "command" => Items(i)[j].cmd \in Seq(STRING) \ {<<>>}
              /\ (\A m \in 1..j - 1 : Items(i)[m].kind = "command") =>
                   \A n \in Begin(script[i], j)..Len(Stream(i)) : ReadsAs(script[i], j, n)
         /\ Begin(script[i], Len(Items(i)) + 1) = Len(Stream(i))
<1> DEFINE s == script[i]
           N == Len(s.items)
           L == Len(s.stream)
<1>1. /\ s.stream \in Seq(ToSet(s.stream)) /\ s.items \in Seq(ToSet(s.items))
      /\ L = Begin(s, N + 1)
      /\ \A j \in DOMAIN s.items :
           /\ s.items[j].end \in Begin(s, j) + 1..L
           /\ s.items[j].kind = "command" => s.items[j].cmd \in Seq(STRING) \ {<<>>}
           /\ (\A m \in 1..j - 1 : s.items[m].kind = "command") =>
                \A n \in Begin(s, j)..L : ReadsAs(s, j, n)
  BY ScriptAssumption
<1>2. L \in Nat /\ N \in Nat /\ DOMAIN s.items = 1..N
  BY <1>1
<1>3. Begin(s, 1) = 0 /\ \A j \in 1..N : s.items[j].end = Begin(s, j + 1)
  BY <1>2 DEF Begin
<1> HIDE DEF s, N, L
<1>4. \A j \in 1..N + 1 : Begin(s, j) \in 0..L
  <2> DEFINE D == {j \in 1..N + 1 : Begin(s, j) \notin 0..L}
  <2> SUFFICES ASSUME D # {} PROVE FALSE
    OBVIOUS
  <2>1. PICK j \in D : \A l \in D : j <= l
    <3>1. D \subseteq Nat
      BY <1>2
    <3> HIDE DEF D
    <3> QED BY <3>1, LeastNatural
  <2>2. j # 1
    BY <1>2, <1>3
  <2>3. j \in 1..N + 1 /\ j - 1 \in 1..N /\ j - 1 \in 1..N + 1 /\ ~(j <= j - 1) /\ (j - 1) + 1 = j
    BY <1>2, <2>2
  <2>4. Begin(s, j - 1) \in 0..L
    BY <2>1, <2>3
  <2>5. Begin(s, j) \in Begin(s, j - 1) + 1..L
    BY <1>1, <1>2, <1>3, <2>3
  <2>6. Begin(s, j) \in 0..L
    BY <1>2, <2>4, <2>5
  <2> QED BY <2>3, <2>6
<1> QED BY <1>1, <1>2, <1>3, <1>4 DEF IsSeq, Stream, Items, s, N, L

\* The configuration does not change, so it is enough that what clients and
\* loop have afterwards would be right now.
LEMMA ServedKept ==
  ASSUME AllServed, UNCHANGED config, \A i \in Peers : Served(i, client'[i], state'[i])
  PROVE  AllServed'
<1>1. poller' = poller /\ auth' = auth /\ script' = script
  BY DEF config
<1>2. ASSUME NEW i \in Peers PROVE Served(i, client[i], state[i])' <=> Served(i, client'[i], state'[i])
  BY <1>1 DEF Served, Told, Expected, Opened, Items, Stream
<1> QED BY <1>1, <1>2 DEF AllServed

\* A step that concerns one connection.
LEMMA ServedOne ==
  ASSUME LoopInv, AllServed, UNCHANGED config, NEW i \in Peers, NEW c, NEW s, Served(i, c, s),
         client' = [client EXCEPT ![i] = c] \/ (UNCHANGED client /\ c = client[i]),
         state' = [state EXCEPT ![i] = s] \/ (UNCHANGED state /\ s = state[i])
  PROVE  AllServed'
<1>1. \A j \in Peers : /\ client'[j] = IF j = i THEN c ELSE client[j]
                       /\ state'[j] = IF j = i THEN s ELSE state[j]
  BY DEF LoopInv, LoopShape
<1>2. \A j \in Peers : Served(j, client'[j], state'[j])
  BY <1>1 DEF AllServed
<1> QED BY <1>2, ServedKept

\* What a client does changes no reply.
LEMMA ClientServed ==
  ASSUME NEW i, NEW c, NEW d, NEW s, Served(i, c, s), d.received = c.received,
         d.sent = c.sent, d.phase = c.phase \/ d.phase = "closed"
                          \/ (d.phase = "waiting" /\ c.phase = "away")
  PROVE  Served(i, d, s)
BY DEF Served, Told

LEMMA ClientsServed == ASSUME LoopInv, AllServed, Clients PROVE AllServed'
<1>0. \A i \in Peers : /\ DOMAIN client[i] = {"phase", "sent", "gone", "unread", "received"}
                       /\ Served(i, client[i], state[i])
  BY DEF LoopInv, LoopShape, AllServed
<1>1. ASSUME NEW i \in Peers, Connect(i) PROVE AllServed'
  <2> DEFINE c == [client[i] EXCEPT !.phase = "waiting"]
  <2>1. client' = [client EXCEPT ![i] = c] /\ UNCHANGED <<config, state>> /\ client[i].phase = "away"
    BY <1>1 DEF Connect
  <2>2. c.phase = "waiting" /\ c.received = client[i].received /\ c.sent = client[i].sent
    BY <1>0
  <2> HIDE DEF c
  <2>3. Served(i, c, state[i])
    BY <1>0, <2>1, <2>2, ClientServed
  <2> QED BY <2>1, <2>3, ServedOne
<1>2. ASSUME NEW i \in Peers, NEW n, Send(i, n) PROVE AllServed'
  <2> DEFINE c == [client[i] EXCEPT !.sent = n]
  <2>1. /\ client' = [client EXCEPT ![i] = c] /\ UNCHANGED <<config, state>>
        /\ n \in client[i].sent + 1..Len(Stream(i))
    BY <1>2 DEF Send
  <2>2. c.phase = client[i].phase /\ c.received = client[i].received /\ c.sent = n
    BY <1>0
  <2> HIDE DEF c
  <2>3. Served(i, c, state[i])
    <3> DEFINE d == Len(Told(client[i], state[i]))
               from == Begin(script[i], d + 1)
    <3>1. /\ client[i].sent \in 0..Len(Stream(i)) /\ state[i].got \in from..client[i].sent
          /\ d \in 0..Len(Items(i))
      BY <1>0 DEF Served
    <3>2. Len(Items(i)) \in Nat /\ Len(Stream(i)) \in Nat
      BY ItemProperties DEF AllServed
    <3>3. from \in Nat
      <4>1. d + 1 \in 1..Len(Items(i)) + 1
        BY <3>1, <3>2
      <4> QED BY <4>1, ItemProperties DEF AllServed
    <3>4. n \in 0..Len(Stream(i)) /\ state[i].got \in from..n
      <4> HIDE DEF from, d
      <4> QED BY <2>1, <3>1, <3>2, <3>3
    <3> QED BY <1>0, <2>2, <3>4 DEF Served, Told
  <2> QED BY <2>1, <2>3, ServedOne
<1>3. ASSUME NEW i \in Peers, Receive(i) PROVE AllServed'
  <2> DEFINE c == [client[i] EXCEPT !.unread = client[i].unread - 1]
  <2>1. client' = [client EXCEPT ![i] = c] /\ UNCHANGED <<config, state>>
    BY <1>3 DEF Receive
  <2>2. c.phase = client[i].phase /\ c.received = client[i].received /\ c.sent = client[i].sent
    BY <1>0
  <2> HIDE DEF c
  <2>3. Served(i, c, state[i])
    BY <1>0, <2>1, <2>2, ClientServed
  <2> QED BY <2>1, <2>3, ServedOne
<1>4. ASSUME NEW i \in Peers, NEW how, Leave(i, how) PROVE AllServed'
  <2> DEFINE c == [client[i] EXCEPT !.gone = how]
  <2>1. client' = [client EXCEPT ![i] = c] /\ UNCHANGED <<config, state>>
    BY <1>4 DEF Leave
  <2>2. c.phase = client[i].phase /\ c.received = client[i].received /\ c.sent = client[i].sent
    BY <1>0
  <2> HIDE DEF c
  <2>3. Served(i, c, state[i])
    BY <1>0, <2>1, <2>2, ClientServed
  <2> QED BY <2>1, <2>3, ServedOne
<1> QED BY <1>1, <1>2, <1>3, <1>4 DEF Clients

\* A connection starts with the gate as -auth and -requirepass have it.
LEMMA AcceptServed ==
  ASSUME LoopInv, AllServed, NEW i \in Peers, accept(i)
  PROVE  AllServed'
<1> DEFINE c == [client[i] EXCEPT !.phase = "open"]
           a == IF poller = "epoll" THEN authedLinux ELSE authedDarwin
           s == [state[i] EXCEPT !.authed = a]
<1>1. /\ client[i].phase = "waiting"
      /\ client' = [client EXCEPT ![i] = c]
      /\ state' = [state EXCEPT ![i] = s]
      /\ UNCHANGED config
  <2>1. client[i].phase = "waiting"
    BY DEF accept, Waiting
  <2> QED BY <2>1 DEF accept
<1>2. /\ c.phase = "open" /\ c.sent = client[i].sent /\ c.received = client[i].received
      /\ s.got = state[i].got /\ s.buffer = state[i].buffer
      /\ s.writeBuffer = state[i].writeBuffer
  BY DEF LoopInv, LoopShape
<1>3. s.authed = a
  BY DEF LoopInv, LoopShape
<1>4. a <=> Opened(i, 1)
  BY DEF AllServed, authedLinux, authedDarwin, Opened
<1>5. Opened(i, 1) \in BOOLEAN /\ a \in BOOLEAN
  BY DEF authedLinux, authedDarwin, Opened
<1> HIDE DEF c, s, a
<1>6. s.authed = Opened(i, 1)
  BY <1>3, <1>4, <1>5
<1>7. Served(i, c, s)
  <2>1. Served(i, client[i], state[i]) /\ Told(c, s) = Told(client[i], state[i])
    BY <1>2 DEF AllServed, Told
  <2>2. Len(Told(c, s)) = 0
    BY <1>1, <2>1 DEF Served
  <2> QED BY <1>2, <1>6, <2>1, <2>2 DEF Served
<1> QED BY <1>1, <1>7, ServedOne

\* Nothing is said to a connection that is closed.
LEMMA CloseServed ==
  ASSUME LoopInv, AllServed, event.fd \in Open, close
  PROVE  AllServed'
<1> DEFINE i == Current
           c == [client[i] EXCEPT !.phase = "closed"]
<1>1. client' = [client EXCEPT ![i] = c] /\ UNCHANGED <<config, state>> /\ i \in Peers
  BY CurrentConn DEF close
<1>2. c.phase = "closed" /\ c.received = client[i].received /\ c.sent = client[i].sent
  BY <1>1 DEF LoopInv, LoopShape
<1> HIDE DEF i, c
<1>3. Served(i, c, state[i])
  BY <1>1, <1>2, ClientServed DEF AllServed
<1> QED BY <1>1, <1>3, ServedOne

\* The end of the process says nothing to anybody.
LEMMA CrashServed ==
  ASSUME LoopInv, AllServed, crash
  PROVE  AllServed'
<1>1. UNCHANGED <<config, state>>
      /\ \A i \in Peers : client'[i] = [client[i] EXCEPT !.phase = "closed"]
  BY DEF crash
<1>2. ASSUME NEW i \in Peers PROVE Served(i, client'[i], state'[i])
  <2> DEFINE c == client[i]
  <2>0. DOMAIN c = {"phase", "sent", "gone", "unread", "received"}
    BY DEF LoopInv, LoopShape
  <2>1. /\ client'[i].phase = "closed" /\ client'[i].received = client[i].received
        /\ client'[i].sent = client[i].sent
    <3> HIDE DEF c
    <3>1. LET d == [c EXCEPT !.phase = "closed"]
          IN  d.phase = "closed" /\ d.received = c.received /\ d.sent = c.sent
      BY <2>0
    <3> QED BY <1>1, <3>1 DEF c
  <2>2. Served(i, client[i], state[i])
    BY DEF AllServed
  <2>3. Served(i, client'[i], state[i])
    BY <2>1, <2>2, ClientServed
  <2> QED BY <1>1, <2>3
<1> QED BY <1>1, <1>2, ServedKept

\* What is read goes behind what was read before.
LEMMA FetchServed ==
  ASSUME LoopInv, AllServed, event.fd \in Open,
         NEW n \in state[Current].got..client[Current].sent, Fetch(n)
  PROVE  AllServed'
<1> DEFINE i == Current
           b == state[i].buffer \o SubSeq(Stream(i), state[i].got + 1, n)
           s == [[state[i] EXCEPT !.got = n] EXCEPT !.buffer = b]
           from == Begin(script[i], Len(Told(client[i], state[i])) + 1)
<1>1. i \in Peers
  BY CurrentConn
<1>2. state' = [state EXCEPT ![i] = s] /\ UNCHANGED <<config, client>>
  <2>1. state' = [state EXCEPT ![i].got = n, ![i].buffer = b] /\ UNCHANGED <<config, client>>
    BY <1>1 DEF Fetch, LoopInv, LoopShape
  <2> HIDE DEF i, b
  <2> QED BY <1>1, <2>1 DEF LoopInv, LoopShape
<1>3. /\ s.got = n /\ s.buffer = b
      /\ s.writeBuffer = state[i].writeBuffer /\ s.authed = state[i].authed
  <2> HIDE DEF i, b
  <2> QED BY <1>1 DEF LoopInv, LoopShape
<1>4. Served(i, client[i], state[i]) /\ script[i] \in Scripts[i]
  BY <1>1 DEF AllServed
<1>5. /\ client[i].sent \in 0..Len(Stream(i)) /\ state[i].got \in from..client[i].sent
      /\ state[i].buffer = SubSeq(Stream(i), from + 1, state[i].got)
      /\ Len(Told(client[i], state[i])) \in 0..Len(Items(i))
  BY <1>4 DEF Served
<1>6. Len(Items(i)) \in Nat /\ Len(Stream(i)) \in Nat /\ IsSeq(Stream(i))
  BY <1>1, <1>4, ItemProperties
<1>7. from \in 0..Len(Stream(i))
  <2>1. Len(Told(client[i], state[i])) + 1 \in 1..Len(Items(i)) + 1
    BY <1>5, <1>6
  <2> QED BY <1>1, <1>4, <2>1, ItemProperties
<1>8. b = SubSeq(Stream(i), from + 1, n) /\ n \in from..client[i].sent
  <2> HIDE DEF from
  <2>1. /\ from + 1 \in 1..Len(Stream(i)) + 1
        /\ state[i].got \in (from + 1) - 1..Len(Stream(i))
        /\ n \in state[i].got..Len(Stream(i)) /\ n \in from..client[i].sent
    BY <1>5, <1>6, <1>7
  <2>2. PICK S : Stream(i) \in Seq(S)
    BY <1>6 DEF IsSeq
  <2> HIDE DEF i
  <2>3. SubSeq(Stream(i), from + 1, state[i].got) \o SubSeq(Stream(i), state[i].got + 1, n)
          = SubSeq(Stream(i), from + 1, n)
    BY <2>1, <2>2, ConcatAdjacentSubSeq
  <2> QED BY <1>5, <2>1, <2>3
<1>9. Served(i, client[i], s)
  <2> HIDE DEF i, b, s
  <2>1. Told(client[i], s) = Told(client[i], state[i])
    BY <1>3 DEF Told
  <2> QED BY <1>3, <1>4, <1>8, <2>1 DEF Served
<1> HIDE DEF i, s
<1> QED BY <1>1, <1>2, <1>9, ServedOne

\* Two conversations in which the same was told.
LEMMA ServedSame ==
  ASSUME NEW i, NEW c, NEW s, NEW d, NEW t, Served(i, c, s), Told(d, t) = Told(c, s),
         IsSeq(d.received), IsSeq(t.writeBuffer), d.sent = c.sent, d.phase = c.phase,
         t.got = s.got, t.buffer = s.buffer, t.authed = s.authed
  PROVE  Served(i, d, t)
BY DEF Served

\* A sequence is what is cut off its front and the rest.
LEMMA CutSequence ==
  ASSUME NEW r, NEW w, IsSeq(r), IsSeq(w), NEW n \in 0..Len(w)
  PROVE  /\ IsSeq(r \o SubSeq(w, 1, n)) /\ IsSeq(SubSeq(w, n + 1, Len(w)))
         /\ (r \o SubSeq(w, 1, n)) \o SubSeq(w, n + 1, Len(w)) = r \o w
<1>1. PICK R : r \in Seq(R)
  BY DEF IsSeq
<1>2. PICK W : w \in Seq(W)
  BY DEF IsSeq
<1> DEFINE S == R \union W
           f == SubSeq(w, 1, n)
           b == SubSeq(w, n + 1, Len(w))
<1>3. r \in Seq(S) /\ w \in Seq(S)
  BY <1>1, <1>2
<1> HIDE DEF S
<1>4. Len(w) \in Nat
  BY <1>3
<1>5. f \in Seq(S) /\ b \in Seq(S)
  BY <1>3, <1>4
<1>6. f \o b = w
  <2>1. /\ 1 \in 1..Len(w) + 1 /\ n \in 1 - 1..Len(w) /\ Len(w) \in n..Len(w)
    BY <1>4
  <2>2. f \o b = SubSeq(w, 1, Len(w))
    BY <1>3, <2>1, ConcatAdjacentSubSeq
  <2> QED BY <1>3, <2>2, SubSeqFull
<1> HIDE DEF f, b
<1>7. r \o f \in Seq(S)
  BY <1>3, <1>5
<1>8. (r \o f) \o b = r \o w
  <2>1. (r \o f) \o b = r \o (f \o b)
    BY <1>3, <1>5
  <2> QED BY <1>6, <2>1, Zenon
<1> QED BY <1>5, <1>7, <1>8 DEF IsSeq, f, b

\* A write moves replies from the buffer to the client.
LEMMA WriteServed ==
  ASSUME LoopInv, AllServed, write
  PROVE  AllServed'
<1> DEFINE i == Current
           w == state[i].writeBuffer
           n == Min({Len(w), SockBuf - client[i].unread})
           rest == SubSeq(w, n + 1, Len(w))
           s == [[state[i] EXCEPT !.writeBuffer = rest]
                  EXCEPT !.writeEnabled = interestAfter(rest, state[i].writeEnabled)]
           r == client[i].received \o SubSeq(w, 1, n)
           c == [[client[i] EXCEPT !.unread = client[i].unread + n] EXCEPT !.received = r]
<1>1. event.fd \in Open /\ i \in Peers
  BY CurrentConn DEF write, Handles
<1>2. CASE close
  BY <1>1, <1>2, CloseServed
<1>3. CASE ~close
  <2>1. /\ state' = [state EXCEPT ![i].writeBuffer = rest,
                       ![i].writeEnabled = interestAfter(rest, @)]
        /\ client' = [client EXCEPT ![i].unread = @ + n, ![i].received = @ \o SubSeq(w, 1, n)]
        /\ UNCHANGED config
    <3>1. \/ client[i].gone = "rst" /\ w # <<>> /\ close
          \/ /\ state' = [state EXCEPT ![i].writeBuffer = rest,
                             ![i].writeEnabled = interestAfter(rest, @)]
             /\ client' = [client EXCEPT ![i].unread = @ + n,
                                         ![i].received = @ \o SubSeq(w, 1, n)]
             /\ UNCHANGED config
      BY DEF write
    <3> QED BY <1>3, <3>1
  <2>2. n \in 0..Len(w)
    <3>1. Len(w) \in Nat /\ client[i].unread \in 0..SockBuf /\ SockBuf \in Nat
      BY <1>1, EventLoopAssumption DEF LoopInv, LoopShape
    <3> QED BY <3>1, WriteCount
  <2>3. Served(i, client[i], state[i])
    BY <1>1 DEF AllServed
  <2>4. IsSeq(client[i].received) /\ IsSeq(w)
    BY <2>3 DEF Served
  <2> HIDE DEF n
  <2>5. IsSeq(r) /\ IsSeq(rest) /\ r \o rest = client[i].received \o w
    <3> HIDE DEF i, w
    <3> QED BY <2>2, <2>4, CutSequence
  <2> HIDE DEF i, w, rest
  <2>6. state' = [state EXCEPT ![i] = s] /\ client' = [client EXCEPT ![i] = c]
    BY <1>1, <2>1 DEF LoopInv, LoopShape
  <2> HIDE DEF r
  <2>7. /\ s.writeBuffer = rest /\ s.got = state[i].got /\ s.buffer = state[i].buffer
        /\ s.authed = state[i].authed
        /\ c.received = r /\ c.phase = client[i].phase /\ c.sent = client[i].sent
    BY <1>1 DEF LoopInv, LoopShape
  <2> HIDE DEF s, c
  <2>8. Told(c, s) = Told(client[i], state[i])
    BY <2>5, <2>7 DEF Told, w
  <2>9. Served(i, c, s)
    BY <2>3, <2>5, <2>7, <2>8, ServedSame
  <2> QED BY <1>1, <2>1, <2>6, <2>9, ServedOne
<1> QED BY <1>2, <1>3

\* A part of a stream without its front is a part of the stream.
LEMMA CutFront ==
  ASSUME NEW q, IsSeq(q), NEW from \in 0..Len(q), NEW got \in from..Len(q), NEW end \in from..got
  PROVE  SubSeq(SubSeq(q, from + 1, got), (end - from) + 1, Len(SubSeq(q, from + 1, got)))
           = SubSeq(q, end + 1, got)
<1> DEFINE b == SubSeq(q, from + 1, got)
<1>1. PICK S : q \in Seq(S)
  BY DEF IsSeq
<1>2. Len(q) \in Nat /\ from \in Nat /\ got \in Nat /\ end \in Nat /\ from <= end /\ end <= got
      /\ got <= Len(q)
  BY <1>1
<1>3. b \in Seq(S) /\ Len(b) = got - from
  BY <1>1, <1>2
<1>4. CASE end = got
  <2>1. SubSeq(q, end + 1, got) = <<>>
    BY <1>2, <1>4, SubSeqEmpty
  <2> HIDE DEF b
  <2>2. SubSeq(b, (end - from) + 1, Len(b)) = <<>>
    <3>1. /\ (end - from) + 1 \in Int /\ Len(b) \in Int /\ Len(b) < (end - from) + 1
      BY <1>2, <1>3, <1>4
    <3> QED BY <3>1, SubSeqEmpty
  <2> QED BY <2>1, <2>2 DEF b
<1>5. CASE end # got
  <2> DEFINE m == (end - from) + 1
             n == got - from
             j == from + 1
  <2>1. /\ j \in 1..Len(q) /\ got \in 1..Len(q)
        /\ m \in 1..(got - j) + 1 /\ n \in 1..(got - j) + 1
        /\ (j + m) - 1 = end + 1 /\ (j + n) - 1 = got
    BY <1>2, <1>5
  <2>2. \A k \in 1..n : b[k] = q[from + k]
    BY <1>1, <1>2
  <2> HIDE DEF b
  <2> DEFINE u == SubSeq(b, m, n)
             v == SubSeq(q, end + 1, got)
  <2>3. /\ u \in Seq(S) /\ Len(u) = got - end
        /\ \A k \in 1..got - end : u[k] = b[(end - from) + k]
    BY <1>2, <1>3, <1>5
  <2>4. /\ v \in Seq(S) /\ Len(v) = got - end
        /\ \A k \in 1..got - end : v[k] = q[end + k]
    BY <1>1, <1>2, <1>5
  <2>5. ASSUME NEW k \in 1..got - end PROVE u[k] = v[k]
    <3>1. (end - from) + k \in 1..n /\ from + ((end - from) + k) = end + k
      BY <1>2
    <3> HIDE DEF u, v, n
    <3>2. b[(end - from) + k] = q[end + k]
      BY <2>2, <3>1
    <3> QED BY <2>3, <2>4, <3>2
  <2> HIDE DEF u, v
  <2>6. u = v
    BY <2>3, <2>4, <2>5
  <2> QED BY <1>3, <2>6 DEF u, v, b
<1> QED BY <1>4, <1>5

\* A sequence of two elements.
LEMMA PairIs ==
  ASSUME NEW S, NEW q \in Seq(S), NEW a, NEW b, Len(q) = 2, q[1] = a, q[2] = b
  PROVE  q = <<a, b>>
<1> DEFINE p == <<a, b>>
<1>1. a \in S /\ b \in S
  <2>1. 1 \in 1..Len(q) /\ 2 \in 1..Len(q)
    OBVIOUS
  <2>2. q[1] \in S /\ q[2] \in S
    BY <2>1, ElementOfSeq
  <2> QED BY <2>2
<1>2. p \in Seq(S) /\ Len(p) = 2 /\ p[1] = a /\ p[2] = b
  BY <1>1
<1> HIDE DEF p
<1>3. \A k \in 1..2 : q[k] = p[k]
  BY <1>2
<1>4. q = p
  BY <1>2, <1>3
<1> QED BY <1>4 DEF p

\* The gate answers a command as the client must be told.
LEMMA ServeExpected ==
  ASSUME NEW i, NEW j \in Nat, j > 0, Items(i)[j].cmd \in Seq(STRING) \ {<<>>}
  PROVE  /\ serve(Opened(i, j), Items(i)[j].cmd).reply = Expected(i, j)
         /\ serve(Opened(i, j), Items(i)[j].cmd).authed = Opened(i, j + 1)
<1> DEFINE cmd == Items(i)[j].cmd
           login == <<"AUTH", RequirePass>>
<1>1. cmd \in Seq(STRING) /\ cmd # <<>>
  OBVIOUS
<1>2. Opened(i, j + 1) <=> Opened(i, j) \/ cmd = login
  <2>1. \A m : m \in 1..(j + 1) - 1 <=> m \in 1..j - 1 \/ m = j
    OBVIOUS
  <2> QED BY <2>1 DEF Opened
<1> HIDE DEF cmd
<1>3. cmd = login <=> Len(cmd) = 2 /\ cmd[1] = "AUTH" /\ cmd[2] = RequirePass
  <2>1. cmd = login => Len(cmd) = 2 /\ cmd[1] = "AUTH" /\ cmd[2] = RequirePass
    OBVIOUS
  <2>2. ASSUME Len(cmd) = 2, cmd[1] = "AUTH", cmd[2] = RequirePass PROVE cmd = login
    BY <1>1, <2>2, PairIs
  <2> QED BY <2>1, <2>2
<1>4. Expected(i, j) = IF Opened(i, j) THEN <<"executed", cmd>>
                       ELSE IF cmd = login THEN <<"OK">>
                       ELSE IF cmd[1] # "AUTH" THEN <<"NOAUTH">>
                       ELSE IF Len(cmd) = 2 THEN <<"ERR invalid password">>
                       ELSE <<"ERR wrong number">>
  BY DEF Expected, Opened, cmd
<1>5. Opened(i, j) \in BOOLEAN /\ Opened(i, j + 1) \in BOOLEAN
  BY DEF Opened
<1> DEFINE r == serve(Opened(i, j), cmd)
<1>6. r.reply = Expected(i, j)
  <2> HIDE DEF login
  <2> QED BY <1>3, <1>4 DEF serve
<1>7. r.authed = Opened(i, j + 1)
  <2>1. CASE Opened(i, j) \/ cmd = login
    <3>1. Opened(i, j + 1) = TRUE
      BY <1>2, <1>5, <2>1
    <3>2. r.authed = TRUE
      <4> HIDE DEF login
      <4> QED BY <1>3, <2>1 DEF serve
    <3> QED BY <3>1, <3>2
  <2>2. CASE ~Opened(i, j) /\ cmd # login
    <3>1. Opened(i, j + 1) = FALSE
      BY <1>2, <1>5, <2>2
    <3>2. r.authed = FALSE
      <4> HIDE DEF login
      <4> QED BY <1>3, <2>2 DEF serve
    <3> QED BY <3>1, <3>2
  <2> QED BY <2>1, <2>2
<1> QED BY <1>6, <1>7 DEF cmd

\* What the parser finds at the front of the buffer is the next item, once it
\* has come whole.
LEMMA ParsedNext ==
  ASSUME NEW i \in Peers, script[i] \in Scripts[i], NEW c, NEW s, Served(i, c, s)
  PROVE  LET j == Len(Told(c, s)) + 1
             p == ParseCommandFromBytes(s.buffer)
         IN  /\ p.err \/ p.panics \/ p.cmd # <<>> =>
                  j \in 1..Len(Items(i)) /\ Items(i)[j].end \in Begin(script[i], j)..s.got
             /\ p.err => Items(i)[j].kind = "error"
             /\ p.panics => Items(i)[j].kind = "panic"
             /\ ~p.err /\ p.cmd # <<>> =>
                  /\ Items(i)[j].kind = "command" /\ p.cmd = Items(i)[j].cmd
                  /\ p.consumed = Items(i)[j].end - Begin(script[i], j)
<1> DEFINE d == Len(Told(c, s))
           j == d + 1
           from == Begin(script[i], j)
           p == ParseCommandFromBytes(s.buffer)
<1>1. /\ d \in 0..Len(Items(i)) /\ c.sent \in 0..Len(Stream(i)) /\ s.got \in from..c.sent
      /\ s.buffer = SubSeq(Stream(i), from + 1, s.got)
      /\ \A m \in 1..d : Items(i)[m].kind = "command"
  BY DEF Served
<1>2. Len(Items(i)) \in Nat /\ Len(Stream(i)) \in Nat
  BY ItemProperties
<1> HIDE DEF d
<1>3. from \in 0..Len(Stream(i))
  <2>1. j \in 1..Len(Items(i)) + 1
    BY <1>1, <1>2
  <2> HIDE DEF j
  <2> QED BY <2>1, ItemProperties
<1>4. CASE d = Len(Items(i))
  <2>1. from = Len(Stream(i))
    BY <1>4, ItemProperties
  <2>2. s.buffer = <<>>
    <3> HIDE DEF from
    <3>1. from + 1 \in Int /\ s.got \in Int /\ s.got < from + 1
      BY <1>1, <1>2, <2>1
    <3> QED BY <1>1, <3>1, SubSeqEmpty
  <2>3. p.err = FALSE /\ p.panics = FALSE /\ p.cmd = <<>>
    BY <2>2 DEF ParseCommandFromBytes, Incomplete, Parsed
  <2> HIDE DEF p
  <2>4. ~p.err /\ ~p.panics /\ p.cmd = <<>>
    BY <2>3
  <2> QED BY <2>4 DEF p, d
<1>5. CASE d # Len(Items(i))
  <2> DEFINE item == Items(i)[j]
  <2>1. j \in 1..Len(Items(i)) /\ \A m \in 1..j - 1 : Items(i)[m].kind = "command"
    BY <1>1, <1>2, <1>5
  <2>2. s.got \in from..Len(Stream(i)) /\ s.got \in Nat
    <3> HIDE DEF from
    <3> QED BY <1>1, <1>2, <1>3
  <2>3. ReadsAs(script[i], j, s.got) /\ item.end \in from + 1..Len(Stream(i))
    <3> HIDE DEF j
    <3> QED BY <2>1, <2>2, ItemProperties
  <2>4. s.got >= item.end => item.end \in from..s.got
    <3> HIDE DEF from, item
    <3> QED BY <1>2, <1>3, <2>2, <2>3
  <2>5. ReadsAs(script[i], j, s.got) <=>
          /\ p.err = (s.got >= item.end /\ item.kind = "error")
          /\ p.panics = (s.got >= item.end /\ item.kind = "panic")
          /\ IF s.got >= item.end /\ item.kind = "command"
             THEN p.cmd = item.cmd /\ p.consumed = item.end - from
             ELSE p.cmd = <<>>
    BY <1>1 DEF ReadsAs, Items, Stream
  <2> HIDE DEF from, p, item, j
  <2>6. /\ p.err \/ p.panics \/ p.cmd # <<>> => item.end \in from..s.got
        /\ p.err => item.kind = "error"
        /\ p.panics => item.kind = "panic"
        /\ ~p.err /\ p.cmd # <<>> =>
             item.kind = "command" /\ p.cmd = item.cmd /\ p.consumed = item.end - from
    BY <2>3, <2>4, <2>5
  <2> QED BY <2>1, <2>6 DEF item, from, p, j, d
<1> QED BY <1>4, <1>5

\* Appending to the second of two sequences.
LEMMA AppendBehind ==
  ASSUME NEW r, NEW w, NEW x, IsSeq(r), IsSeq(w)
  PROVE  /\ r \o Append(w, x) = Append(r \o w, x)
         /\ IsSeq(r \o w) /\ IsSeq(Append(w, x))
<1>1. PICK R : r \in Seq(R)
  BY DEF IsSeq
<1>2. PICK W : w \in Seq(W)
  BY DEF IsSeq
<1> DEFINE S == R \union W \union {x}
<1>3. r \in Seq(S) /\ w \in Seq(S) /\ x \in S
  BY <1>1, <1>2
<1> HIDE DEF S
<1>4. r \o Append(w, x) = Append(r \o w, x)
  BY <1>3, AppendToSecond
<1>5. r \o w \in Seq(S) /\ Append(w, x) \in Seq(S)
  BY <1>3
<1> QED BY <1>4, <1>5 DEF IsSeq

\* A round of the parse loop answers the next command.
LEMMA ParseServed ==
  ASSUME LoopInv, AllServed, parse
  PROVE  AllServed'
<1> DEFINE i == Current
           old == state[i]
           d == Len(Told(client[i], old))
           p == ParseCommandFromBytes(old.buffer)
           a == serve(old.authed, p.cmd)
           b == SubSeq(old.buffer, p.consumed + 1, Len(old.buffer))
           r == [old EXCEPT !.buffer = b, !.authed = a.authed]
           s == queueWrite(r, a.reply)
<1>1. event.fd \in Open /\ i \in Peers
  BY CurrentConn DEF parse, Handles
<1>2. CASE close
  BY <1>1, <1>2, CloseServed
<1>3. CASE parseEnd
  <2>1. UNCHANGED <<config, client, state>>
    BY <1>3 DEF parseEnd
  <2> QED BY <2>1, ServedKept DEF AllServed
<1>4. CASE ~close /\ ~parseEnd /\ ~crash
  <2>1. /\ ~p.err /\ p.cmd # <<>>
        /\ state' = [state EXCEPT ![i] = s] /\ UNCHANGED <<config, client>>
    BY <1>4 DEF parse
  <2>2. Served(i, client[i], old) /\ script[i] \in Scripts[i]
    BY <1>1 DEF AllServed
  <2>3. client[i].phase = "open"
    BY <1>1 DEF LoopInv, NoneForgotten, Current
  <2>4. /\ DOMAIN r = {"buffer", "got", "writeBuffer", "writeEnabled", "authed"}
        /\ r.buffer = b /\ r.authed = a.authed
        /\ r.got = old.got /\ r.writeBuffer = old.writeBuffer
    <3> HIDE DEF i, b, a
    <3> QED BY <1>1 DEF LoopInv, LoopShape
  <2> HIDE DEF r
  <2>5. /\ s.buffer = b /\ s.got = old.got /\ s.authed = a.authed
        /\ s.writeBuffer = Append(old.writeBuffer, a.reply)
    <3> HIDE DEF b, a, old
    <3> QED BY <2>4 DEF queueWrite
  <2> HIDE DEF s
  <2>6. /\ d + 1 \in 1..Len(Items(i)) /\ Items(i)[d + 1].kind = "command"
        /\ Items(i)[d + 1].end \in Begin(script[i], d + 1)..old.got
        /\ p.cmd = Items(i)[d + 1].cmd
        /\ p.consumed = Items(i)[d + 1].end - Begin(script[i], d + 1)
    <3> HIDE DEF i, old
    <3> QED BY <1>1, <2>1, <2>2, ParsedNext
  <2>7. /\ d \in 0..Len(Items(i)) /\ client[i].sent \in 0..Len(Stream(i))
        /\ IsSeq(client[i].received) /\ IsSeq(old.writeBuffer)
        /\ old.got \in Begin(script[i], d + 1)..client[i].sent
        /\ old.buffer = SubSeq(Stream(i), Begin(script[i], d + 1) + 1, old.got)
        /\ old.authed = Opened(i, d + 1)
        /\ \A j \in 1..d : /\ Items(i)[j].kind = "command"
                           /\ Told(client[i], old)[j] = Expected(i, j)
    BY <2>2, <2>3 DEF Served
  <2> HIDE DEF i, old
  <2>8. /\ IsSeq(Stream(i)) /\ Len(Stream(i)) \in Nat /\ Len(Items(i)) \in Nat
        /\ Begin(script[i], d + 1) \in 0..Len(Stream(i))
        /\ Items(i)[d + 1].end = Begin(script[i], (d + 1) + 1)
        /\ Items(i)[d + 1].cmd \in Seq(STRING) \ {<<>>}
    <3> HIDE DEF d
    <3>1. Len(Items(i)) \in Nat /\ d + 1 \in 1..Len(Items(i)) + 1
      BY <1>1, <2>2, <2>6, ItemProperties
    <3> QED BY <1>1, <2>2, <2>6, <3>1, ItemProperties
  <2>9. b = SubSeq(Stream(i), Begin(script[i], (d + 1) + 1) + 1, old.got)
    <3> DEFINE from == Begin(script[i], d + 1)
               end == Items(i)[d + 1].end
    <3>1. b = SubSeq(SubSeq(Stream(i), from + 1, old.got), (end - from) + 1,
                     Len(SubSeq(Stream(i), from + 1, old.got)))
      BY <2>6, <2>7
    <3> HIDE DEF from, end, d, b
    <3>2. /\ from \in 0..Len(Stream(i)) /\ old.got \in from..Len(Stream(i)) /\ end \in from..old.got
      <4>1. from \in 0..Len(Stream(i)) /\ old.got \in from..client[i].sent /\ end \in from..old.got
            /\ client[i].sent \in 0..Len(Stream(i))
        BY <2>6, <2>7, <2>8 DEF from, end
      <4> QED BY <2>8, <4>1
    <3>3. b = SubSeq(Stream(i), end + 1, old.got)
      BY <2>8, <3>1, <3>2, CutFront
    <3> QED BY <2>8, <3>3 DEF end
  <2>10. a.reply = Expected(i, d + 1) /\ a.authed = Opened(i, (d + 1) + 1)
    <3>1. d + 1 \in Nat /\ d + 1 > 0
      BY <2>7, <2>8
    <3> HIDE DEF d, p
    <3> QED BY <2>6, <2>7, <2>8, <3>1, ServeExpected
  <2>11. /\ IsSeq(s.writeBuffer)
         /\ Told(client[i], s) = Append(Told(client[i], old), a.reply)
         /\ IsSeq(Told(client[i], old))
    <3> HIDE DEF a
    <3>1. /\ client[i].received \o Append(old.writeBuffer, a.reply)
               = Append(client[i].received \o old.writeBuffer, a.reply)
          /\ IsSeq(client[i].received \o old.writeBuffer)
          /\ IsSeq(Append(old.writeBuffer, a.reply))
      <4> DEFINE u == client[i].received
                 v == old.writeBuffer
                 y == a.reply
      <4>1. IsSeq(u) /\ IsSeq(v)
        BY <2>7
      <4> HIDE DEF u, v, y
      <4>2. u \o Append(v, y) = Append(u \o v, y) /\ IsSeq(u \o v) /\ IsSeq(Append(v, y))
        BY <4>1, AppendBehind
      <4> QED BY <4>2 DEF u, v, y
    <3> QED BY <2>5, <3>1 DEF Told
  <2>12. /\ Len(Told(client[i], s)) = d + 1 /\ Told(client[i], s)[d + 1] = a.reply
         /\ \A j \in 1..d : Told(client[i], s)[j] = Told(client[i], old)[j]
    <3>1. PICK S : Told(client[i], old) \in Seq(S)
      BY <2>11 DEF IsSeq
    <3> DEFINE T == S \union {a.reply}
               q == Told(client[i], old)
    <3> HIDE DEF a
    <3>2. q \in Seq(T) /\ a.reply \in T
      BY <3>1
    <3> HIDE DEF q, T
    <3>3. /\ Len(Append(q, a.reply)) = Len(q) + 1 /\ Append(q, a.reply)[Len(q) + 1] = a.reply
          /\ \A j \in 1..Len(q) : Append(q, a.reply)[j] = q[j]
      BY <3>2
    <3> QED BY <2>11, <3>3 DEF q
  <2>13. Served(i, client[i], s)
    <3> DEFINE e == d + 1
    <3>1. e \in 0..Len(Items(i)) /\ Len(Told(client[i], s)) = e
      BY <2>6, <2>8, <2>12
    <3>2. \A j \in 1..e : /\ Items(i)[j].kind = "command"
                          /\ Told(client[i], s)[j] = Expected(i, j)
      <4>1. ASSUME NEW j \in 1..e PROVE j \in 1..d \/ j = d + 1
        BY <2>7, <2>8, <4>1
      <4> HIDE DEF d, a
      <4> QED BY <2>6, <2>7, <2>10, <2>12, <4>1
    <3>3. /\ s.got \in Begin(script[i], e + 1)..client[i].sent
          /\ s.buffer = SubSeq(Stream(i), Begin(script[i], e + 1) + 1, s.got)
      <4>1. Items(i)[d + 1].end \in Begin(script[i], d + 1)..old.got
            /\ old.got \in Begin(script[i], d + 1)..client[i].sent
            /\ client[i].sent \in 0..Len(Stream(i))
            /\ Begin(script[i], d + 1) \in 0..Len(Stream(i))
        BY <2>6, <2>7, <2>8
      <4>2. s.got \in Items(i)[d + 1].end..client[i].sent
        <5> HIDE DEF d, b
        <5> QED BY <2>5, <2>8, <4>1
      <4> HIDE DEF d, b
      <4> QED BY <2>5, <2>8, <2>9, <4>2
    <3>4. s.authed = Opened(i, e + 1)
      BY <2>5, <2>10
    <3> HIDE DEF e
    <3> QED BY <2>3, <2>7, <2>11, <3>1, <3>2, <3>3, <3>4 DEF Served, i
  <2> QED BY <1>1, <2>1, <2>13, ServedOne
<1> QED BY <1>2, <1>3, <1>4, CrashServed

\* A read takes what has come, all of it or as much as one read returns.
LEMMA ReadCount ==
  ASSUME NEW got \in Nat, NEW sent \in Nat, got <= sent, ReadSize \in Nat
  PROVE  Min({sent, got + ReadSize}) \in got..sent
<1> DEFINE m == got + ReadSize
           n == Min({sent, m})
<1>1. m \in Nat /\ got <= m
  OBVIOUS
<1> HIDE DEF m
<1>2. \E x \in {sent, m} : \A y \in {sent, m} : x <= y
  BY <1>1
<1>3. n \in {sent, m} /\ n <= sent
  BY <1>2 DEF Min
<1> HIDE DEF n
<1>4. n \in got..sent
  BY <1>1, <1>3
<1> QED BY <1>4 DEF n, m

\* Every step of clients and loop keeps the replies those to the commands.
LEMMA ServedStep ==
  ASSUME LoopInv, AllServed, [LoopNext]_loopVars
  PROVE  AllServed'
<1>1. CASE Clients
  BY <1>1, ClientsServed
<1>2. ASSUME NEW i \in Peers, accept(i) PROVE AllServed'
  BY <1>2, AcceptServed
<1>3. ASSUME UNCHANGED <<config, client, state>> PROVE AllServed'
  BY <1>3, ServedKept DEF AllServed
<1>4. CASE Poll \/ (\E e \in batch : Dispatch(e)) \/ return \/ UNCHANGED loopVars
  BY <1>3, <1>4 DEF Poll, Dispatch, return, loopVars
<1>5. CASE closeGone
  BY <1>5, CloseServed DEF closeGone, Handles
<1>6. ASSUME event.fd \in Open
      PROVE  /\ state[Current].got \in Nat /\ client[Current].sent \in Nat
             /\ state[Current].got <= client[Current].sent
  <2>1. Current \in Peers
    BY <1>6, CurrentConn
  <2> DEFINE i == Current
             d == Len(Told(client[i], state[i]))
  <2>2. Served(i, client[i], state[i]) /\ script[i] \in Scripts[i]
    BY <2>1 DEF AllServed
  <2>3. /\ d \in 0..Len(Items(i)) /\ client[i].sent \in 0..Len(Stream(i))
        /\ state[i].got \in Begin(script[i], d + 1)..client[i].sent
    BY <2>2 DEF Served
  <2> HIDE DEF i, d
  <2>4. Len(Items(i)) \in Nat /\ Len(Stream(i)) \in Nat
    BY <2>1, <2>2, ItemProperties DEF i
  <2>5. d + 1 \in 1..Len(Items(i)) + 1
    BY <2>3, <2>4
  <2>6. Begin(script[i], d + 1) \in 0..Len(Stream(i))
    BY <2>1, <2>2, <2>5, ItemProperties DEF i
  <2>7. state[i].got \in Nat /\ client[i].sent \in Nat /\ state[i].got <= client[i].sent
    BY <2>3, <2>4, <2>6
  <2> QED BY <2>7 DEF i
<1>7. CASE readLinux
  <2>1. event.fd \in Open
    BY <1>7 DEF readLinux, Handles
  <2>2. close \/ Fetch(client[Current].sent)
    BY <1>7 DEF readLinux
  <2>3. client[Current].sent \in state[Current].got..client[Current].sent
    BY <1>6, <2>1
  <2> QED BY <2>1, <2>2, <2>3, CloseServed, FetchServed
<1>8. CASE readDarwin
  <2> DEFINE n == Min({client[Current].sent, state[Current].got + ReadSize})
  <2>1. event.fd \in Open
    BY <1>8 DEF readDarwin, Handles
  <2>2. close \/ Fetch(n) \/ UNCHANGED <<config, client, state>>
    BY <1>8 DEF readDarwin
  <2>3. n \in state[Current].got..client[Current].sent
    <3>1. ReadSize \in Nat
      BY EventLoopAssumption
    <3> QED BY <1>6, <2>1, <3>1, ReadCount
  <2> HIDE DEF n
  <2> QED BY <1>3, <2>1, <2>2, <2>3, CloseServed, FetchServed
<1>9. CASE parse
  BY <1>9, ParseServed
<1>10. CASE write
  BY <1>10, WriteServed
<1> QED BY <1>1, <1>2, <1>4, <1>5, <1>7, <1>8, <1>9, <1>10 DEF LoopNext, Loop

\* At first nothing was sent and nobody was told anything.
LEMMA ServedInit == LoopInit => AllServed
<1> SUFFICES ASSUME LoopInit PROVE AllServed
  OBVIOUS
<1>1. /\ poller \in {"epoll", "kqueue"} /\ auth \in {"off", "password", "required"}
      /\ \A i \in Peers : script[i] \in Scripts[i]
  BY EventLoopAssumption DEF LoopInit
<1>2. ASSUME NEW i \in Peers PROVE Served(i, client[i], state[i])
  <2>1. client[i] = NewClient /\ state[i] = NewState
    BY DEF LoopInit
  <2>2. /\ client[i].received = <<>> /\ client[i].sent = 0 /\ client[i].phase = "away"
        /\ state[i].buffer = <<>> /\ state[i].got = 0 /\ state[i].writeBuffer = <<>>
    BY <2>1 DEF NewClient, NewState
  <2>3. IsSeq(<<>>)
    <3>1. <<>> \in Seq({})
      OBVIOUS
    <3> QED BY <3>1 DEF IsSeq
  <2>4. Len(Told(client[i], state[i])) = 0
    BY <2>2 DEF Told
  <2>5. Begin(script[i], 0 + 1) = 0
    BY DEF Begin
  <2>6. Len(Items(i)) \in Nat /\ Len(Stream(i)) \in Nat
    BY <1>1, ItemProperties
  <2>7. SubSeq(Stream(i), 0 + 1, 0) = <<>>
    BY SubSeqEmpty
  <2> QED BY <2>2, <2>3, <2>4, <2>5, <2>6, <2>7 DEF Served
<1> QED BY <1>1, <1>2 DEF AllServed

\* Later items are further on in the stream.
LEMMA ItemsRise ==
  ASSUME NEW i \in Peers, script[i] \in Scripts[i],
         NEW a \in 1..Len(Items(i)) + 1, NEW b \in 1..Len(Items(i)) + 1, a <= b
  PROVE  Begin(script[i], a) <= Begin(script[i], b)
<1> DEFINE L == Len(Items(i))
           D == {m \in Nat : a + m <= L + 1 /\ Begin(script[i], a + m) < Begin(script[i], a)}
<1>1. L \in Nat /\ Len(Stream(i)) \in Nat
  BY ItemProperties
<1>2. \A j \in 1..L + 1 : Begin(script[i], j) \in Nat
  BY <1>1, ItemProperties
<1>3. \A j \in 1..L : Begin(script[i], j + 1) \in Begin(script[i], j) + 1..Len(Stream(i))
  BY ItemProperties
<1> HIDE DEF L
<1>4. a \in Nat /\ b \in Nat /\ a >= 1 /\ a \in 1..L + 1 /\ b \in 1..L + 1
  BY <1>1 DEF L
<1>5. D = {}
  <2> SUFFICES ASSUME D # {} PROVE FALSE
    OBVIOUS
  <2>1. PICK m \in D : \A l \in D : m <= l
    <3>1. D \subseteq Nat
      OBVIOUS
    <3> HIDE DEF D
    <3> QED BY <3>1, LeastNatural
  <2>2. m \in Nat /\ a + m <= L + 1 /\ Begin(script[i], a + m) < Begin(script[i], a)
    OBVIOUS
  <2> HIDE DEF D
  <2>3. m # 0
    <3>1. ~(Begin(script[i], a) < Begin(script[i], a)) /\ a + 0 = a
      BY <1>2, <1>4
    <3> QED BY <2>2, <3>1
  <2>4. /\ m - 1 \in Nat /\ a + (m - 1) \in 1..L /\ (a + (m - 1)) + 1 = a + m
        /\ a + (m - 1) <= L + 1 /\ a + (m - 1) \in 1..L + 1 /\ a + m \in 1..L + 1
        /\ ~(m <= m - 1)
    BY <1>1, <1>4, <2>2, <2>3
  <2>5. ~(Begin(script[i], a + (m - 1)) < Begin(script[i], a))
    <3>1. m - 1 \notin D
      BY <2>1, <2>4
    <3> QED BY <2>4, <3>1 DEF D
  <2>6. /\ Begin(script[i], a + m) \in Begin(script[i], a + (m - 1)) + 1..Len(Stream(i))
        /\ Begin(script[i], a + (m - 1)) \in Nat /\ Begin(script[i], a) \in Nat
    BY <1>2, <1>3, <1>4, <2>4
  <2> QED BY <1>1, <2>2, <2>5, <2>6
<1>6. b - a \in Nat /\ a + (b - a) = b /\ b <= L + 1
  BY <1>1, <1>4
<1> HIDE DEF D
<1>7. ~(Begin(script[i], b) < Begin(script[i], a))
  BY <1>5, <1>6 DEF D
<1>8. Begin(script[i], a) \in Nat /\ Begin(script[i], b) \in Nat
  BY <1>2, <1>4
<1> QED BY <1>7, <1>8

\* What was told, and is still to be told, answers the commands that came.
LEMMA ServedAnswers == AllServed => AnswersInOrder
<1> SUFFICES ASSUME AllServed, NEW i \in Peers, NEW j \in DOMAIN Replies(i)
             PROVE  j \in Commands(i) /\ Replies(i)[j] = Expected(i, j)
  BY DEF AnswersInOrder
<1> DEFINE d == Len(Told(client[i], state[i]))
<1>1. Served(i, client[i], state[i]) /\ script[i] \in Scripts[i]
  BY DEF AllServed
<1>2. Replies(i) = Told(client[i], state[i])
  BY DEF Replies, Told
<1>3. /\ IsSeq(client[i].received) /\ IsSeq(state[i].writeBuffer)
      /\ d \in 0..Len(Items(i)) /\ client[i].sent \in 0..Len(Stream(i))
      /\ state[i].got \in Begin(script[i], d + 1)..client[i].sent
      /\ \A m \in 1..d : Items(i)[m].kind = "command" /\ Replies(i)[m] = Expected(i, m)
  BY <1>1, <1>2 DEF Served
<1>4. Len(Items(i)) \in Nat /\ Len(Stream(i)) \in Nat /\ DOMAIN Items(i) = 1..Len(Items(i))
  BY <1>1, ItemProperties DEF IsSeq
<1>5. j \in 1..d
  <2>1. PICK R : client[i].received \in Seq(R)
    BY <1>3 DEF IsSeq
  <2>2. PICK W : state[i].writeBuffer \in Seq(W)
    BY <1>3 DEF IsSeq
  <2>3. Replies(i) \in Seq(R \union W)
    BY <2>1, <2>2 DEF Replies
  <2> QED BY <1>2, <2>3
<1> HIDE DEF d
<1>6. d \in Nat /\ j \in 1..Len(Items(i)) /\ \A m \in 1..j : m \in 1..d
  BY <1>3, <1>4, <1>5
<1>7. Items(i)[j].end <= client[i].sent
  <2>1. Items(i)[j].end = Begin(script[i], j + 1)
    BY <1>1, <1>6, ItemProperties
  <2> DEFINE L == Len(Items(i))
  <2>2. d \in 0..L /\ L \in Nat /\ j \in 1..d
    BY <1>3, <1>4, <1>5
  <2> HIDE DEF L
  <2>3. /\ d + 1 \in 1..L + 1 /\ j + 1 \in 1..L + 1 /\ j + 1 <= d + 1
    BY <2>2
  <2>4. /\ Items(i)[j].end = Begin(script[i], j + 1)
        /\ d + 1 \in 1..Len(Items(i)) + 1
        /\ j + 1 \in 1..Len(Items(i)) + 1 /\ j + 1 <= d + 1
    BY <2>1, <2>3 DEF L
  <2>5. /\ Begin(script[i], j + 1) \in 0..Len(Stream(i))
        /\ Begin(script[i], d + 1) \in 0..Len(Stream(i))
    BY <1>1, <2>4, ItemProperties
  <2>6. Begin(script[i], j + 1) <= Begin(script[i], d + 1)
    BY <1>1, <2>4, ItemsRise
  <2> QED BY <1>3, <1>4, <2>4, <2>5, <2>6
<1> QED BY <1>3, <1>4, <1>5, <1>6, <1>7 DEF Commands, Arrived

\* However the stream is cut, whatever is read and written when, and however
\* the loop gets at its events, the replies are those to the commands sent,
\* one each and in order, and none is executed before a successful AUTH.
THEOREM AnswersCorrect == LoopSpec => []AnswersInOrder
<1>1. LoopInit => LoopInv /\ AllServed
  BY LoopInitInv, ServedInit
<1>2. LoopInv /\ AllServed /\ [LoopNext]_loopVars => (LoopInv /\ AllServed)'
  BY LoopStep, ServedStep
<1>3. LoopInv /\ AllServed => AnswersInOrder
  BY ServedAnswers
<1> QED BY <1>1, <1>2, <1>3, PTL DEF LoopSpec

-----------------------------------------------------------------------------
(* Why connections are closed *)

\* An event is as good as it was if descriptors are the same and nobody who
\* was gone is back.
LEMMA EventKept ==
  ASSUME NEW e, EventOK(e), NEW g, UNCHANGED <<poller, connections>>,
         \A i \in Peers : client[i].gone # "no" => client'[i].gone # "no",
         DOMAIN g = DOMAIN e, g.fd = e.fd, g.owner = e.owner,
         "close" \in g.todo => "close" \in e.todo
  PROVE  EventOK(g)'
<1>1. /\ DOMAIN e = {"fd", "owner", "filter", "todo"}
      /\ e.fd = 0 => "close" \notin e.todo
      /\ e.fd # 0 => e.fd \in Fds /\ e.owner \in Peers
      /\ "close" \in e.todo => client[e.owner].gone # "no"
      /\ poller = "epoll" /\ e.fd # 0 => e.fd \in Open /\ connections[e.fd] = e.owner
  BY DEF EventOK
<1>2. Open' = Open
  BY DEF Open
<1>3. "close" \in g.todo => client'[g.owner].gone # "no"
  BY <1>1
<1> QED BY <1>1, <1>2, <1>3 DEF EventOK

\* No event is fine.
LEMMA NoEvent == EventOK(None) /\ None.fd = 0 /\ EventOK(None)'
BY DEF EventOK, None

\* Handling an event to its end, or a part of it.
LEMMA EventsKept ==
  ASSUME EventsInv, UNCHANGED <<poller, connections, batch>>,
         \A i \in Peers : client[i].gone # "no" => client'[i].gone # "no",
         \/ event' = None
         \/ /\ DOMAIN event' = DOMAIN event /\ event'.fd = event.fd /\ event'.owner = event.owner
            /\ "close" \in event'.todo => "close" \in event.todo
  PROVE  EventsInv'
<1>1. EventOK(event)'
  <2>1. CASE event' = None
    <3>1. EventOK(None)' <=> EventOK(event)'
      BY <2>1 DEF EventOK, Open, None
    <3> QED BY <3>1, NoEvent
  <2>2. CASE /\ DOMAIN event' = DOMAIN event /\ event'.fd = event.fd /\ event'.owner = event.owner
             /\ "close" \in event'.todo => "close" \in event.todo
    <3>1. /\ DOMAIN event = {"fd", "owner", "filter", "todo"}
          /\ event.fd = 0 => "close" \notin event.todo
          /\ event.fd # 0 => event.fd \in Fds /\ event.owner \in Peers
          /\ "close" \in event.todo => client[event.owner].gone # "no"
          /\ poller = "epoll" /\ event.fd # 0 =>
               event.fd \in Open /\ connections[event.fd] = event.owner
      BY DEF EventsInv, EventOK
    <3>2. Open' = Open
      BY DEF Open
    <3>3. "close" \in event'.todo => client'[event'.owner].gone # "no"
      BY <2>2, <3>1
    <3> QED BY <2>2, <3>1, <3>2, <3>3 DEF EventOK
  <2> QED BY <2>1, <2>2
<1>2. ASSUME NEW e \in batch PROVE EventOK(e)'
  <2>1. EventOK(e)
    BY DEF EventsInv
  <2> QED BY <2>1, EventKept
<1>3. event'.fd = event.fd \/ event'.fd = 0
  BY NoEvent
<1> QED BY <1>1, <1>2, <1>3 DEF EventsInv

\* The clients gone stay gone.
LEMMA GoneForGood ==
  ASSUME LoopInv, LoopNext, NEW i \in Peers, client[i].gone # "no"
  PROVE  client'[i].gone # "no"
<1>1. /\ client = [j \in Peers |-> client[j]]
      /\ DOMAIN client[i] = {"phase", "sent", "gone", "unread", "received"}
  BY DEF LoopInv, LoopShape
<1>2. ASSUME NEW j \in Peers, Connect(j) PROVE client'[i].gone # "no"
  BY <1>1, <1>2 DEF Connect
<1>3. ASSUME NEW j \in Peers, NEW n, Send(j, n) PROVE client'[i].gone # "no"
  BY <1>1, <1>3 DEF Send
<1>4. ASSUME NEW j \in Peers, Receive(j) PROVE client'[i].gone # "no"
  BY <1>1, <1>4 DEF Receive
<1>5. ASSUME NEW j \in Peers, NEW how \in {"fin", "rst"}, Leave(j, how) PROVE client'[i].gone # "no"
  BY <1>1, <1>5 DEF Leave
<1>6. ASSUME NEW j \in Peers, accept(j) PROVE client'[i].gone # "no"
  BY <1>1, <1>6 DEF accept
<1>7. ASSUME close PROVE client'[i].gone # "no"
  BY <1>1, <1>7 DEF close
<1>8. ASSUME crash \/ UNCHANGED client PROVE client'[i].gone # "no"
  BY <1>1, <1>8 DEF crash
<1>9. CASE Clients
  BY <1>2, <1>3, <1>4, <1>5, <1>9 DEF Clients
<1>10. CASE Poll \/ (\E e \in batch : Dispatch(e)) \/ return
  BY <1>8, <1>10 DEF Poll, Dispatch, return
<1>11. CASE closeGone \/ readLinux \/ readDarwin
  BY <1>7, <1>8, <1>11 DEF closeGone, readLinux, readDarwin, Fetch
<1>12. CASE parse
  BY <1>7, <1>8, <1>12 DEF parse, parseEnd
<1>13. CASE write
  <2> DEFINE k == Current
             w == state[k].writeBuffer
             n == Min({Len(w), SockBuf - client[k].unread})
             u == client[k].unread + n
             r == client[k].received \o SubSeq(w, 1, n)
  <2>1. close \/ client' = [client EXCEPT ![k].unread = u, ![k].received = r]
    <3>1. close \/ client' = [client EXCEPT ![k].unread = @ + n, ![k].received = @ \o SubSeq(w, 1, n)]
      BY <1>13 DEF write
    <3>2. event.fd \in Open /\ k \in Peers
      BY <1>13, CurrentConn DEF write, Handles
    <3> HIDE DEF k, n, w
    <3> QED BY <1>1, <3>1, <3>2 DEF LoopInv, LoopShape
  <2> HIDE DEF k, u, r
  <2> QED BY <1>1, <1>7, <2>1
<1> QED BY <1>6, <1>9, <1>10, <1>11, <1>12, <1>13 DEF LoopNext, Loop

\* What epoll reports of a descriptor.
LEMMA EpollEventsOK ==
  ASSUME LoopInv, NEW fd \in Open, NEW e \in EpollEvents(fd)
  PROVE  /\ EventOK(e) /\ e.fd = fd
         /\ \A f \in EpollEvents(fd) : e = f
<1> DEFINE i == connections[fd]
           todo == (IF client[i].gone = "rst" THEN {"close"} ELSE {}) \union
                   (IF Pending(i) \/ client[i].gone = "fin" THEN {"read"} ELSE {}) \union
                   (IF Room(i) THEN {"write"} ELSE {})
           r == [fd |-> fd, owner |-> i, filter |-> "all", todo |-> todo]
<1>1. fd \in Fds /\ fd # 0 /\ i \in Peers
  BY EventLoopAssumption DEF LoopInv, LoopShape, Open
<1>2. "close" \in todo => client[i].gone # "no"
  BY DEF todo
<1> HIDE DEF todo, i
<1>3. EpollEvents(fd) = {[fd |-> fd, owner |-> i, filter |-> "all", todo |-> t] : t \in {todo} \ {{}}}
  BY DEF EpollEvents, todo, i
<1>4. \A f \in EpollEvents(fd) : f = r
  BY <1>3
<1>5. EventOK(r)
  BY <1>1, <1>2 DEF EventOK, i
<1> QED BY <1>4, <1>5

\* What kqueue reports of a descriptor.
LEMMA KqueueEventsOK ==
  ASSUME LoopInv, poller # "epoll", NEW fd \in Open, NEW e \in KqueueEvents(fd)
  PROVE  EventOK(e)
<1> DEFINE i == connections[fd]
           reads == IF client[i].gone # "no" THEN {"close"} ELSE IF Pending(i) THEN {"read"} ELSE {}
           writes == IF ~state[i].writeEnabled THEN {}
                     ELSE IF client[i].gone = "rst" THEN {"close"}
                     ELSE IF Room(i) THEN {"write"} ELSE {}
<1>1. fd \in Fds /\ fd # 0 /\ i \in Peers
  BY EventLoopAssumption DEF LoopInv, LoopShape, Open
<1>2. ("close" \in reads \/ "close" \in writes) => client[i].gone # "no"
  OBVIOUS
<1> HIDE DEF reads, writes, i
<1>3. \E f, t : e = [fd |-> fd, owner |-> i, filter |-> f, todo |-> {t}] /\ (t \in reads \/ t \in writes)
  BY DEF KqueueEvents, reads, writes, i
<1>4. PICK f, t : e = [fd |-> fd, owner |-> i, filter |-> f, todo |-> {t}] /\ (t \in reads \/ t \in writes)
  BY <1>3
<1> QED BY <1>1, <1>2, <1>4 DEF EventOK

\* Polling.
LEMMA PollEvents ==
  ASSUME LoopInv, EventsInv, Poll
  PROVE  EventsInv'
<1>1. /\ event = None /\ batch' = Ready
      /\ UNCHANGED <<poller, client, connections, event>>
  BY DEF Poll, config
<1>2. ASSUME NEW e PROVE EventOK(e)' <=> EventOK(e)
  BY <1>1 DEF EventOK, Open
<1>3. EventOK(Listener) /\ Listener.fd = 0
  BY DEF EventOK, Listener
<1>4. \A e \in Ready : \/ e = Listener
                       \/ \E fd \in Open : e \in IF poller = "epoll" THEN EpollEvents(fd)
                                                 ELSE KqueueEvents(fd)
  BY DEF Ready
<1>5. \A e \in Ready : EventOK(e)
  BY <1>3, <1>4, EpollEventsOK, KqueueEventsOK
<1>6. EventOK(event)'
  <2>1. EventOK(event)' <=> EventOK(None)'
    BY <1>1 DEF EventOK, Open, None
  <2> QED BY <2>1, NoEvent
<1>7. ASSUME poller = "epoll", NEW e \in Ready, e.fd # 0
      PROVE  e.fd # event'.fd /\ \A f \in Ready : e.fd = f.fd => e = f
  <2>1. event'.fd = 0
    BY <1>1, NoEvent
  <2>2. \A g \in Ready : g.fd # 0 => \E fd \in Open : g \in EpollEvents(fd) /\ g.fd = fd
    BY <1>3, <1>4, <1>7, EpollEventsOK
  <2> QED BY <1>7, <2>1, <2>2, EpollEventsOK
<1> QED BY <1>1, <1>2, <1>5, <1>6, <1>7 DEF EventsInv

\* The next event of the batch.
LEMMA DispatchEvents ==
  ASSUME EventsInv, NEW e \in batch, Dispatch(e)
  PROVE  EventsInv'
<1>1. event' = e /\ batch' = batch \ {e} /\ UNCHANGED <<poller, client, connections>>
  BY DEF Dispatch, config
<1>2. ASSUME NEW f PROVE EventOK(f)' <=> EventOK(f)
  BY <1>1 DEF EventOK, Open
<1>3. EventOK(event)' <=> EventOK(e)
  BY <1>1 DEF EventOK, Open
<1> QED BY <1>1, <1>2, <1>3 DEF EventsInv

\* A connection is accepted under a descriptor no event is for.
LEMMA AcceptEvents ==
  ASSUME LoopInv, EventsInv, NEW i \in Peers, accept(i),
         \A j \in Peers : client[j].gone # "no" => client'[j].gone # "no"
  PROVE  EventsInv'
<1> DEFINE fd == Min(Fds \ Open)
<1>1. /\ connections' = [connections EXCEPT ![fd] = i]
      /\ UNCHANGED <<poller, batch, event>>
  BY DEF accept, config
<1>2. fd \in Fds /\ fd \notin Open
  <2>1. Fds \ Open \subseteq Nat /\ Fds \ Open # {}
    BY EventLoopAssumption DEF accept, Open
  <2>2. PICK x \in Fds \ Open : \A y \in Fds \ Open : x <= y
    BY <2>1, LeastNatural
  <2>3. fd \in Fds \ Open
    BY <2>2 DEF Min
  <2> QED BY <2>3
<1> HIDE DEF fd
<1>3. \A d \in Open : d \in Open' /\ connections'[d] = connections[d]
  BY <1>1, <1>2 DEF Open, LoopInv, LoopShape
<1>4. ASSUME NEW e, EventOK(e) PROVE EventOK(e)'
  BY <1>1, <1>3, <1>4 DEF EventOK
<1>5. EventOK(event)'
  <2>1. /\ DOMAIN event = {"fd", "owner", "filter", "todo"}
        /\ event.fd = 0 => "close" \notin event.todo
        /\ event.fd # 0 => event.fd \in Fds /\ event.owner \in Peers
        /\ "close" \in event.todo => client[event.owner].gone # "no"
        /\ poller = "epoll" /\ event.fd # 0 =>
             event.fd \in Open /\ connections[event.fd] = event.owner
    BY DEF EventsInv, EventOK
  <2> QED BY <1>1, <1>3, <2>1 DEF EventOK
<1> QED BY <1>1, <1>4, <1>5 DEF EventsInv

\* A descriptor that is closed has no event left in epoll's batch.
LEMMA CloseEvents ==
  ASSUME LoopInv, EventsInv, event.fd \in Open, close,
         \A j \in Peers : client[j].gone # "no" => client'[j].gone # "no"
  PROVE  EventsInv'
<1>1. /\ connections' = [connections EXCEPT ![event.fd] = 0]
      /\ UNCHANGED <<poller, batch>> /\ event' = None
  BY DEF close, config
<1>2. event.fd \in Fds /\ event.fd # 0
  BY EventLoopAssumption DEF Open
<1>3. \A d \in Open : d # event.fd => d \in Open' /\ connections'[d] = connections[d]
  BY <1>1 DEF Open, LoopInv, LoopShape
<1>4. EventOK(event)' /\ event'.fd = 0
  <2>1. EventOK(event)' <=> EventOK(None)'
    BY <1>1 DEF EventOK, Open, None
  <2> QED BY <1>1, <2>1, NoEvent
<1>5. ASSUME NEW e \in batch PROVE EventOK(e)'
  <2>1. EventOK(e) /\ (poller = "epoll" /\ e.fd # 0 => e.fd # event.fd)
    BY DEF EventsInv
  <2> QED BY <1>1, <1>3, <2>1 DEF EventOK
<1> QED BY <1>1, <1>4, <1>5 DEF EventsInv

\* When the process ends no event is left.
LEMMA CrashEvents ==
  ASSUME crash
  PROVE  EventsInv'
<1>1. batch' = {} /\ event' = None
  BY DEF crash
<1>2. EventOK(event)' <=> EventOK(None)'
  BY <1>1 DEF EventOK, Open, None
<1> QED BY <1>1, <1>2, NoEvent DEF EventsInv

\* Every step of clients and loop keeps the events in order.
LEMMA EventsStep ==
  ASSUME LoopInv, EventsInv, [LoopNext]_loopVars
  PROVE  EventsInv'
<1>1. \A j \in Peers : client[j].gone # "no" => client'[j].gone # "no"
  BY GoneForGood DEF loopVars
<1>2. ASSUME UNCHANGED <<poller, connections, batch, event>> PROVE EventsInv'
  BY <1>1, <1>2, EventsKept
<1>3. ASSUME UNCHANGED <<poller, connections, batch>>, NEW todo, Continue(todo),
             "close" \in todo => "close" \in event.todo
      PROVE  EventsInv'
  <2>1. DOMAIN event = {"fd", "owner", "filter", "todo"}
    BY DEF EventsInv, EventOK
  <2>2. \/ event' = None
        \/ /\ DOMAIN event' = DOMAIN event /\ event'.fd = event.fd /\ event'.owner = event.owner
           /\ event'.todo = todo
    BY <1>3, <2>1 DEF Continue
  <2> QED BY <1>1, <1>3, <2>2, EventsKept
<1>4. CASE Clients \/ UNCHANGED loopVars
  BY <1>2, <1>4 DEF Clients, Connect, Send, Receive, Leave, loopVars, config
<1>5. CASE Poll
  BY <1>5, PollEvents
<1>6. ASSUME NEW e \in batch, Dispatch(e) PROVE EventsInv'
  BY <1>6, DispatchEvents
<1>7. ASSUME NEW i \in Peers, accept(i) PROVE EventsInv'
  BY <1>1, <1>7, AcceptEvents
<1>8. ASSUME event.fd \in Open, close PROVE EventsInv'
  BY <1>1, <1>8, CloseEvents
<1>9. CASE closeGone
  BY <1>8, <1>9 DEF closeGone, Handles
<1>10. ASSUME NEW n, Fetch(n) PROVE EventsInv'
  <2> DEFINE todo == (event.todo \ {"read"}) \union {"parse"}
  <2>1. UNCHANGED <<poller, connections, batch>> /\ Continue(todo)
    BY <1>10 DEF Fetch, config
  <2>2. "close" \in todo => "close" \in event.todo
    OBVIOUS
  <2> HIDE DEF todo
  <2> QED BY <1>3, <2>1, <2>2
<1>11. CASE readLinux
  BY <1>8, <1>10, <1>11 DEF readLinux, Handles
<1>12. CASE readDarwin
  <2>1. event.fd \in Open
    BY <1>12 DEF readDarwin, Handles
  <2>2. close \/ (\E n : Fetch(n)) \/ (Continue({}) /\ UNCHANGED <<poller, connections, batch>>)
    BY <1>12 DEF readDarwin, config
  <2> QED BY <1>3, <1>8, <1>10, <2>1, <2>2
<1>13. CASE parse
  <2>1. event.fd \in Open
    BY <1>13 DEF parse, Handles
  <2>2. close \/ parseEnd \/ crash \/ UNCHANGED <<poller, connections, batch, event>>
    BY <1>13 DEF parse, config
  <2>3. ASSUME parseEnd PROVE EventsInv'
    <3>1. UNCHANGED <<poller, connections, batch>> /\ Continue(event.todo \ {"parse"})
      BY <2>3 DEF parseEnd, config
    <3> QED BY <1>3, <3>1
  <2> QED BY <1>2, <1>8, <2>1, <2>2, <2>3, CrashEvents
<1>14. CASE write
  <2>1. event.fd \in Open
    BY <1>14 DEF write, Handles
  <2>2. close \/ (Continue({}) /\ UNCHANGED <<poller, connections, batch>>)
    BY <1>14 DEF write, config
  <2> QED BY <1>3, <1>8, <2>1, <2>2
<1>15. CASE return
  BY <1>3, <1>15 DEF return, config
<1> QED BY <1>4, <1>5, <1>6, <1>7, <1>9, <1>11, <1>12, <1>13, <1>14, <1>15 DEF LoopNext, Loop

\* At first there are no events.
LEMMA EventsInit == LoopInit => EventsInv
<1> SUFFICES ASSUME LoopInit PROVE EventsInv
  OBVIOUS
<1>1. event = None /\ batch = {}
  BY DEF LoopInit
<1>2. EventOK(event)
  BY <1>1 DEF EventOK, None
<1> QED BY <1>1, <1>2 DEF EventsInv

\* A connection may be closed.
Cause(i) ==
  \/ client[i].gone # "no"
  \/ \E j \in Arrived(i) : Items(i)[j].kind = "error"
  \/ \E m \in Peers : \E j \in Arrived(m) : Items(m)[j].kind = "panic"
  \/ poller = "kqueue" /\ event.owner # i

\* The only connection a close closes is the one whose event is handled.
LEMMA OnlyCurrentCloses ==
  ASSUME LoopInv, close, NEW i \in Peers, client[i].phase = "open", client'[i].phase = "closed"
  PROVE  i = Current
BY DEF close, LoopInv, LoopShape

\* Without a close or the end of the process, no connection is closed.
LEMMA OnlyClosesClose ==
  ASSUME LoopInv, LoopNext, NEW i \in Peers, client[i].phase = "open", client'[i].phase = "closed"
  PROVE  \/ parse /\ ParseCommandFromBytes(state[Current].buffer).panics
         \/ /\ close
            /\ \/ closeGone
               \/ readLinux /\ client[Current].gone # "no"
               \/ readDarwin /\ client[Current].gone # "no"
               \/ parse /\ ParseCommandFromBytes(state[Current].buffer).err
               \/ write /\ client[Current].gone = "rst"
<1>1. /\ client = [j \in Peers |-> client[j]]
      /\ \A j \in Peers : DOMAIN client[j] = {"phase", "sent", "gone", "unread", "received"}
  BY DEF LoopInv, LoopShape
<1>2. ~ UNCHANGED client
  OBVIOUS
<1>3. ~Clients
  <2>1. ASSUME NEW j \in Peers, Connect(j) PROVE FALSE
    BY <1>1, <2>1 DEF Connect
  <2>2. ASSUME NEW j \in Peers, NEW n, Send(j, n) PROVE FALSE
    BY <1>1, <2>2 DEF Send
  <2>3. ASSUME NEW j \in Peers, Receive(j) PROVE FALSE
    BY <1>1, <2>3 DEF Receive
  <2>4. ASSUME NEW j \in Peers, NEW how, Leave(j, how) PROVE FALSE
    BY <1>1, <2>4 DEF Leave
  <2> QED BY <2>1, <2>2, <2>3, <2>4 DEF Clients
<1>4. ASSUME NEW j \in Peers, accept(j) PROVE FALSE
  BY <1>1, <1>4 DEF accept
<1>5. ~Poll /\ ~(\E e \in batch : Dispatch(e)) /\ ~return
  BY <1>2 DEF Poll, Dispatch, return
<1>6. CASE closeGone
  BY <1>6 DEF closeGone
<1>7. CASE readLinux
  BY <1>2, <1>7 DEF readLinux, Fetch
<1>8. CASE readDarwin
  <2>1. close /\ client[Current].gone # "no"
    BY <1>2, <1>8 DEF readDarwin, Fetch
  <2> QED BY <1>8, <2>1
<1>9. CASE parse
  <2>1. \/ ParseCommandFromBytes(state[Current].buffer).panics
        \/ close /\ ParseCommandFromBytes(state[Current].buffer).err
    BY <1>2, <1>9 DEF parse, parseEnd
  <2> QED BY <1>9, <2>1
<1>10. CASE write
  <2> DEFINE k == Current
             w == state[k].writeBuffer
             n == Min({Len(w), SockBuf - client[k].unread})
             u == client[k].unread + n
             r == client[k].received \o SubSeq(w, 1, n)
  <2>1. \/ close /\ client[k].gone = "rst"
        \/ client' = [client EXCEPT ![k].unread = @ + n, ![k].received = @ \o SubSeq(w, 1, n)]
    BY <1>10 DEF write
  <2>2. k \in Peers
    BY <1>10, CurrentConn DEF write, Handles
  <2>3. \/ close /\ client[k].gone = "rst"
        \/ client' = [client EXCEPT ![k].unread = u, ![k].received = r]
    <3> HIDE DEF k, n, w
    <3> QED BY <1>1, <2>1, <2>2
  <2>4. client' # [client EXCEPT ![k].unread = u, ![k].received = r]
    <3> HIDE DEF k, u, r
    <3> QED BY <1>1
  <2> QED BY <1>10, <2>3, <2>4
<1> QED BY <1>3, <1>4, <1>5, <1>6, <1>7, <1>8, <1>9, <1>10 DEF LoopNext, Loop

\* What the parser stumbles over is an item that has arrived.
LEMMA StumblesOver ==
  ASSUME AllServed, NEW i \in Peers, NEW p, p = ParseCommandFromBytes(state[i].buffer),
         p.err \/ p.panics
  PROVE  \E j \in Arrived(i) : /\ p.err => Items(i)[j].kind = "error"
                               /\ p.panics => Items(i)[j].kind = "panic"
<1> DEFINE d == Len(Told(client[i], state[i]))
           j == d + 1
<1>1. Served(i, client[i], state[i]) /\ script[i] \in Scripts[i]
  BY DEF AllServed
<1>2. /\ j \in 1..Len(Items(i)) /\ Items(i)[j].end \in Begin(script[i], j)..state[i].got
      /\ p.err => Items(i)[j].kind = "error"
      /\ p.panics => Items(i)[j].kind = "panic"
  BY <1>1, ParsedNext
<1>3. client[i].sent \in 0..Len(Stream(i)) /\ state[i].got \in Begin(script[i], j)..client[i].sent
  BY <1>1 DEF Served
<1> HIDE DEF j
<1>4. /\ Len(Stream(i)) \in Nat /\ Len(Items(i)) \in Nat /\ DOMAIN Items(i) = 1..Len(Items(i))
      /\ j \in 1..Len(Items(i)) + 1 => Begin(script[i], j) \in 0..Len(Stream(i))
  BY <1>1, ItemProperties DEF IsSeq
<1>5. Begin(script[i], j) \in Nat
  BY <1>2, <1>4
<1>6. Items(i)[j].end <= client[i].sent
  BY <1>2, <1>3, <1>4, <1>5
<1>7. j \in Arrived(i)
  BY <1>2, <1>4, <1>6 DEF Arrived
<1> QED BY <1>2, <1>7

\* A step closes a connection only for a cause.
LEMMA CloseHasCause ==
  ASSUME LoopInv, AllServed, EventsInv, LoopNext,
         NEW i \in Peers, client[i].phase = "open", client'[i].phase = "closed"
  PROVE  Cause(i)
<1>1. CASE parse /\ ParseCommandFromBytes(state[Current].buffer).panics
  <2>1. Current \in Peers
    BY <1>1, CurrentConn DEF parse, Handles
  <2>2. \E j \in Arrived(Current) : Items(Current)[j].kind = "panic"
    BY <1>1, <2>1, StumblesOver
  <2> QED BY <2>1, <2>2 DEF Cause
<1>2. ASSUME close PROVE i = Current
  BY <1>2, OnlyCurrentCloses
<1>3. CASE close /\ client[Current].gone # "no"
  BY <1>2, <1>3 DEF Cause
<1>4. CASE close /\ closeGone
  <2>1. "close" \in event.todo /\ event.fd \in Open
    BY <1>4 DEF closeGone, Handles
  <2>2. /\ event.fd # 0
        /\ client[event.owner].gone # "no"
        /\ poller = "epoll" => connections[event.fd] = event.owner
    BY <2>1 DEF EventsInv, EventOK
  <2>3. poller = "epoll" \/ poller = "kqueue"
    BY DEF AllServed
  <2> QED BY <1>2, <1>4, <2>2, <2>3 DEF Cause, Current
<1>5. CASE close /\ ParseCommandFromBytes(state[Current].buffer).err
  <2>1. \E j \in Arrived(i) : Items(i)[j].kind = "error"
    BY <1>2, <1>5, StumblesOver
  <2> QED BY <2>1 DEF Cause
<1>6. client[Current].gone = "rst" => client[Current].gone # "no"
  OBVIOUS
<1> QED BY <1>1, <1>3, <1>4, <1>5, <1>6, OnlyClosesClose

\* A connection is closed only because its own client is gone or has sent what
\* cannot be parsed, or because the process ended over an array with a negative
\* count or length; under kqueue also because of an event that was meant for the
\* connection that had the descriptor before.
THEOREM ClosesForCause == LoopSpec => ClosedForCause
<1>1. LoopInit => LoopInv /\ AllServed /\ EventsInv
  BY LoopInitInv, ServedInit, EventsInit
<1>2. LoopInv /\ AllServed /\ EventsInv /\ [LoopNext]_loopVars
        => (LoopInv /\ AllServed /\ EventsInv)'
  BY LoopStep, ServedStep, EventsStep
<1>3. LoopInv /\ AllServed /\ EventsInv /\ [LoopNext]_loopVars
        => [\A i \in Peers : client[i].phase = "open" /\ client'[i].phase = "closed" =>
             \/ client[i].gone # "no"
             \/ \E j \in Arrived(i) : Items(i)[j].kind = "error"
             \/ \E m \in Peers : \E j \in Arrived(m) : Items(m)[j].kind = "panic"
             \/ poller = "kqueue" /\ event.owner # i]_loopVars
  BY CloseHasCause DEF Cause
<1> QED BY <1>1, <1>2, <1>3, PTL DEF LoopSpec, ClosedForCause
=============================================================================
