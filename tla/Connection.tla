------------------------------ MODULE Connection ------------------------------
(***************************************************************************)
(* The goroutine-per-connection server: the accept loop of Start with its  *)
(* limit, handleConnection with its gates, and how it ends, under every    *)
(* configuration main or an embedding program may have given it.           *)
(*                                                                         *)
(* A connection's phases are "away", "dialled", "started" (go              *)
(* handleConnection), "serving" (the command loop), "migrating" (at a      *)
(* MIGRATE), "replica" and "subscribed" (taken over), "leaving" (returned, *)
(* deferred calls not yet run), "closing" (client counted off, socket      *)
(* open), "closed" and "rejected".  Commands are executed in one step, but *)
(* for a MIGRATE that waits for its target.                                *)
(***************************************************************************)
EXTENDS Config, FiniteSets

CONSTANTS
  Conns,      \* connections
  Addresses,  \* addresses clients come from
  Starts      \* starts of the server: a sequence of records [how, flags, flagsOk,
              \* lines, eventloop, allow]; how is "main" or "embedded" (NewServer, Start)

ASSUME ConnectionAssumption == IsFiniteSet(Conns)

\* Flags are the fields of a Config, a policy's name is parsed by then; the
\* values of a file's lines are what the parsers of their keys return.
ASSUME StartsAssumption ==
  \A n \in DOMAIN Starts :
    LET flags == Starts[n].flags
        lines == Starts[n].lines
    IN  /\ flags = [k \in FileKeys |-> flags[k]]
        /\ flags["auth"] \in BOOLEAN /\ flags["maxmemory-policy"] \in Policies
        /\ Len(lines) \in Nat /\ lines = [m \in 1..Len(lines) |-> lines[m]]
        /\ \A m \in DOMAIN lines :
             /\ lines[m].key = "auth" => lines[m].val \in BOOLEAN
             /\ lines[m].key = "maxmemory-policy" /\ lines[m].ok
                  => lines[m].val \in DOMAIN ParseEvictionPolicy

VARIABLES
  start,      \* the start that was made
  cfg, allow, \* its configuration and allowlist
  mode,       \* what became of it
  clients,    \* s.clients
  conn        \* the connections

server == <<start, cfg, allow, mode>>
vars == <<server, clients, conn>>

MaxClients == cfg["maxclients"]
AuthEnabled == cfg["auth"]
Password == cfg["requirepass"]

\* authed: the handler's variable.  proven: the client has sent the password
\* on this connection.  effect: a command of it was executed.  inbox:
\* messages wait in its subscription.
NewConn == [phase |-> "away", ip |-> CHOOSE a \in Addresses : TRUE, gone |-> "no",
            authed |-> FALSE, proven |-> FALSE, effect |-> FALSE, inbox |-> FALSE]

\* The prefixes of the allowlist are the sets of addresses they contain.
isAllowed(ip) == allow = {} \/ \E prefix \in allow : ip \in prefix

Move(i, phase) == conn' = [conn EXCEPT ![i].phase = phase]
-----------------------------------------------------------------------------
(* Clients *)

Dial(i, ip) ==
  /\ mode = "standard"
  /\ conn[i].phase = "away"
  /\ conn' = [conn EXCEPT ![i].phase = "dialled", ![i].ip = ip]
  /\ UNCHANGED <<server, clients>>

\* A closed connection's number is used again.
Forget(i) ==
  /\ conn[i].phase \in {"closed", "rejected"}
  /\ conn' = [conn EXCEPT ![i] = NewConn]
  /\ UNCHANGED <<server, clients>>

Hangup(i) ==
  /\ conn[i].phase \in {"dialled", "started", "serving", "migrating", "replica",
                       "subscribed"}
  /\ conn[i].gone = "no"
  /\ conn' = [conn EXCEPT ![i].gone = "fin"]
  /\ UNCHANGED <<server, clients>>
-----------------------------------------------------------------------------
(* The accept loop *)

\* Mutant: a rejected connection is counted.
AcceptCounts(i) ==
  /\ conn[i].phase = "dialled"
  /\ clients' = IF MaxClients > 0 THEN clients + 1 ELSE clients
  /\ Move(i, IF MaxClients > 0 /\ clients >= MaxClients THEN "rejected" ELSE "started")
  /\ UNCHANGED server

Accept(i) ==
  /\ conn[i].phase = "dialled"
  /\ IF MaxClients > 0 /\ clients >= MaxClients
     THEN Move(i, "rejected") /\ UNCHANGED clients
     ELSE Move(i, "started") /\ clients' = IF MaxClients > 0 THEN clients + 1 ELSE clients
  /\ UNCHANGED server
-----------------------------------------------------------------------------
(* handleConnection *)

begin(i) ==
  /\ conn[i].phase = "started"
  /\ IF AuthEnabled /\ Password = "" THEN Move(i, "leaving")
     ELSE conn' = [conn EXCEPT ![i].phase = "serving", ![i].authed = ~AuthEnabled]
  /\ UNCHANGED <<server, clients>>

\* A command's reading fails: end of file, a broken connection, an error.
parseError(i) ==
  /\ conn[i].phase = "serving"
  /\ Move(i, "leaving")
  /\ UNCHANGED <<server, clients>>

\* A command whose bytes arrived may be read after its client has gone.
Reads(i) == conn[i].phase = "serving"

\* The address is looked at with every command.
refuse(i) ==
  /\ Reads(i) /\ ~isAllowed(conn[i].ip)
  /\ Move(i, "leaving")
  /\ UNCHANGED <<server, clients>>

\* Other commands before it, and AUTH with another password or number of
\* arguments, only get an error.
AUTH(i) ==
  /\ Reads(i) /\ isAllowed(conn[i].ip)
  /\ conn' = [conn EXCEPT ![i].authed = TRUE, ![i].proven = TRUE]
  /\ UNCHANGED <<server, clients>>

Passes(i) == Reads(i) /\ isAllowed(conn[i].ip) /\ conn[i].authed

REPL(i) ==
  /\ Passes(i)
  /\ Move(i, "replica")
  /\ UNCHANGED <<server, clients>>

\* What a write makes of a connection whose client has closed it: the peer
\* resets it, and the next write fails.
Written(c) == [c EXCEPT !.gone = IF @ = "fin" THEN "rst" ELSE @]

\* Mutant: SUBSCRIBE is handled before the gate.
SUBSCRIBEAnyone(i) ==
  /\ Reads(i) /\ isAllowed(conn[i].ip)
  /\ conn' = [conn EXCEPT ![i] = Written([@ EXCEPT !.phase = "subscribed"])]
  /\ UNCHANGED <<server, clients>>

\* SUBSCRIBE with a channel, and its confirmation.
SUBSCRIBE(i) ==
  /\ Passes(i)
  /\ conn' = [conn EXCEPT ![i] = Written([@ EXCEPT !.phase = "subscribed"])]
  /\ UNCHANGED <<server, clients>>

\* MIGRATE of a key that is there: its value is sent, and the answer is read
\* without a deadline.
MIGRATE(i) ==
  /\ Passes(i)
  /\ conn' = [conn EXCEPT ![i].phase = "migrating", ![i].effect = TRUE]
  /\ UNCHANGED <<server, clients>>

\* The target has answered, or its connection is broken.
migrated(i) ==
  /\ conn[i].phase = "migrating"
  /\ Move(i, "serving")
  /\ UNCHANGED <<server, clients>>

\* executeCommand; a PUBLISH may leave a message for every subscription.
execute(i, publish) ==
  /\ Passes(i)
  /\ conn' = [j \in Conns |->
       IF j = i THEN [conn[i] EXCEPT !.effect = TRUE]
       ELSE [conn[j] EXCEPT !.inbox = @ \/ (publish /\ conn[j].phase = "subscribed")]]
  /\ UNCHANGED <<server, clients>>

\* The reader gets to the end of what a client that is gone had sent.
eof(i) ==
  /\ Reads(i) \/ conn[i].phase = "replica"
  /\ conn[i].gone # "no"
  /\ Move(i, "leaving")
  /\ UNCHANGED <<server, clients>>

\* A replica's handler reads one byte, whatever it is.
replicaRead(i) ==
  /\ conn[i].phase = "replica"
  /\ Move(i, "leaving")
  /\ UNCHANGED <<server, clients>>

\* Mutant: a failing write does not end the subscription.
forwardIgnores(i) ==
  /\ conn[i].phase = "subscribed" /\ conn[i].inbox
  /\ conn' = [conn EXCEPT ![i] = Written([@ EXCEPT !.inbox = FALSE])]
  /\ UNCHANGED <<server, clients>>

\* The loop of handleSubscribe.
forward(i) ==
  /\ conn[i].phase = "subscribed" /\ conn[i].inbox
  /\ conn' = [conn EXCEPT ![i] =
       IF @.gone = "rst" THEN [@ EXCEPT !.inbox = FALSE, !.phase = "leaving"]
       ELSE Written([@ EXCEPT !.inbox = FALSE])]
  /\ UNCHANGED <<server, clients>>

\* The deferred calls, the last one first: the count, then conn.Close.
countOff(i) ==
  /\ conn[i].phase = "leaving"
  /\ clients' = IF MaxClients > 0 THEN clients - 1 ELSE clients
  /\ Move(i, "closing")
  /\ UNCHANGED server

Close(i) ==
  /\ conn[i].phase = "closing"
  /\ Move(i, "closed")
  /\ UNCHANGED <<server, clients>>
-----------------------------------------------------------------------------
Init ==
  /\ \E n \in DOMAIN Starts : start = Starts[n]
  /\ allow = start.allow
  /\ LET run == main(start.flags, start.flagsOk, start.lines, start.eventloop, allow)
     IN  IF start.how = "main" THEN cfg = run.cfg /\ mode = run.mode
         ELSE cfg = NewServer(start.flags) /\ mode = "standard"
  /\ clients = 0
  /\ conn = [i \in Conns |-> NewConn]

Handler(i) ==
  \/ begin(i) \/ eof(i) \/ forward(i) \/ countOff(i) \/ Close(i)

Reader(i) ==
  \/ parseError(i) \/ refuse(i) \/ replicaRead(i) \/ MIGRATE(i) \/ migrated(i)
  \/ AUTH(i) \/ REPL(i) \/ SUBSCRIBE(i) \/ \E publish \in BOOLEAN : execute(i, publish)

Client(i) == (\E ip \in Addresses : Dial(i, ip)) \/ Forget(i) \/ Hangup(i)

Next == \E i \in Conns : Client(i) \/ Accept(i) \/ Handler(i) \/ Reader(i)

Spec == Init /\ [][Next]_vars

\* The accept loop and every handler's goroutine keep running, and what a
\* client that is gone had sent comes to an end.  A target need not answer.
FairSpec ==
  Spec /\ \A i \in Conns : WF_vars(Accept(i)) /\ WF_vars(Handler(i)) /\ SF_vars(eof(i))
-----------------------------------------------------------------------------
Holders == {i \in Conns : conn[i].phase \in {"started", "serving", "migrating", "replica",
                                             "subscribed", "leaving"}}

\* With a limit, s.clients is the number of handlers that have not counted
\* themselves off, however each of them ended, and never above the limit.
SlotsExact ==
  MaxClients > 0 => clients = Cardinality(Holders) /\ clients <= MaxClients

\* Nothing a connection asks for takes effect, be it a command, a
\* subscription or the stream of a replica, unless its address is allowed
\* and, if authentication is on, the password was given on this connection
\* and is not empty.
GateHolds ==
  \A i \in Conns :
    conn[i].effect \/ conn[i].phase \in {"replica", "subscribed"} =>
      /\ isAllowed(conn[i].ip)
      /\ AuthEnabled => conn[i].proven /\ Password # ""

\* A client that is gone gives its place back, unless its MIGRATE is never
\* answered.  A subscription waits for messages only: it ends with the first
\* one whose write fails.
SlotReturned ==
  \A i \in Conns :
    /\ (i \in Holders /\ conn[i].gone # "no" ~>
          \/ i \notin Holders \/ conn[i].phase = "subscribed"
          \/ [](conn[i].phase = "migrating"))
    /\ (i \in Holders /\ conn[i].gone = "rst" /\ conn[i].inbox ~> i \notin Holders)

\* A line of the file that sets key k, the last one.
LastLine(k) ==
  LET sets == {n \in DOMAIN start.lines : start.lines[n].key = k}
  IN  IF sets = {} THEN 0 ELSE CHOOSE n \in sets : \A m \in sets : m <= n

Asked(k) == IF start.how = "main" /\ LastLine(k) > 0 THEN start.lines[LastLine(k)].val
            ELSE start.flags[k]

\* A server that runs has every setting as it was given last, the file
\* before the flags, but for three: a seed line also turns authentication
\* on, a limit of 0 is taken for the default, and so is the policy noeject,
\* under each of its names.  The configuration does not change afterwards.
SettingsHonoured ==
  mode # "refused" =>
    /\ \A k \in FileKeys \ {"auth", "maxmemory", "maxmemory-policy"} : cfg[k] = Asked(k)
    /\ AuthEnabled = (Asked("auth") \/ (start.how = "main" /\ LastLine("seed") > LastLine("auth")))
    /\ cfg["maxmemory"] = IF Asked("maxmemory") = 0 THEN 2^30 ELSE Asked("maxmemory")
    /\ cfg["maxmemory-policy"] =
         IF ParseEvictionPolicy[Asked("maxmemory-policy")] = "noeject" THEN "allkeys-random"
         ELSE Asked("maxmemory-policy")
    /\ start.how = "main" => ~(AuthEnabled /\ Password = "")
    /\ mode = "eventloop" => allow = {} /\ cfg["tls-cert"] = ""
=============================================================================
