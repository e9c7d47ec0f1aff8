----------------------------- MODULE MCConnection -----------------------------
(* Instances of Connection: starts of the server that take every branch of  *)
(* the configuration, some with a limit that one client reaches.            *)
EXTENDS Connection, TLC

\* main's flags when none is given.
Defaults ==
  [k \in TextKeys \union {"seed"} |-> ""] @@ [k \in BoolKeys |-> FALSE] @@
  [k \in {"metrics-port", "maxclients"} |-> 0] @@
  ("fsync" :> "everysec") @@ ("maxmemory-policy" :> "allkeys-random") @@
  ("port" :> 6379) @@ ("maxmemory" :> 2^30)

Line(k, v) == [key |-> k, val |-> v, ok |-> TRUE]
Broken(k) == [Line(k, 0) EXCEPT !.ok = FALSE]
Main(flags, lines) == [how |-> "main", flags |-> flags @@ Defaults, flagsOk |-> TRUE,
                       lines |-> lines, eventloop |-> FALSE, allow |-> {}]
Embedded(flags) == [Main(flags, <<>>) EXCEPT !.how = "embedded"]
auth == "auth" :> TRUE @@ "requirepass" :> "secret"

MCStarts == <<
  Main("maxclients" :> 1, <<>>),
  [Main("maxclients" :> 2, <<Line("maxclients", 1), Line("maxmemory", 0)>>)
     EXCEPT !.allow = {{"home"}}],
  Main(auth, <<Line("maxmemory-policy", "none"), Line("maxclients", 1), Line("colour", 3)>>),
  [Main(auth, <<Line("maxmemory-policy", "allkeys-lru")>>) EXCEPT !.allow = {{"home"}}],
  Main("requirepass" :> "secret", <<Line("seed", "master"), Line("port", 1)>>),
  Main("requirepass" :> "secret", <<Line("seed", "master"), Line("auth", FALSE)>>),
  Main("auth" :> TRUE, <<>>),
  Main("tls-cert" :> "cert", <<>>),
  Main("tls-cert" :> "cert" @@ "tls-key" :> "key", <<Line("tls-key", "other")>>),
  [Main(auth, <<>>) EXCEPT !.flagsOk = FALSE],
  Main(auth, <<Broken("port")>>),
  Main(auth, <<Line("", "")>>),
  [Main(auth, <<>>) EXCEPT !.eventloop = TRUE],
  [Main(auth, <<>>) EXCEPT !.eventloop = TRUE, !.allow = {{"home"}}],
  Embedded("auth" :> TRUE @@ "maxclients" :> 1),
  Embedded("maxmemory-policy" :> "noeject" @@ "maxmemory" :> 0)>>
=============================================================================
