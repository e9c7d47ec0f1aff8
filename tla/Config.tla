-------------------------------- MODULE Config --------------------------------
(***************************************************************************)
(* How a server comes by its configuration: the flags of cmd/fas/main.go,  *)
(* the lines of a -config file over them, and the defaults and checks of   *)
(* ValidateAndFill.  A configuration is a function from the names of the   *)
(* settings to their values; flags and file use the same names.  The       *)
(* number of slots cannot be set and is left out.                          *)
(*                                                                         *)
(* A line is a record [key, val, ok]: ok says whether the value is one     *)
(* that the key's parser accepts.  The key "" stands for a line without an *)
(* equals sign, and for a file that cannot be read.                        *)
(***************************************************************************)
EXTENDS Integers, Sequences

\* Settings by how LoadConfigFile reads their values.
TextKeys == {"host", "aof", "rdb", "requirepass", "tls-cert", "tls-key", "seed-pass"}
NumberKeys == {"port", "maxmemory", "maxclients", "metrics-port"}
BoolKeys == {"auth", "seed-tls"}
NamedKeys == {"fsync", "maxmemory-policy"}
FileKeys == TextKeys \union NumberKeys \union BoolKeys \union NamedKeys \union {"seed"}

\* The names of policies.  noeject is the zero value of EvictionPolicy.
Policies == {"noeject", "allkeys-random", "volatile-random", "allkeys-lru", "allkeys-lfu"}
ParseEvictionPolicy ==
  [p \in Policies \union {"none", "no-eviction"} |-> IF p \in Policies THEN p ELSE "noeject"]

applyLine(cfg, l) ==
  CASE l.key = "seed" -> [cfg EXCEPT !["seed"] = l.val, !["auth"] = TRUE]
    [] l.key = "maxmemory-policy" -> [cfg EXCEPT ![l.key] = ParseEvictionPolicy[l.val]]
    [] l.key \in FileKeys \ {"seed", "maxmemory-policy"} -> [cfg EXCEPT ![l.key] = l.val]
    [] OTHER -> cfg

badLine(l) == l.key = "" \/ (l.key \in NumberKeys \union NamedKeys /\ ~l.ok)

\* Mutant: the file fills in only what the flags leave at "" or 0.
LoadConfigFileUnder(cfg, lines) ==
  LET loaded[n \in 0..Len(lines)] ==
        IF n = 0 THEN cfg
        ELSE IF \/ badLine(lines[n])
                \/ lines[n].key = "maxclients" /\ loaded[n - 1]["maxclients"] # 0
        THEN loaded[n - 1] ELSE applyLine(loaded[n - 1], lines[n])
  IN  [err |-> \E n \in DOMAIN lines : badLine(lines[n]), cfg |-> loaded[Len(lines)]]

\* The configuration after the file, and whether its reading failed.
LoadConfigFile(cfg, lines) ==
  LET loaded[n \in 0..Len(lines)] ==
        IF n = 0 THEN cfg
        ELSE IF badLine(lines[n]) THEN loaded[n - 1] ELSE applyLine(loaded[n - 1], lines[n])
  IN  [err |-> \E n \in DOMAIN lines : badLine(lines[n]), cfg |-> loaded[Len(lines)]]

ValidateAndFill(cfg) ==
  [err |-> \/ cfg["auth"] /\ cfg["requirepass"] = ""
           \/ (cfg["tls-cert"] = "") # (cfg["tls-key"] = ""),
   cfg |-> [cfg EXCEPT !["maxmemory"] = IF @ = 0 THEN 2^30 ELSE @,
                       !["maxmemory-policy"] = IF @ = "noeject" THEN "allkeys-random" ELSE @]]

\* NewServer drops the error.
NewServer(cfg) == ValidateAndFill(cfg).cfg

\* What StartEventLoop refuses; allow is the CIDR allowlist.
eventLoopRefuses(cfg, allow) ==
  \/ cfg["tls-cert"] # "" \/ cfg["tls-key"] # "" \/ cfg["seed-tls"]
  \/ allow # {}
  \/ cfg["auth"] /\ cfg["requirepass"] = ""

\* What becomes of a start of cmd/fas: "refused", "standard" or "eventloop".
\* flagsOk says whether the flags main itself parses can be: -fsync,
\* -maxmemory-policy, -allow-cidr and -cluster-slot-ranges.
main(flags, flagsOk, lines, eventloop, allow) ==
  LET file == LoadConfigFile(flags, lines)
      cfg == NewServer(file.cfg)
  IN  [cfg |-> cfg,
       mode |-> IF ~flagsOk \/ file.err \/ ValidateAndFill(file.cfg).err THEN "refused"
                ELSE IF ~eventloop THEN "standard"
                ELSE IF eventLoopRefuses(cfg, allow) THEN "refused" ELSE "eventloop"]
=============================================================================
