---------------------------- MODULE Configuration ----------------------------
(***************************************************************************)
(* How the environment of the process becomes its configuration            *)
(* (config/config.go).  An environment variable is unset, set to white     *)
(* space, set to something that does not parse, or set to a value; a text  *)
(* is kept as a name and a number or a duration (in seconds) as itself.    *)
(* Left out: the variables that nothing depends on but a connection        *)
(* string or a log line.                                                   *)
(***************************************************************************)
EXTENDS Integers

Unset      == [kind |-> "unset",  value |-> 0]
White      == [kind |-> "white",  value |-> 0]
Garbage    == [kind |-> "text",   value |-> 0]
Number(n)  == [kind |-> "number", value |-> n]

Timeout == {"STARTUP", "SHUTDOWN", "READ_HEADER", "READ", "WRITE", "IDLE"}

DefaultTimeout ==
  [STARTUP |-> 35, SHUTDOWN |-> 10, READ_HEADER |-> 5, READ |-> 15, WRITE |-> 20, IDLE |-> 60]

\* Fault: a value is only trimmed to see whether it is there.
envUntrimmed(raw, fallback) == IF raw = "unset" THEN fallback ELSE raw

\* A text variable; white space counts as unset.
env(raw, fallback) == IF raw \in {"unset", "white"} THEN fallback ELSE raw

\* strings.ToLower: "POSTGRES" stands for the names that have capitals.
ToLower(name) == IF name = "POSTGRES" THEN "postgres" ELSE name

\* What does not parse or is not positive is replaced, not refused.
intEnv(raw, fallback) == IF raw.kind = "number" /\ raw.value > 0 THEN raw.value ELSE fallback

durationEnv(raw, fallback) == intEnv(raw, fallback)

\* The configuration before it is validated.  Of the secret the length counts.
Config(e) ==
  [AppName        |-> env(e.APP_NAME, "railway-bridge-defect-priority"),
   Port           |-> env(e.PORT, "8080"),
   DatabaseDriver |-> ToLower(env(e.DATABASE_DRIVER, "postgres")),
   RedisAddr      |-> env(e.REDIS_ADDR, ""),
   SecretLength   |-> intEnv(e.JWT_SECRET, 26),
   RequestLimit   |-> intEnv(e.REQUEST_LIMIT, 180),
   TokenTTL       |-> durationEnv(e.TOKEN_TTL, 28800),
   Timeouts       |-> [t \in Timeout |-> durationEnv(e.TIMEOUTS[t], DefaultTimeout[t])]]

\* Requests of a client and route a minute.
RequestLimits == 10..100000

Validate(c) ==
  /\ c.DatabaseDriver \in {"postgres", "mysql", "sqlite"}
  /\ {c.AppName, c.Port} \cap {"", "white"} = {}
  /\ c.SecretLength >= 16
  /\ c.RequestLimit \in RequestLimits
  /\ \A t \in Timeout : c.Timeouts[t] > 0

\* What GET /api/runtime says of Redis.
RedisEnabled(c) == c.RedisAddr \notin {"", "white"}

\* What Open and the limiter go by.
DialsRedis(c) == c.RedisAddr # ""
=============================================================================
