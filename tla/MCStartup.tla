------------------------------ MODULE MCStartup ------------------------------
(***************************************************************************)
(* Small instances of Startup for TLC.                                     *)
(***************************************************************************)
EXTENDS Startup

CONSTANTS s1, s2  \* two servers on one database

\* The environment of docker-compose.yml.
Compose ==
  [APP_NAME |-> "bridges", PORT |-> "8080", DATABASE_DRIVER |-> "postgres",
   REDIS_ADDR |-> "redis:6379", JWT_SECRET |-> Number(32), REQUEST_LIMIT |-> Number(240),
   TOKEN_TTL |-> Number(28800), TIMEOUTS |-> [t \in Timeout |-> Unset]]

\* With the memory limiter, and the other values at the edge of their ranges.
NoRedis == [Compose EXCEPT !.REDIS_ADDR = "white", !.REQUEST_LIMIT = Number(10),
                           !.JWT_SECRET = Number(16), !.TIMEOUTS["STARTUP"] = Number(1)]

\* One variable malformed, or just outside its range.
Odd == {Garbage, White, Number(-5), Number(0)}

MCEnvironment ==
  {Compose, NoRedis}
  \cup {[Compose EXCEPT !.DATABASE_DRIVER = d] : d \in {"POSTGRES", "oracle"}}
  \cup {[NoRedis EXCEPT !.REQUEST_LIMIT = Number(n)] : n \in {9, 100001}}
  \cup {[NoRedis EXCEPT !.JWT_SECRET = Number(15)]}
  \cup {[Compose EXCEPT !.TOKEN_TTL = n] : n \in Odd}
  \cup {[Compose EXCEPT !.TIMEOUTS["SHUTDOWN"] = n] : n \in Odd}
  \cup {[Compose EXCEPT !.PORT = "white"]}
=============================================================================
