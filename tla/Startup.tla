------------------------------- MODULE Startup -------------------------------
(***************************************************************************)
(* The life of the server processes on one database: configuration,        *)
(* connecting with retries, seeding, serving, graceful shutdown            *)
(* (cmd/server/main.go, database/database.go), under a supervisor that     *)
(* starts a process again when it has exited by itself                     *)
(* (docker-compose.yml, restart: unless-stopped).                          *)
(*                                                                         *)
(* The schema is not part of the state: AutoMigrate creates what is        *)
(* missing before a process looks at any table.  A table is filled by one  *)
(* transaction after another one has counted its visible rows; its three   *)
(* demo rows are one, visible until the last of them is deleted.           *)
(***************************************************************************)
EXTENDS Configuration, Sequences, FiniteSets

CONSTANTS Server,        \* server processes that share the database
          Environment,   \* the environments they may all be started in
          MaxAttempts,   \* attempts to connect (20)
          MayEmpty,      \* may the last visible record of a table be deleted?
          MaxChanges,    \* bound: changes made through the API
          MaxFaults      \* bound: crashes, outages and failing statements

ASSUME StartupAssumption ==
  /\ MaxAttempts \in Nat \ {0} /\ MaxChanges \in Nat /\ MaxFaults \in Nat
  /\ MayEmpty \in BOOLEAN

VARIABLES config,       \* what config.Load makes of the environment
          up,           \* the dependencies that answer
          table,        \* the tables, by name
          server,       \* what each process is doing
          changes,      \* how many changes have been made
          faults        \* how many faults have happened

vars == <<config, up, table, server, changes, faults>>

Dependency == {"database", "redis"}

\* Seed fills the tables in this order.
SeedOrder == <<"users", "bridges", "inspections", "defects", "decisions">>

Table == {SeedOrder[i] : i \in DOMAIN SeedOrder}

\* The demo decisions two and three are final, which no operation deletes, and
\* there is no operation on users.
Emptiable == {"bridges", "inspections", "defects"}

Contents == [demo : {"none", "visible", "deleted"}, other : BOOLEAN]

\* pc of a process; "connect" to "redis" is database.Open, "listening" the time
\* in which requests are served but signals are not yet caught.
Starting == {"connect", "count", "insert", "redis"}
Serving  == {"listening", "serving"}

\* at: the table being seeded.  tries: attempts to connect.  busy: a handler is
\* between its commit and its audit entry.
Process == [pc : {"down", "stopped", "draining"} \cup Starting \cup Serving,
            at : DOMAIN SeedOrder, tries : 1..MaxAttempts, busy : BOOLEAN]

Gone(pc) == [pc |-> pc, at |-> 1, tries |-> 1, busy |-> FALSE]

TypeOK ==
  /\ config  \in {Config(e) : e \in Environment}
  /\ up      \in SUBSET Dependency
  /\ table   \in [Table -> Contents]
  /\ server  \in [Server -> Process]
  /\ changes \in 0..MaxChanges
  /\ faults  \in 0..MaxFaults

Init ==
  /\ config  \in {Config(e) : e \in Environment}
  /\ up      = Dependency
  /\ table   = [t \in Table |-> [demo |-> "none", other |-> FALSE]]
  /\ server  = [s \in Server |-> Gone("down")]
  /\ changes = 0
  /\ faults  = 0

At(s, pc) == server[s].pc = pc

Become(s, p) == server' = [server EXCEPT ![s] = p]

Fault == faults < MaxFaults /\ faults' = faults + 1

-----------------------------------------------------------------------------
(* main up to database.Open. *)

\* The supervisor starts a process that has exited, somebody one that was
\* stopped.  A configuration that does not validate ends it at once.
Start(s) ==
  /\ server[s].pc \in {"down", "stopped"}
  /\ Become(s, IF Validate(config) THEN Gone("connect") ELSE Gone("down"))
  /\ UNCHANGED <<config, up, table, changes, faults>>

\* One attempt succeeds.
Connect(s) ==
  /\ At(s, "connect") /\ "database" \in up
  /\ Become(s, [server[s] EXCEPT !.pc = "count"])
  /\ UNCHANGED <<config, up, table, changes, faults>>

\* Fault: one attempt too many.
ConnectFailsLate(s) ==
  /\ At(s, "connect") /\ "database" \notin up
  /\ Become(s, IF server[s].tries <= MaxAttempts
               THEN [server[s] EXCEPT !.tries = @ + 1] ELSE Gone("down"))
  /\ UNCHANGED <<config, up, table, changes, faults>>

\* One attempt fails; after the last one the process gives up.
ConnectFails(s) ==
  /\ At(s, "connect") /\ "database" \notin up
  /\ Become(s, IF server[s].tries < MaxAttempts
               THEN [server[s] EXCEPT !.tries = @ + 1] ELSE Gone("down"))
  /\ UNCHANGED <<config, up, table, changes, faults>>

\* What the emptiness check counts: rows that are not soft-deleted.
Visible(t) == table[t].demo = "visible" \/ table[t].other

\* Fault: only the users tell whether the database has been seeded.
SeededUsersOnly(p) ==
  IF p.at = 1 THEN [p EXCEPT !.pc = "redis"] ELSE [p EXCEPT !.at = @ + 1, !.pc = "count"]

\* The table at hand has rows: on to the next one.
Seeded(p) ==
  IF p.at = Len(SeedOrder) THEN [p EXCEPT !.pc = "redis"]
  ELSE [p EXCEPT !.at = @ + 1, !.pc = "count"]

\* Fault: the demo rows are inserted without looking.
CountNothing(s) ==
  /\ At(s, "count") /\ "database" \in up
  /\ Become(s, [server[s] EXCEPT !.pc = "insert"])
  /\ UNCHANGED <<config, up, table, changes, faults>>

Count(s) ==
  /\ At(s, "count") /\ "database" \in up
  /\ Become(s, IF Visible(SeedOrder[server[s].at]) THEN Seeded(server[s])
               ELSE [server[s] EXCEPT !.pc = "insert"])
  /\ UNCHANGED <<config, up, table, changes, faults>>

\* Fault: the unique index on the code covers visible rows only.
InsertableReuse(t) == table[t].demo # "visible"

\* Deleted rows keep their codes.
Insertable(t) == table[t].demo = "none"

\* The demo rows of a table go in together or, if one's code is taken, not at
\* all, and then the process gives up.
Insert(s) ==
  LET t == SeedOrder[server[s].at] IN
  /\ At(s, "insert") /\ "database" \in up
  /\ IF Insertable(t)
     THEN /\ table' = [table EXCEPT ![t].demo = "visible"]
          /\ Become(s, Seeded(server[s]))
     ELSE /\ Become(s, Gone("down"))
          /\ UNCHANGED table
  /\ UNCHANGED <<config, up, changes, faults>>

\* A Redis that is configured must answer.
PingRedis(s) ==
  /\ At(s, "redis")
  /\ Become(s, IF DialsRedis(config) /\ "redis" \notin up THEN Gone("down")
               ELSE [server[s] EXCEPT !.pc = "listening"])
  /\ UNCHANGED <<config, up, table, changes, faults>>

\* A statement fails or the startup context has expired.
OpenFails(s) ==
  /\ server[s].pc \in Starting
  /\ Fault
  /\ Become(s, Gone("down"))
  /\ UNCHANGED <<config, up, table, changes>>

-----------------------------------------------------------------------------
(* main after database.Open. *)

Notify(s) ==
  /\ At(s, "listening")
  /\ Become(s, [server[s] EXCEPT !.pc = "serving"])
  /\ UNCHANGED <<config, up, table, changes, faults>>

\* A handler commits a creation or the deletion of the last record of a kind.
Change(s) ==
  /\ server[s].pc \in Serving /\ ~server[s].busy /\ "database" \in up
  /\ changes < MaxChanges
  /\ \E t \in Table \ {"users"} :
       /\ \/ table' = [table EXCEPT ![t].other = ~@]
          \/ /\ t \in Emptiable /\ table[t].demo = "visible"
             /\ table' = [table EXCEPT ![t].demo = "deleted"]
       /\ MayEmpty \/ Visible(t)'
  /\ Become(s, [server[s] EXCEPT !.busy = TRUE])
  /\ changes' = changes + 1
  /\ UNCHANGED <<config, up, faults>>

\* It writes its audit entry and answers; shutting down waits for it.
Answer(s) ==
  /\ server[s].busy /\ "database" \in up
  /\ Become(s, [server[s] EXCEPT !.busy = FALSE])
  /\ UNCHANGED <<config, up, table, changes, faults>>

\* SIGTERM ends a process that does not catch it yet, with whatever it does.
Sigterm(s) ==
  /\ server[s].pc \in Starting \cup Serving
  /\ Become(s, IF At(s, "serving") THEN [server[s] EXCEPT !.pc = "draining"]
               ELSE Gone("stopped"))
  /\ UNCHANGED <<config, up, table, changes, faults>>

\* Shutdown returns when no handler runs any more, ...
Drained(s) ==
  /\ At(s, "draining") /\ ~server[s].busy
  /\ Become(s, Gone("stopped"))
  /\ UNCHANGED <<config, up, table, changes, faults>>

\* Fault: Shutdown waits as long as it takes.
DrainForever(s) == At(s, "draining") /\ server[s].busy /\ UNCHANGED vars

\* ... or when its time is over, which cuts a running handler off.
DrainTimeout(s) ==
  /\ At(s, "draining") /\ server[s].busy
  /\ Become(s, Gone("stopped"))
  /\ UNCHANGED <<config, up, table, changes, faults>>

\* Health: the database answers, and Redis if it is configured.
Healthy(s) ==
  /\ server[s].pc \in Serving /\ "database" \in up
  /\ DialsRedis(config) => "redis" \in up

-----------------------------------------------------------------------------
(* The surroundings. *)

\* A crash, a kill, or a listener that stops unexpectedly.
Kill(s) ==
  /\ server[s].pc \notin {"down", "stopped"}
  /\ Fault
  /\ Become(s, Gone("down"))
  /\ UNCHANGED <<config, up, table, changes>>

Outage(d) ==
  /\ d \in up
  /\ Fault
  /\ up' = up \ {d}
  /\ UNCHANGED <<config, table, server, changes>>

Recover(d) ==
  /\ d \notin up
  /\ up' = up \cup {d}
  /\ UNCHANGED <<config, table, server, changes, faults>>

Step(s) ==
  \/ Connect(s) \/ ConnectFails(s) \/ Count(s) \/ Insert(s) \/ PingRedis(s)
  \/ Notify(s) \/ Drained(s) \/ DrainTimeout(s)

Next ==
  \/ \E s \in Server : Start(s) \/ Step(s) \/ OpenFails(s) \/ Change(s) \/ Answer(s) \/ Sigterm(s) \/ Kill(s)
  \/ \E d \in Dependency : Outage(d) \/ Recover(d)

Spec == Init /\ [][Next]_vars

\* The supervisor starts processes that went down by themselves, a process's
\* main goroutine goes on, and a dependency comes back.  A handler may hang, and
\* nobody has to send a signal or a request or to start a stopped server.
FairSpec ==
  /\ Spec
  /\ \A s \in Server : WF_vars(Step(s)) /\ WF_vars(At(s, "down") /\ Start(s))
  /\ \A d \in Dependency : WF_vars(Recover(d))

-----------------------------------------------------------------------------
(* Properties. *)

\* The first n tables have been seeded, whatever became of the demo data since.
SeededUpTo(tables, n) == \A i \in 1..n : tables[SeedOrder[i]].demo # "none"

\* What a process has seen to: the tables before the one it is at, or all.
Prepared(tables, p) ==
  /\ p.pc = "connect" => p.at = 1
  /\ p.pc \in {"count", "insert"} => SeededUpTo(tables, p.at - 1)
  /\ p.pc \in {"redis", "draining"} \cup Serving => SeededUpTo(tables, Len(SeedOrder))

\* The inductive invariant behind the safety properties: types, the demo data
\* is the first that goes into a table, and the tables are filled in order by
\* every process, although another one may have filled them (Seed).
IInv ==
  /\ TypeOK
  /\ \A t \in Table : table[t].other => table[t].demo # "none"
  /\ \A s \in Server : Prepared(table, server[s])

\* Whoever serves has the users and the demo data it was promised, although
\* the tables are filled one by one, by processes that race with each other
\* and may die in between: nothing is left half seeded (Seed).
ServingIsSeeded ==
  \A s \in Server : server[s].pc \in Serving \cup {"draining"} =>
    \A t \in Table : table[t].demo # "none" \/ table[t].other

\* Seeding never brings back demo data that was deleted, whoever restarts when
\* (the emptiness check and the unique index on the code).
DeletedStaysDeleted ==
  [][\A t \in Table : table[t].demo = "deleted" => table'[t].demo = "deleted"]_vars

\* What Load accepts can be run: positive timeouts and a positive token life,
\* which nothing validates, a limit in its range; and the runtime endpoint
\* speaks of Redis as the server uses it (Load, Validate, Public).
AcceptedIsUsable ==
  Validate(config) =>
    /\ config.TokenTTL > 0 /\ \A t \in Timeout : config.Timeouts[t] > 0
    /\ config.RequestLimit \in RequestLimits
    /\ RedisEnabled(config) <=> DialsRedis(config)

\* A server that is told to stop stops, even when its database is gone and a
\* handler hangs (main, SHUTDOWN_TIMEOUT).
StopsWhenTold ==
  \A s \in Server : At(s, "draining") ~> server[s].pc \in {"stopped", "down"}

\* As long as it is not stopped, a server with a valid configuration comes
\* back into service after every crash and outage: the retries of Open, the
\* restart policy "unless-stopped" (docker-compose.yml:63) and seeding that
\* can be repeated from wherever it was interrupted.
ComesBack ==
  \A s \in Server : Validate(config) => []<>(Healthy(s) \/ At(s, "stopped"))
=============================================================================
