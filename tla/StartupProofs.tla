---------------------------- MODULE StartupProofs ----------------------------
(***************************************************************************)
(* Proofs about Startup, for any number of servers, any environments, any  *)
(* number of attempts, changes and faults.                                 *)
(***************************************************************************)
EXTENDS Startup, TLAPS

\* There are five tables.
LEMMA Tables ==
  /\ Len(SeedOrder) = 5 /\ DOMAIN SeedOrder = 1..5
  /\ \A i \in 1..5 : SeedOrder[i] \in Table
BY DEF SeedOrder, Table

\* The demo data of no table is forgotten; a deleted one stays deleted.
Grows(tables, later) ==
  \A t \in Table : /\ tables[t].demo # "none" => later[t].demo # "none"
                   /\ tables[t].demo = "deleted" => later[t].demo = "deleted"

\* What a process has seen to stays done.
LEMMA StaysPrepared ==
  ASSUME NEW tables, NEW later, Grows(tables, later), NEW p \in Process, Prepared(tables, p)
  PROVE  Prepared(later, p)
<1>1. p.at \in 1..5
  BY Tables DEF Process
<1>2. \A n \in 0..5 : SeededUpTo(tables, n) => SeededUpTo(later, n)
  BY Tables DEF SeededUpTo, Grows
<1>3. p.at - 1 \in 0..5 /\ Len(SeedOrder) \in 0..5
  BY <1>1, Tables
<1>. QED  BY <1>2, <1>3 DEF Prepared

\* A process that is gone is a process, and has nothing to have seen to.
LEMMA GoneIsPrepared ==
  ASSUME NEW tables, NEW pc \in {"down", "stopped", "connect"}
  PROVE  Gone(pc) \in Process /\ Prepared(tables, Gone(pc))
<1>1. 1 \in DOMAIN SeedOrder /\ 1 \in 1..MaxAttempts
  BY Tables, StartupAssumption
<1>2. Gone(pc) \in Process
  BY <1>1 DEF Gone, Process, Starting
<1>. QED  BY <1>2 DEF Gone, Prepared, Serving

\* One process changes, and with it perhaps a table.
LEMMA ProcessStep ==
  ASSUME IInv, NEW s \in Server, NEW p \in Process, Become(s, p), Prepared(table', p),
         table' \in [Table -> Contents], Grows(table, table'),
         \A t \in Table : table'[t].other => table'[t].demo # "none",
         config' = config, up' \in SUBSET Dependency,
         changes' \in 0..MaxChanges, faults' \in 0..MaxFaults
  PROVE  IInv'
<1>1. server \in [Server -> Process] /\ config \in {Config(e) : e \in Environment}
  BY DEF IInv, TypeOK
<1>2. server' \in [Server -> Process] /\ server'[s] = p
  BY <1>1 DEF Become
<1>3. \A r \in Server : r # s => server'[r] = server[r]
  BY <1>1 DEF Become
<1>4. TypeOK'
  BY <1>1, <1>2 DEF TypeOK
<1>5. ASSUME NEW r \in Server PROVE Prepared(table', server'[r])
  <2>1. CASE r = s
    BY <2>1, <1>2
  <2>2. CASE r # s
    <3>1. server[r] \in Process /\ Prepared(table, server[r])
      BY <1>1 DEF IInv
    <3>. QED  BY <3>1, <2>2, <1>3, StaysPrepared
  <2>. QED  BY <2>1, <2>2
<1>. QED  BY <1>4, <1>5 DEF IInv

\* One process changes and nothing else but the number of faults.
LEMMA QuietStep ==
  ASSUME IInv, NEW s \in Server, NEW p \in Process, Become(s, p), Prepared(table, p),
         UNCHANGED <<config, up, table, changes>>, faults' \in 0..MaxFaults
  PROVE  IInv' /\ Grows(table, table')
<1>1. Grows(table, table')
  BY DEF Grows
<1>2. /\ table' \in [Table -> Contents] /\ up' \in SUBSET Dependency
      /\ changes' \in 0..MaxChanges
      /\ \A t \in Table : table'[t].other => table'[t].demo # "none"
  BY DEF IInv, TypeOK
<1>3. Prepared(table', p) /\ config' = config
  OBVIOUS
<1>. QED  BY <1>1, <1>2, <1>3, ProcessStep

-----------------------------------------------------------------------------
(* The inductive invariant. *)

LEMMA InitIsPrepared == Init => IInv
<1> SUFFICES ASSUME Init PROVE IInv
  OBVIOUS
<1>1. TypeOK
  <2>1. server \in [Server -> Process]
    BY GoneIsPrepared DEF Init
  <2>. QED  BY <2>1, StartupAssumption DEF Init, TypeOK, Contents
<1>2. \A s \in Server : Prepared(table, server[s])
  BY GoneIsPrepared DEF Init
<1>. QED  BY <1>1, <1>2 DEF Init, IInv

\* What the types say of a process, and of its next state.
LEMMA ProcessTyped ==
  ASSUME IInv, NEW s \in Server
  PROVE  /\ server[s] \in Process /\ server[s].at \in 1..5
         /\ server[s].tries \in 1..MaxAttempts /\ server[s].busy \in BOOLEAN
         /\ Prepared(table, server[s])
         /\ \A pc \in Starting \cup Serving \cup {"draining"} :
              /\ [server[s] EXCEPT !.pc = pc] \in Process
              /\ [server[s] EXCEPT !.pc = pc].pc = pc
              /\ [server[s] EXCEPT !.pc = pc].at = server[s].at
         /\ faults \in 0..MaxFaults
<1>1. server[s] \in Process /\ faults \in 0..MaxFaults
  BY DEF IInv, TypeOK
<1>2. Prepared(table, server[s])
  BY DEF IInv
<1>3. \A pc \in Starting \cup Serving \cup {"draining"} :
        /\ [server[s] EXCEPT !.pc = pc] \in Process
        /\ [server[s] EXCEPT !.pc = pc].pc = pc
        /\ [server[s] EXCEPT !.pc = pc].at = server[s].at
  BY <1>1 DEF Process
<1>. QED  BY <1>1, <1>2, <1>3, Tables DEF Process

\* A process that ends, or starts, or whose next state is as prepared.
LEMMA GoneStep ==
  ASSUME IInv, NEW s \in Server, NEW pc \in {"down", "stopped", "connect"}, Become(s, Gone(pc)),
         UNCHANGED <<config, up, table, changes>>, faults' \in 0..MaxFaults
  PROVE  IInv' /\ Grows(table, table')
BY GoneIsPrepared, QuietStep

\* A fault is within its bound.
LEMMA FaultTyped ==
  ASSUME faults \in 0..MaxFaults, Fault
  PROVE  faults' \in 0..MaxFaults
BY StartupAssumption DEF Fault

\* What follows a table that has been seen to.
LEMMA SeededIsPrepared ==
  ASSUME NEW tables, NEW p \in Process, p.pc \in {"count", "insert"},
         SeededUpTo(tables, p.at - 1), tables[SeedOrder[p.at]].demo # "none"
  PROVE  Seeded(p) \in Process /\ Prepared(tables, Seeded(p))
<1>1. p.at \in 1..5 /\ Len(SeedOrder) = 5 /\ DOMAIN SeedOrder = 1..5
  BY Tables DEF Process
<1>2. SeededUpTo(tables, p.at)
  BY <1>1 DEF SeededUpTo
<1>3. CASE p.at = 5
  <2>1. Seeded(p) = [p EXCEPT !.pc = "redis"]
    BY <1>1, <1>3 DEF Seeded
  <2>2. Seeded(p) \in Process /\ Seeded(p).pc = "redis"
    BY <2>1 DEF Process, Starting
  <2>. QED  BY <2>2, <1>1, <1>2, <1>3 DEF Prepared
<1>4. CASE p.at # 5
  <2>1. Seeded(p) = [p EXCEPT !.at = p.at + 1, !.pc = "count"]
    BY <1>1, <1>4 DEF Seeded
  <2>2. p.at + 1 \in 1..5 /\ (p.at + 1) - 1 = p.at
    BY <1>1, <1>4
  <2>3. Seeded(p) \in Process /\ Seeded(p).pc = "count" /\ Seeded(p).at = p.at + 1
    BY <2>1, <2>2, <1>1 DEF Process, Starting
  <2>. QED  BY <2>2, <2>3, <1>2 DEF Prepared, Serving
<1>. QED  BY <1>3, <1>4

\* No step of main before the server listens loses anything.
LEMMA StartingStep ==
  ASSUME IInv, NEW s \in Server,
         Start(s) \/ Connect(s) \/ ConnectFails(s) \/ Count(s) \/ PingRedis(s) \/ OpenFails(s)
  PROVE  IInv' /\ Grows(table, table')
<1>1. CASE Start(s)
  <2>1. faults' \in 0..MaxFaults
    BY <1>1, ProcessTyped DEF Start
  <2>2. Become(s, Gone("connect")) \/ Become(s, Gone("down"))
    BY <1>1 DEF Start
  <2>. QED  BY <1>1, <2>1, <2>2, GoneStep DEF Start
<1>2. CASE Connect(s)
  <2>. DEFINE p == [server[s] EXCEPT !.pc = "count"]
  <2>1. p \in Process /\ p.pc = "count" /\ p.at = server[s].at
    BY ProcessTyped DEF Starting
  <2>2. server[s].at = 1
    BY <1>2, ProcessTyped DEF Connect, At, Prepared
  <2>3. SeededUpTo(table, p.at - 1)
    BY <2>1, <2>2 DEF SeededUpTo
  <2>. HIDE DEF p
  <2>4. Prepared(table, p)
    BY <2>1, <2>3 DEF Prepared, Serving
  <2>5. Become(s, p) /\ UNCHANGED <<config, up, table, changes>> /\ faults' \in 0..MaxFaults
    BY <1>2, ProcessTyped DEF Connect, p
  <2>. QED  BY <2>1, <2>4, <2>5, QuietStep
<1>3. CASE ConnectFails(s)
  <2>1. UNCHANGED <<config, up, table, changes>> /\ faults' \in 0..MaxFaults
    BY <1>3, ProcessTyped DEF ConnectFails
  <2>2. CASE server[s].tries < MaxAttempts
    <3>. DEFINE p == [server[s] EXCEPT !.tries = @ + 1]
    <3>1. server[s].tries + 1 \in 1..MaxAttempts
      BY <2>2, ProcessTyped, StartupAssumption
    <3>2. p \in Process /\ p.pc = "connect" /\ p.at = 1
      BY <1>3, <3>1, ProcessTyped DEF Process, ConnectFails, At, Prepared
    <3>3. Become(s, p)
      BY <1>3, <2>2 DEF ConnectFails
    <3>. HIDE DEF p
    <3>4. Prepared(table, p)
      BY <3>2 DEF Prepared, Serving
    <3>. QED  BY <2>1, <3>2, <3>3, <3>4, QuietStep
  <2>3. CASE ~(server[s].tries < MaxAttempts)
    BY <1>3, <2>1, <2>3, GoneStep DEF ConnectFails
  <2>. QED  BY <2>2, <2>3
<1>4. CASE Count(s)
  <2>1. UNCHANGED <<config, up, table, changes>> /\ faults' \in 0..MaxFaults
    BY <1>4, ProcessTyped DEF Count
  <2>2. server[s].pc = "count" /\ server[s] \in Process /\ SeededUpTo(table, server[s].at - 1)
    BY <1>4, ProcessTyped DEF Count, At, Prepared
  <2>3. CASE Visible(SeedOrder[server[s].at])
    <3>1. table[SeedOrder[server[s].at]].demo # "none"
      BY <2>3, Tables, ProcessTyped DEF Visible, IInv
    <3>2. Seeded(server[s]) \in Process /\ Prepared(table, Seeded(server[s]))
      BY <2>2, <3>1, SeededIsPrepared
    <3>3. Become(s, Seeded(server[s]))
      BY <1>4, <2>3 DEF Count
    <3>. QED  BY <2>1, <3>2, <3>3, QuietStep
  <2>4. CASE ~Visible(SeedOrder[server[s].at])
    <3>. DEFINE p == [server[s] EXCEPT !.pc = "insert"]
    <3>1. p \in Process /\ p.pc = "insert" /\ p.at = server[s].at
      BY ProcessTyped DEF Starting
    <3>2. Become(s, p)
      BY <1>4, <2>4 DEF Count
    <3>. HIDE DEF p
    <3>3. Prepared(table, p)
      BY <2>2, <3>1 DEF Prepared, Serving
    <3>. QED  BY <2>1, <3>1, <3>2, <3>3, QuietStep
  <2>. QED  BY <2>3, <2>4
<1>5. CASE PingRedis(s)
  <2>1. UNCHANGED <<config, up, table, changes>> /\ faults' \in 0..MaxFaults
    BY <1>5, ProcessTyped DEF PingRedis
  <2>2. CASE DialsRedis(config) /\ "redis" \notin up
    BY <1>5, <2>1, <2>2, GoneStep DEF PingRedis
  <2>3. CASE ~(DialsRedis(config) /\ "redis" \notin up)
    <3>. DEFINE p == [server[s] EXCEPT !.pc = "listening"]
    <3>1. p \in Process /\ p.pc = "listening"
      BY ProcessTyped DEF Serving
    <3>2. Become(s, p)
      BY <1>5, <2>3 DEF PingRedis
    <3>. HIDE DEF p
    <3>3. Prepared(table, p)
      BY <1>5, <3>1, ProcessTyped DEF PingRedis, At, Prepared
    <3>. QED  BY <2>1, <3>1, <3>2, <3>3, QuietStep
  <2>. QED  BY <2>2, <2>3
<1>6. CASE OpenFails(s)
  <2>1. faults' \in 0..MaxFaults
    BY <1>6, ProcessTyped, FaultTyped DEF OpenFails
  <2>. QED  BY <1>6, <2>1, GoneStep DEF OpenFails
<1>. QED  BY <1>1, <1>2, <1>3, <1>4, <1>5, <1>6

\* Putting the demo data into a table seeds it, and overwrites nothing.
LEMMA InsertStep ==
  ASSUME IInv, NEW s \in Server, Insert(s)
  PROVE  IInv' /\ Grows(table, table')
<1>. DEFINE t == SeedOrder[server[s].at]
<1>1. server[s].pc = "insert" /\ server[s] \in Process /\ SeededUpTo(table, server[s].at - 1)
  BY ProcessTyped DEF Insert, At, Prepared
<1>2. t \in Table /\ faults' \in 0..MaxFaults
  BY Tables, ProcessTyped DEF Insert
<1>3. CASE ~Insertable(t)
  BY <1>2, <1>3, GoneStep DEF Insert
<1>4. CASE Insertable(t)
  <2>1. /\ table' = [table EXCEPT ![t].demo = "visible"] /\ Become(s, Seeded(server[s]))
        /\ table[t].demo = "none"
    BY <1>4 DEF Insert, Insertable
  <2>2. table \in [Table -> Contents]
    BY DEF IInv, TypeOK
  <2>. HIDE DEF t
  <2>3. /\ table' \in [Table -> Contents] /\ table'[t].demo = "visible"
        /\ \A u \in Table : u # t => table'[u] = table[u]
    BY <2>1, <2>2, <1>2 DEF Contents
  <2>4. Grows(table, table')
    BY <2>1, <2>3 DEF Grows
  <2>5. \A u \in Table : table'[u].other => table'[u].demo # "none"
    BY <2>3 DEF IInv
  <2>6. SeededUpTo(table', server[s].at - 1)
    BY <1>1, <2>4, Tables, ProcessTyped DEF SeededUpTo, Grows
  <2>7. table'[SeedOrder[server[s].at]].demo # "none"
    BY <2>3 DEF t
  <2>8. Seeded(server[s]) \in Process /\ Prepared(table', Seeded(server[s]))
    BY <1>1, <2>6, <2>7, SeededIsPrepared
  <2>9. config' = config /\ up' \in SUBSET Dependency /\ changes' \in 0..MaxChanges
    BY DEF Insert, IInv, TypeOK
  <2>. QED  BY <1>2, <2>1, <2>3, <2>4, <2>5, <2>8, <2>9, ProcessStep
<1>. QED  BY <1>3, <1>4

\* A record is created, or the last of a kind deleted, where the demo data is.
LEMMA ChangeStep ==
  ASSUME IInv, NEW s \in Server, Change(s)
  PROVE  IInv' /\ Grows(table, table')
<1>1. /\ server[s] \in Process /\ server[s].pc \in Serving
      /\ SeededUpTo(table, Len(SeedOrder)) /\ table \in [Table -> Contents]
  BY ProcessTyped DEF Change, Prepared, IInv, TypeOK
<1>2. \A t \in Table : table[t].demo # "none"
  BY <1>1, Tables DEF Table, SeededUpTo
<1>3. PICK t \in Table :
        \/ table' = [table EXCEPT ![t].other = ~@]
        \/ table[t].demo = "visible" /\ table' = [table EXCEPT ![t].demo = "deleted"]
  BY DEF Change
<1>4. /\ table' \in [Table -> Contents] /\ Grows(table, table')
      /\ \A u \in Table : table'[u].demo # "none"
  <2>1. CASE table' = [table EXCEPT ![t].other = ~@]
    <3>1. table' \in [Table -> Contents] /\ \A u \in Table : table'[u].demo = table[u].demo
      BY <1>1, <2>1 DEF Contents
    <3>. QED  BY <3>1, <1>2 DEF Grows
  <2>2. CASE table[t].demo = "visible" /\ table' = [table EXCEPT ![t].demo = "deleted"]
    <3>1. /\ table' \in [Table -> Contents] /\ table'[t].demo = "deleted"
          /\ \A u \in Table : u # t => table'[u] = table[u]
      BY <1>1, <2>2 DEF Contents
    <3>. QED  BY <3>1, <1>2 DEF Grows
  <2>. QED  BY <1>3, <2>1, <2>2
<1>5. SeededUpTo(table', Len(SeedOrder))
  BY <1>4, Tables DEF SeededUpTo
<1>. DEFINE p == [server[s] EXCEPT !.busy = TRUE]
<1>6. p \in Process /\ p.pc \in Serving
  BY <1>1 DEF Process
<1>7. Become(s, p) /\ config' = config
  BY DEF Change
<1>. HIDE DEF p
<1>8. Prepared(table', p)
  BY <1>5, <1>6 DEF Prepared, Serving
<1>9. up' \in SUBSET Dependency /\ changes' \in 0..MaxChanges /\ faults' \in 0..MaxFaults
  BY StartupAssumption DEF Change, IInv, TypeOK
<1>. QED  BY <1>4, <1>6, <1>7, <1>8, <1>9, ProcessStep

\* The other steps of a process that listens.
LEMMA ServingStep ==
  ASSUME IInv, NEW s \in Server,
         Notify(s) \/ Answer(s) \/ Sigterm(s) \/ Drained(s) \/ DrainTimeout(s) \/ Kill(s)
  PROVE  IInv' /\ Grows(table, table')
<1>1. CASE Notify(s)
  <2>. DEFINE p == [server[s] EXCEPT !.pc = "serving"]
  <2>1. p \in Process /\ p.pc = "serving"
    BY ProcessTyped DEF Serving
  <2>2. Become(s, p) /\ UNCHANGED <<config, up, table, changes>> /\ faults' \in 0..MaxFaults
    BY <1>1, ProcessTyped DEF Notify
  <2>. HIDE DEF p
  <2>3. Prepared(table, p)
    BY <1>1, <2>1, ProcessTyped DEF Notify, At, Prepared, Serving
  <2>. QED  BY <2>1, <2>2, <2>3, QuietStep
<1>2. CASE Answer(s)
  <2>. DEFINE p == [server[s] EXCEPT !.busy = FALSE]
  <2>1. p \in Process /\ p.pc = server[s].pc /\ p.at = server[s].at
    BY ProcessTyped DEF Process
  <2>2. Become(s, p) /\ UNCHANGED <<config, up, table, changes>> /\ faults' \in 0..MaxFaults
    BY <1>2, ProcessTyped DEF Answer
  <2>. HIDE DEF p
  <2>3. Prepared(table, p)
    BY <2>1, ProcessTyped DEF Prepared
  <2>. QED  BY <2>1, <2>2, <2>3, QuietStep
<1>3. CASE Sigterm(s)
  <2>1. UNCHANGED <<config, up, table, changes>> /\ faults' \in 0..MaxFaults
    BY <1>3, ProcessTyped DEF Sigterm
  <2>2. CASE At(s, "serving")
    <3>. DEFINE p == [server[s] EXCEPT !.pc = "draining"]
    <3>1. p \in Process /\ p.pc = "draining"
      BY ProcessTyped
    <3>2. Become(s, p)
      BY <1>3, <2>2 DEF Sigterm
    <3>. HIDE DEF p
    <3>3. Prepared(table, p)
      BY <2>2, <3>1, ProcessTyped DEF At, Prepared, Serving
    <3>. QED  BY <2>1, <3>1, <3>2, <3>3, QuietStep
  <2>3. CASE ~At(s, "serving")
    BY <1>3, <2>1, <2>3, GoneStep DEF Sigterm
  <2>. QED  BY <2>2, <2>3
<1>4. CASE Drained(s)
  BY <1>4, ProcessTyped, GoneStep DEF Drained
<1>5. CASE DrainTimeout(s)
  BY <1>5, ProcessTyped, GoneStep DEF DrainTimeout
<1>6. CASE Kill(s)
  <2>1. faults' \in 0..MaxFaults
    BY <1>6, ProcessTyped, FaultTyped DEF Kill
  <2>. QED  BY <1>6, <2>1, GoneStep DEF Kill
<1>. QED  BY <1>1, <1>2, <1>3, <1>4, <1>5, <1>6

\* A dependency comes or goes, or nothing happens.
LEMMA OutsideStep ==
  ASSUME IInv, UNCHANGED vars \/ \E d \in Dependency : Outage(d) \/ Recover(d)
  PROVE  IInv' /\ Grows(table, table')
<1>1. UNCHANGED <<config, table, server, changes>>
  BY DEF Outage, Recover, vars
<1>2. up' \in SUBSET Dependency /\ faults' \in 0..MaxFaults
  BY FaultTyped DEF IInv, TypeOK, Outage, Recover, vars
<1>3. TypeOK'
  BY <1>1, <1>2 DEF IInv, TypeOK
<1>. QED  BY <1>1, <1>3 DEF IInv, Grows

LEMMA NextIsPrepared ==
  ASSUME IInv, [Next]_vars
  PROVE  IInv' /\ Grows(table, table')
<1>1. ASSUME NEW s \in Server,
             Start(s) \/ Step(s) \/ OpenFails(s) \/ Change(s) \/ Answer(s) \/ Sigterm(s) \/ Kill(s)
      PROVE  IInv' /\ Grows(table, table')
  BY <1>1, StartingStep, InsertStep, ChangeStep, ServingStep DEF Step
<1>. QED  BY <1>1, OutsideStep DEF Next

-----------------------------------------------------------------------------
(* The theorems. *)

\* The inductive invariant: whoever is past a table has found or put its demo
\* data there (Seed), for any number of servers, crashes and outages.
THEOREM Invariance == Spec => []IInv
BY InitIsPrepared, NextIsPrepared, PTL DEF Spec

\* Whoever serves is seeded, although the tables are filled one by one, by
\* processes that race and may die in between (Open, Seed).
THEOREM ServersAreSeeded == Spec => []ServingIsSeeded
<1>1. IInv => ServingIsSeeded
  <2> SUFFICES ASSUME IInv, NEW s \in Server, server[s].pc \in Serving \cup {"draining"},
                      NEW t \in Table
               PROVE  table[t].demo # "none"
    BY DEF ServingIsSeeded
  <2>1. SeededUpTo(table, Len(SeedOrder))
    BY ProcessTyped DEF Prepared
  <2>. QED  BY <2>1, Tables DEF Table, SeededUpTo
<1>. QED  BY <1>1, Invariance, PTL

\* No start brings demo data back that was deleted (the emptiness check and the
\* unique index on the code).
THEOREM DeletedDataStaysDeleted == Spec => DeletedStaysDeleted
<1>1. ASSUME IInv, [Next]_vars
      PROVE  [\A t \in Table : table[t].demo = "deleted" => table'[t].demo = "deleted"]_vars
  BY <1>1, NextIsPrepared DEF Grows
<1>. QED  BY <1>1, Invariance, PTL DEF Spec, DeletedStaysDeleted

\* What Validate accepts can be run, whatever is in the environment: also the
\* values it does not look at are in their ranges (Load).
THEOREM AcceptedConfigurationsAreUsable == Spec => []AcceptedIsUsable
<1>1. \A raw : durationEnv(raw, 28800) > 0
  BY DEF durationEnv, intEnv
<1>2. ASSUME NEW e \in Environment
      PROVE  /\ Config(e).TokenTTL > 0
             /\ RedisEnabled(Config(e)) <=> DialsRedis(Config(e))
  <2>1. Config(e).TokenTTL = durationEnv(e.TOKEN_TTL, 28800)
    BY DEF Config
  <2>2. Config(e).TokenTTL > 0
    BY <1>1, <2>1
  <2>3. Config(e).RedisAddr = env(e.REDIS_ADDR, "") /\ env(e.REDIS_ADDR, "") # "white"
    BY DEF Config, env
  <2>4. RedisEnabled(Config(e)) <=> DialsRedis(Config(e))
    BY <2>3 DEF RedisEnabled, DialsRedis
  <2>. QED  BY <2>2, <2>4
<1>3. IInv => AcceptedIsUsable
  <2> SUFFICES ASSUME IInv, Validate(config) PROVE AcceptedIsUsable
    BY DEF AcceptedIsUsable
  <2>1. PICK e \in Environment : config = Config(e)
    BY DEF IInv, TypeOK
  <2>2. config.TokenTTL > 0
    BY <1>2, <2>1
  <2>3. RedisEnabled(config) <=> DialsRedis(config)
    BY <1>2, <2>1
  <2>4. config.RequestLimit \in RequestLimits
    BY DEF Validate
  <2>5. \A t \in Timeout : config.Timeouts[t] > 0
    BY DEF Validate
  <2>. QED  BY <2>2, <2>3, <2>4, <2>5 DEF AcceptedIsUsable
<1>. QED  BY <1>3, Invariance, PTL
=============================================================================
