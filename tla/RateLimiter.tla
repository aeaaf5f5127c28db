----------------------------- MODULE RateLimiter -----------------------------
(***************************************************************************)
(* The request limiter of middleware/ratelimit.go: a counter per key and   *)
(* minute in Redis, shared by all instances of the server, and a map of    *)
(* counters in each instance's memory for when Redis does not answer.      *)
(*                                                                         *)
(* A key is a client address and a route.  Time is the number of the       *)
(* current minute.  A request reads the clock to name its Redis counter,   *)
(* and the counter is increased later, possibly in another minute; the     *)
(* local counter is chosen and increased under the mutex, in one step.     *)
(*                                                                         *)
(* The expiry of a Redis counter is left out: it is set to two minutes by  *)
(* every increment, and no increment of a minute's counter comes that late *)
(* (the client library gives up after seconds).                            *)
(***************************************************************************)
EXTENDS Naturals, FiniteSets

CONSTANTS Instance,      \* server processes
          Key,           \* client address and route
          Request,       \* requests that may be in the middleware at once
          Limit,         \* REQUEST_LIMIT
          LocalCap,      \* a map of this size is cleaned up (512)
          RedisEnabled,  \* is a Redis address configured?
          Faults,        \* may Redis calls fail and instances restart?
          Redis,         \* the name of the shared counters
          MaxWindow,     \* bound: minutes that pass
          MaxArrivals    \* bound: requests that arrive

ASSUME RateLimiterAssumption ==
  /\ Limit \in Nat \ {0} /\ LocalCap \in Nat \ {0}
  /\ RedisEnabled \in BOOLEAN /\ Faults \in BOOLEAN
  /\ Redis \notin Instance
  /\ MaxWindow \in Nat \ {0} /\ MaxArrivals \in Nat

VARIABLES now,       \* the current minute
          redis,     \* Redis counters, by key and minute
          local,     \* the map of each instance, by key
          req,       \* what each request is doing
          arrived,   \* requests that have arrived
          admitted,  \* history: requests let through, by source, key, minute
          refused    \* history: requests answered 429, likewise

vars == <<now, redis, local, req, arrived, admitted, refused>>

Window == 1..MaxWindow

Source == {Redis} \cup Instance

Bucket == [window : {0} \cup Window, count : Nat]

\* A key that is not in the map; a bucket that is has a window.
NoBucket == [window |-> 0, count |-> 0]

Tracked(i) == {k \in Key : local[i][k] # NoBucket}

Waiting == [pc : {"redis", "local"}, at : Instance, key : Key, window : Window]

Idle == [pc |-> "idle"]

Zero == [k \in Key |-> [w \in Window |-> 0]]

TypeOK ==
  /\ now      \in Window
  /\ redis    \in [Key -> [Window -> Nat]]
  /\ local    \in [Instance -> [Key -> Bucket]]
  /\ req      \in [Request -> {Idle} \cup Waiting]
  /\ arrived  \in 0..MaxArrivals
  /\ admitted \in [Source -> [Key -> [Window -> Nat]]]
  /\ refused  \in [Source -> [Key -> [Window -> Nat]]]

Init ==
  /\ now      = 1
  /\ redis    = Zero
  /\ local    = [i \in Instance |-> [k \in Key |-> NoBucket]]
  /\ req      = [p \in Request |-> Idle]
  /\ arrived  = 0
  /\ admitted = [s \in Source |-> Zero]
  /\ refused  = [s \in Source |-> Zero]

-----------------------------------------------------------------------------
\* Fault: the limit is passed before it is noticed.
DecideLate(s, k, w, count) ==
  IF count > Limit + 1
  THEN refused' = [refused EXCEPT ![s][k][w] = @ + 1] /\ UNCHANGED admitted
  ELSE admitted' = [admitted EXCEPT ![s][k][w] = @ + 1] /\ UNCHANGED refused

\* The count a request got decides it.
Decide(s, k, w, count) ==
  IF count > Limit
  THEN refused' = [refused EXCEPT ![s][k][w] = @ + 1] /\ UNCHANGED admitted
  ELSE admitted' = [admitted EXCEPT ![s][k][w] = @ + 1] /\ UNCHANGED refused

\* A request enters the middleware and names its Redis counter; without Redis
\* it goes straight on to the local counter.
Arrive(p) ==
  /\ req[p] = Idle
  /\ arrived < MaxArrivals
  /\ \E i \in Instance, k \in Key :
       req' = [req EXCEPT ![p] = [pc  |-> IF RedisEnabled THEN "redis" ELSE "local",
                                  at  |-> i, key |-> k, window |-> now]]
  /\ arrived' = arrived + 1
  /\ UNCHANGED <<now, redis, local, admitted, refused>>

Incr(p) == redis' = [redis EXCEPT ![req[p].key][req[p].window] = @ + 1]

FallBack(p) == req' = [req EXCEPT ![p].pc = "local"]

\* The INCR and EXPIRE transaction runs and its reply arrives.
Increment(p) ==
  /\ req[p].pc = "redis"
  /\ Incr(p)
  /\ LET r == req[p] IN Decide(Redis, r.key, r.window, redis[r.key][r.window] + 1)
  /\ req' = [req EXCEPT ![p] = Idle]
  /\ UNCHANGED <<now, local, arrived>>

\* The transaction runs but its reply is lost: the request is counted twice.
IncrementUnreported(p) ==
  /\ Faults
  /\ req[p].pc = "redis"
  /\ Incr(p)
  /\ FallBack(p)
  /\ UNCHANGED <<now, local, arrived, admitted, refused>>

IncrementFails(p) ==
  /\ Faults
  /\ req[p].pc = "redis"
  /\ FallBack(p)
  /\ UNCHANGED <<now, redis, local, arrived, admitted, refused>>

\* Fault: the map may grow to one beyond the cap.
cleanupLocalLate(i) ==
  IF Cardinality(Tracked(i)) <= LocalCap THEN local[i]
  ELSE [k \in Key |-> IF local[i][k].window < now THEN NoBucket ELSE local[i][k]]

\* Fault: a full map is emptied.
cleanupLocalAll(i) ==
  IF Cardinality(Tracked(i)) < LocalCap THEN local[i] ELSE [k \in Key |-> NoBucket]

\* A full map drops the buckets of past minutes.
cleanupLocal(i) ==
  IF Cardinality(Tracked(i)) < LocalCap THEN local[i]
  ELSE [k \in Key |-> IF local[i][k].window < now THEN NoBucket ELSE local[i][k]]

\* Fault: the count is carried into the next minute.
NextBucketCarried(bucket) == [window |-> now, count |-> bucket.count + 1]

NextBucket(bucket) ==
  [window |-> now, count |-> IF bucket.window = now THEN bucket.count + 1 ELSE 1]

\* Under the mutex: clean up, start the bucket of this minute, count.
IncrementLocal(p) ==
  LET i      == req[p].at
      k      == req[p].key
      bucket == NextBucket(cleanupLocal(i)[k])
  IN  /\ req[p].pc = "local"
      /\ local' = [local EXCEPT ![i] = [cleanupLocal(i) EXCEPT ![k] = bucket]]
      /\ Decide(i, k, now, bucket.count)
      /\ req' = [req EXCEPT ![p] = Idle]
      /\ UNCHANGED <<now, redis, arrived>>

\* The clock of the servers, which never goes back.
Tick ==
  /\ now < MaxWindow
  /\ now' = now + 1
  /\ UNCHANGED <<redis, local, req, arrived, admitted, refused>>

\* An instance dies and starts again: its map is gone, and so are its requests.
\* The history of an instance is that of its running process.
Restart(i) ==
  /\ Faults
  /\ local'    = [local EXCEPT ![i] = [k \in Key |-> NoBucket]]
  /\ req'      = [p \in Request |-> IF req[p].pc # "idle" /\ req[p].at = i THEN Idle ELSE req[p]]
  /\ admitted' = [admitted EXCEPT ![i] = Zero]
  /\ refused'  = [refused EXCEPT ![i] = Zero]
  /\ UNCHANGED <<now, redis, arrived>>

Next ==
  \/ Tick
  \/ \E i \in Instance : Restart(i)
  \/ \E p \in Request : \/ Arrive(p) \/ Increment(p) \/ IncrementLocal(p)
                        \/ IncrementUnreported(p) \/ IncrementFails(p)

Spec == Init /\ [][Next]_vars

-----------------------------------------------------------------------------
(* Properties. *)

\* No source of counts, Redis or the map of a process, lets more than Limit
\* requests of a key through in a minute: not when the minute changes between
\* reading the clock and counting, and not when a full map is cleaned up.
\* (All sources together may: each process that loses Redis starts a count
\* of its own.)
WindowLimit ==
  \A s \in Source, k \in Key, w \in Window : admitted[s][k][w] <= Limit

\* A request is refused only when its source has let Limit requests of the
\* same key and minute through: no count is carried over from another minute
\* or key.  With faults this is only promised of the local counters, as a
\* request whose Redis reply was lost is counted there but let through here.
NoEarlyRefusal ==
  \A s \in IF Faults THEN Instance ELSE Source, k \in Key, w \in Window :
    refused[s][k][w] > 0 => admitted[s][k][w] = Limit

\* The map only outgrows its cap with keys of a single minute (cleanupLocal).
TrackedIsBounded ==
  \A i \in Instance :
    Cardinality(Tracked(i)) > LocalCap =>
      \A k, l \in Tracked(i) : local[i][k].window = local[i][l].window

-----------------------------------------------------------------------------
(* What makes WindowLimit and NoEarlyRefusal inductive. *)

\* How many of n counted requests are let through.
Capped(n) == IF n <= Limit THEN n ELSE Limit

\* A Redis counter has counted every request it let through, and no other one
\* unless a reply was lost.
RedisCounts ==
  \A k \in Key, w \in Window :
    /\ admitted[Redis][k][w] <= redis[k][w]
    /\ ~Faults => admitted[Redis][k][w] = Capped(redis[k][w])

\* The count a local bucket stands for in the current minute.
LocalCount(i, k) == IF local[i][k].window = now THEN local[i][k].count ELSE 0

\* A process lets requests through in the present only, and its bucket of the
\* current minute, if it has one, has counted them.
LocalCounts ==
  \A i \in Instance, k \in Key :
    /\ local[i][k].window <= now
    /\ admitted[i][k][now] = Capped(LocalCount(i, k))
    /\ \A w \in Window : w > now => admitted[i][k][w] = 0

\* A map holds finitely many buckets, whatever the number of keys.
TrackedIsFinite == \A i \in Instance : IsFiniteSet(Tracked(i))

IInv == TypeOK /\ WindowLimit /\ NoEarlyRefusal /\ RedisCounts /\ LocalCounts

MapInv == TrackedIsFinite /\ TrackedIsBounded
=============================================================================
