-------------------------- MODULE RateLimiterProofs --------------------------
(***************************************************************************)
(* Proofs about RateLimiter, for any number of instances, keys and         *)
(* requests, any limit and any size of the map, with and without Redis and *)
(* its failures.                                                           *)
(***************************************************************************)
EXTENDS RateLimiter, FiniteSetTheorems, TLAPS

\* Counting one more in a table of counters touches one of them.
LEMMA CountInTable ==
  ASSUME NEW K, NEW W, NEW f \in [K -> [W -> Nat]], NEW k \in K, NEW w \in W
  PROVE  LET g == [f EXCEPT ![k][w] = @ + 1] IN
         /\ g \in [K -> [W -> Nat]]
         /\ g[k][w] = f[k][w] + 1
         /\ \A l \in K, v \in W : ~(l = k /\ v = w) => g[l][v] = f[l][v]
<1>. DEFINE h == [f[k] EXCEPT ![w] = f[k][w] + 1]
            g == [f EXCEPT ![k] = h]
<1>1. h \in [W -> Nat] /\ h[w] = f[k][w] + 1 /\ \A v \in W : v # w => h[v] = f[k][v]
  OBVIOUS
<1>2. [f EXCEPT ![k][w] = @ + 1] = g
  OBVIOUS
<1>. HIDE DEF h
<1>3. g \in [K -> [W -> Nat]] /\ g[k] = h /\ \A l \in K : l # k => g[l] = f[l]
  BY <1>1
<1>. HIDE DEF g
<1>. QED  BY <1>1, <1>2, <1>3

\* The same of a history, a table for each source.
LEMMA CountInHistory ==
  ASSUME NEW S, NEW K, NEW W, NEW f \in [S -> [K -> [W -> Nat]]],
         NEW s \in S, NEW k \in K, NEW w \in W
  PROVE  LET g == [f EXCEPT ![s][k][w] = @ + 1] IN
         /\ g \in [S -> [K -> [W -> Nat]]]
         /\ g[s][k][w] = f[s][k][w] + 1
         /\ \A t \in S, l \in K, v \in W :
              ~(t = s /\ l = k /\ v = w) => g[t][l][v] = f[t][l][v]
<1>. DEFINE h == [f[s] EXCEPT ![k][w] = f[s][k][w] + 1]
            g == [f EXCEPT ![s] = h]
<1>1. /\ h \in [K -> [W -> Nat]]
      /\ h[k][w] = f[s][k][w] + 1
      /\ \A l \in K, v \in W : ~(l = k /\ v = w) => h[l][v] = f[s][l][v]
  <2>1. f[s] \in [K -> [W -> Nat]]
    OBVIOUS
  <2>2. h = [f[s] EXCEPT ![k][w] = @ + 1]
    OBVIOUS
  <2>. HIDE DEF h
  <2>. QED  BY <2>1, <2>2, CountInTable
<1>2. [f EXCEPT ![s][k][w] = @ + 1] = g
  OBVIOUS
<1>. HIDE DEF h
<1>3. g \in [S -> [K -> [W -> Nat]]] /\ g[s] = h /\ \A t \in S : t # s => g[t] = f[t]
  BY <1>1
<1>. HIDE DEF g
<1>. QED  BY <1>1, <1>2, <1>3
\* What the types say of single counters.
LEMMA Typed ==
  ASSUME TypeOK
  PROVE  /\ now \in Nat /\ 1 <= now /\ now <= MaxWindow
         /\ \A k \in Key, w \in Window : redis[k][w] \in Nat
         /\ \A i \in Instance : local[i] \in [Key -> Bucket]
         /\ \A i \in Instance, k \in Key :
              /\ local[i][k] \in Bucket
              /\ local[i][k].window \in Nat
              /\ local[i][k].count \in Nat
              /\ LocalCount(i, k) \in Nat
         /\ \A s \in Source, k \in Key, w \in Window :
              admitted[s][k][w] \in Nat /\ refused[s][k][w] \in Nat
<1>1. now \in Nat /\ 1 <= now /\ now <= MaxWindow
  BY RateLimiterAssumption DEF TypeOK, Window
<1>2. \A i \in Instance : local[i] \in [Key -> Bucket]
  BY DEF TypeOK
<1>3. \A i \in Instance, k \in Key :
        /\ local[i][k] \in Bucket
        /\ local[i][k].window \in Nat
        /\ local[i][k].count \in Nat
  BY <1>2, RateLimiterAssumption DEF Bucket, Window
<1>4. \A i \in Instance, k \in Key : LocalCount(i, k) \in Nat
  BY <1>3 DEF LocalCount
<1>5. \A k \in Key, w \in Window : redis[k][w] \in Nat
  BY DEF TypeOK
<1>6. \A s \in Source, k \in Key, w \in Window :
        admitted[s][k][w] \in Nat /\ refused[s][k][w] \in Nat
  BY DEF TypeOK
<1>. QED  BY <1>1, <1>2, <1>3, <1>4, <1>5, <1>6

\* What one decision does to the history: one entry grows by one, under the
\* limit as an admission, beyond it as a refusal (Middleware, lines 48-53).
LEMMA DecideCountsOne ==
  ASSUME NEW s \in Source, NEW k \in Key, NEW w \in Window, NEW count \in Nat,
         TypeOK, Decide(s, k, w, count)
  PROVE  /\ admitted' \in [Source -> [Key -> [Window -> Nat]]]
         /\ refused'  \in [Source -> [Key -> [Window -> Nat]]]
         /\ \A t \in Source, l \in Key, v \in Window :
              ~(t = s /\ l = k /\ v = w) =>
                /\ admitted'[t][l][v] = admitted[t][l][v]
                /\ refused'[t][l][v] = refused[t][l][v]
         /\ \/ /\ count > Limit
               /\ admitted'[s][k][w] = admitted[s][k][w]
            \/ /\ count <= Limit
               /\ admitted'[s][k][w] = admitted[s][k][w] + 1
               /\ refused'[s][k][w] = refused[s][k][w]
<1>1. /\ admitted \in [Source -> [Key -> [Window -> Nat]]]
      /\ refused  \in [Source -> [Key -> [Window -> Nat]]]
  BY DEF TypeOK
<1>2. CASE count > Limit
  <2>1. refused' = [refused EXCEPT ![s][k][w] = @ + 1] /\ admitted' = admitted
    BY <1>2 DEF Decide
  <2>2. /\ refused' \in [Source -> [Key -> [Window -> Nat]]]
        /\ \A t \in Source, l \in Key, v \in Window :
             ~(t = s /\ l = k /\ v = w) => refused'[t][l][v] = refused[t][l][v]
    BY <1>1, <2>1, CountInHistory
  <2>. QED  BY <1>1, <1>2, <2>1, <2>2
<1>3. CASE ~(count > Limit)
  <2>1. admitted' = [admitted EXCEPT ![s][k][w] = @ + 1] /\ refused' = refused
    BY <1>3 DEF Decide
  <2>2. /\ admitted' \in [Source -> [Key -> [Window -> Nat]]]
        /\ admitted'[s][k][w] = admitted[s][k][w] + 1
        /\ \A t \in Source, l \in Key, v \in Window :
             ~(t = s /\ l = k /\ v = w) => admitted'[t][l][v] = admitted[t][l][v]
    BY <1>1, <2>1, CountInHistory
  <2>3. count <= Limit
    BY <1>3, RateLimiterAssumption
  <2>. QED  BY <1>1, <2>1, <2>2, <2>3
<1>. QED  BY <1>2, <1>3

\* Cleaning up keeps the buckets of the current minute (cleanupLocal), so the
\* next count is one more than the last one (incrementLocal).
LEMMA NextCountIsOneMore ==
  ASSUME NEW i \in Instance, NEW k \in Key, TypeOK, LocalCounts
  PROVE  /\ cleanupLocal(i) \in [Key -> Bucket]
         /\ \A l \in Key : \/ cleanupLocal(i)[l] = local[i][l]
                           \/ /\ local[i][l].window < now
                              /\ cleanupLocal(i)[l] = NoBucket
         /\ NextBucket(cleanupLocal(i)[k]) \in Bucket
         /\ NextBucket(cleanupLocal(i)[k]).window = now
         /\ NextBucket(cleanupLocal(i)[k]).count = LocalCount(i, k) + 1
<1>1. /\ local[i] \in [Key -> Bucket]
      /\ local[i][k].window \in Nat /\ local[i][k].count \in Nat
      /\ LocalCount(i, k) \in Nat
      /\ now \in Nat /\ now >= 1 /\ now \in Window
  BY Typed DEF TypeOK
<1>2. NoBucket \in Bucket /\ NoBucket.window = 0 /\ NoBucket.count = 0
  BY DEF NoBucket, Bucket
<1>3. cleanupLocal(i) \in [Key -> Bucket]
  BY <1>1, <1>2 DEF cleanupLocal
<1>4. \A l \in Key : \/ cleanupLocal(i)[l] = local[i][l]
                     \/ /\ local[i][l].window < now
                        /\ cleanupLocal(i)[l] = NoBucket
  BY <1>1 DEF cleanupLocal
<1>5. NextBucket(cleanupLocal(i)[k]).window = now
  BY DEF NextBucket
<1>6. NextBucket(cleanupLocal(i)[k]).count = LocalCount(i, k) + 1
  <2>1. CASE cleanupLocal(i)[k] = local[i][k]
    BY <1>1, <2>1 DEF NextBucket, LocalCount
  <2>2. CASE local[i][k].window < now /\ cleanupLocal(i)[k] = NoBucket
    BY <1>1, <1>2, <2>2 DEF NextBucket, LocalCount
  <2>. QED  BY <1>4, <2>1, <2>2
<1>7. NextBucket(cleanupLocal(i)[k]) \in Bucket
  <2>1. NextBucket(cleanupLocal(i)[k]).count \in Nat
    BY <1>1, <1>6
  <2>. QED  BY <1>1, <2>1 DEF NextBucket, Bucket
<1>. QED  BY <1>3, <1>4, <1>5, <1>6, <1>7

\* What the constants are.
LEMMA Constants ==
  /\ Limit \in Nat /\ Limit >= 1
  /\ MaxWindow \in Nat /\ MaxWindow >= 1 /\ 1 \in Window
  /\ \A w \in Window : w \in Nat /\ w >= 1
  /\ Redis \in Source
  /\ \A i \in Instance : i \in Source /\ i # Redis
  /\ NoBucket \in Bucket /\ NoBucket.window = 0 /\ NoBucket.count = 0
  /\ Zero \in [Key -> [Window -> Nat]]
  /\ \A k \in Key, w \in Window : Zero[k][w] = 0
BY RateLimiterAssumption DEF Window, Source, NoBucket, Bucket, Zero

\* The next request is let through exactly if that raises the capped count.
LEMMA CappedNext ==
  ASSUME NEW n \in Nat
  PROVE  /\ Capped(n) \in Nat /\ Capped(n) <= Limit /\ Capped(n) <= n
         /\ n + 1 > Limit => Capped(n) = Limit /\ Capped(n + 1) = Limit
         /\ n + 1 <= Limit => Capped(n) # Limit /\ Capped(n + 1) = Capped(n) + 1
BY Constants DEF Capped

LEMMA InitEstablishes == Init => IInv
<1>. SUFFICES ASSUME Init PROVE IInv
  OBVIOUS
<1>1. /\ \A s \in Source, k \in Key, w \in Window :
           admitted[s][k][w] = 0 /\ refused[s][k][w] = 0
      /\ \A k \in Key, w \in Window : redis[k][w] = 0
      /\ \A i \in Instance, k \in Key : local[i][k] = NoBucket
      /\ now = 1
  BY Constants DEF Init
<1>2. TypeOK
  <2>1. local \in [Instance -> [Key -> Bucket]]
    BY Constants DEF Init
  <2>2. admitted \in [Source -> [Key -> [Window -> Nat]]]
    BY Constants DEF Init
  <2>3. refused \in [Source -> [Key -> [Window -> Nat]]]
    BY Constants DEF Init
  <2>. QED  BY <2>1, <2>2, <2>3, Constants, RateLimiterAssumption DEF Init, TypeOK
<1>3. WindowLimit
  BY <1>1, Constants DEF WindowLimit
<1>4. NoEarlyRefusal
  BY <1>1, Constants DEF NoEarlyRefusal
<1>5. RedisCounts
  BY <1>1, Constants DEF RedisCounts, Capped
<1>6. LocalCounts
  BY <1>1, Constants DEF LocalCounts, LocalCount, Capped
<1>. QED  BY <1>2, <1>3, <1>4, <1>5, <1>6 DEF IInv

\* The steps that count nothing.
LEMMA QuietStepPreserves ==
  ASSUME IInv,
         UNCHANGED <<now, redis, local, admitted, refused>>,
         arrived' \in 0..MaxArrivals,
         req' \in [Request -> {Idle} \cup Waiting]
  PROVE  IInv'
BY DEF IInv, TypeOK, WindowLimit, NoEarlyRefusal, RedisCounts, LocalCounts, LocalCount, Capped

LEMMA TickPreserves ==
  ASSUME IInv, Tick
  PROVE  IInv'
<1>. USE DEF IInv
<1>1. /\ now' \in Window /\ now' = now + 1 /\ now \in Nat
      /\ UNCHANGED <<redis, local, req, arrived, admitted, refused>>
  BY Typed, RateLimiterAssumption DEF Tick, Window
<1>2. TypeOK'
  BY <1>1 DEF TypeOK
<1>3. WindowLimit' /\ NoEarlyRefusal' /\ RedisCounts'
  BY <1>1 DEF WindowLimit, NoEarlyRefusal, RedisCounts, Capped
<1>4. LocalCounts'
  <2>1. ASSUME NEW i \in Instance, NEW k \in Key
        PROVE  /\ local[i][k].window <= now'
               /\ admitted[i][k][now'] = Capped(LocalCount(i, k)')
               /\ \A w \in Window : w > now' => admitted[i][k][w] = 0
    <3>1. local[i][k].window <= now /\ local[i][k].window \in Nat
      BY Typed DEF LocalCounts
    <3>2. admitted[i][k][now'] = 0 /\ \A w \in Window : w > now' => admitted[i][k][w] = 0
      BY <1>1, Constants DEF LocalCounts
    <3>3. LocalCount(i, k)' = 0
      BY <1>1, <3>1 DEF LocalCount
    <3>. QED  BY <1>1, <3>1, <3>2, <3>3, Constants DEF Capped
  <2>. QED  BY <1>1, <2>1 DEF LocalCounts, Capped
<1>. QED  BY <1>2, <1>3, <1>4

LEMMA IncrementPreserves ==
  ASSUME IInv, NEW p \in Request, Increment(p)
  PROVE  IInv'
<1>. USE DEF IInv
<1>. DEFINE k == req[p].key  w == req[p].window
<1>1. k \in Key /\ w \in Window /\ redis[k][w] \in Nat
  BY Typed DEF TypeOK, Increment, Idle, Waiting
<1>2. /\ redis' = [redis EXCEPT ![k][w] = @ + 1]
      /\ Decide(Redis, k, w, redis[k][w] + 1)
      /\ UNCHANGED <<now, local, arrived>>
      /\ req' = [req EXCEPT ![p] = Idle]
  BY DEF Increment, Incr
<1>. HIDE DEF k, w
<1>3. /\ admitted' \in [Source -> [Key -> [Window -> Nat]]]
      /\ refused'  \in [Source -> [Key -> [Window -> Nat]]]
      /\ \A t \in Source, l \in Key, v \in Window :
           ~(t = Redis /\ l = k /\ v = w) =>
             /\ admitted'[t][l][v] = admitted[t][l][v]
             /\ refused'[t][l][v] = refused[t][l][v]
      /\ \/ /\ redis[k][w] + 1 > Limit
            /\ admitted'[Redis][k][w] = admitted[Redis][k][w]
         \/ /\ redis[k][w] + 1 <= Limit
            /\ admitted'[Redis][k][w] = admitted[Redis][k][w] + 1
            /\ refused'[Redis][k][w] = refused[Redis][k][w]
  BY <1>1, <1>2, DecideCountsOne, Constants
<1>4. /\ redis' \in [Key -> [Window -> Nat]]
      /\ redis'[k][w] = redis[k][w] + 1
      /\ \A l \in Key, v \in Window : ~(l = k /\ v = w) => redis'[l][v] = redis[l][v]
  BY <1>1, <1>2, CountInTable DEF TypeOK
<1>5. TypeOK'
  BY <1>2, <1>3, <1>4 DEF TypeOK
<1>6. /\ admitted[Redis][k][w] \in Nat /\ refused[Redis][k][w] \in Nat
      /\ admitted[Redis][k][w] <= redis[k][w]
      /\ admitted[Redis][k][w] <= Limit
      /\ ~Faults => /\ admitted[Redis][k][w] = Capped(redis[k][w])
                    /\ refused[Redis][k][w] > 0 => admitted[Redis][k][w] = Limit
  BY <1>1, Typed, Constants DEF RedisCounts, WindowLimit, NoEarlyRefusal
<1>7. WindowLimit'
  <2>1. admitted'[Redis][k][w] <= Limit
    BY <1>1, <1>3, <1>6, Constants
  <2>2. ASSUME NEW t \in Source, NEW l \in Key, NEW v \in Window
        PROVE  admitted'[t][l][v] <= Limit
    <3>1. CASE t = Redis /\ l = k /\ v = w
      BY <2>1, <3>1
    <3>2. CASE ~(t = Redis /\ l = k /\ v = w)
      BY <1>3, <3>2 DEF WindowLimit
    <3>. QED  BY <3>1, <3>2
  <2>. QED  BY <2>2 DEF WindowLimit
<1>8. NoEarlyRefusal'
  <2>1. ~Faults /\ refused'[Redis][k][w] > 0 => admitted'[Redis][k][w] = Limit
    BY <1>1, <1>3, <1>6, CappedNext
  <2>2. ASSUME NEW s \in IF Faults THEN Instance ELSE Source, NEW l \in Key, NEW v \in Window
        PROVE  refused'[s][l][v] > 0 => admitted'[s][l][v] = Limit
    <3>1. s \in Source
      BY Constants
    <3>2. CASE s = Redis /\ l = k /\ v = w
      <4>1. ~Faults
        <5>1. Redis \notin Instance
          BY RateLimiterAssumption
        <5>. QED  BY <3>2, <5>1
      <4>. QED  BY <2>1, <3>2, <4>1
    <3>3. CASE ~(s = Redis /\ l = k /\ v = w)
      BY <1>3, <3>1, <3>3 DEF NoEarlyRefusal
    <3>. QED  BY <3>2, <3>3
  <2>. QED  BY <2>2 DEF NoEarlyRefusal
<1>9. RedisCounts'
  <2>1. /\ admitted'[Redis][k][w] <= redis'[k][w]
        /\ ~Faults => admitted'[Redis][k][w] = Capped(redis'[k][w])
    BY <1>1, <1>3, <1>4, <1>6, CappedNext
  <2>2. ASSUME NEW l \in Key, NEW v \in Window
        PROVE  /\ admitted'[Redis][l][v] <= redis'[l][v]
               /\ ~Faults => admitted'[Redis][l][v] = Capped(redis'[l][v])
    <3>1. CASE l = k /\ v = w
      BY <2>1, <3>1
    <3>2. CASE ~(l = k /\ v = w)
      <4>1. admitted'[Redis][l][v] = admitted[Redis][l][v] /\ redis'[l][v] = redis[l][v]
        BY <1>3, <1>4, <3>2, Constants
      <4>. QED  BY <4>1 DEF RedisCounts
    <3>. QED  BY <3>1, <3>2
  <2>. QED  BY <2>2 DEF RedisCounts, Capped
<1>10. LocalCounts'
  <2>1. \A i \in Instance, l \in Key, v \in Window : admitted'[i][l][v] = admitted[i][l][v]
    BY <1>3, Constants
  <2>2. now \in Window
    BY DEF TypeOK
  <2>. QED  BY <1>2, <2>1, <2>2 DEF LocalCounts, LocalCount, Capped
<1>. QED  BY <1>5, <1>7, <1>8, <1>9, <1>10

\* The reply is lost: Redis has counted a request it did not let through.
LEMMA IncrementUnreportedPreserves ==
  ASSUME IInv, NEW p \in Request, IncrementUnreported(p)
  PROVE  IInv'
<1>. USE DEF IInv
<1>. DEFINE k == req[p].key  w == req[p].window
<1>1. /\ k \in Key /\ w \in Window
      /\ req[p] \in Waiting
  BY DEF TypeOK, IncrementUnreported, Idle, Waiting
<1>2. [req[p] EXCEPT !.pc = "local"] \in Waiting
  BY <1>1 DEF Waiting
<1>3. /\ redis' = [redis EXCEPT ![k][w] = @ + 1]
      /\ Faults
      /\ UNCHANGED <<now, local, arrived, admitted, refused>>
      /\ req' = [req EXCEPT ![p] = [req[p] EXCEPT !.pc = "local"]]
  BY DEF IncrementUnreported, Incr, FallBack
<1>. HIDE DEF k, w
<1>4. /\ redis' \in [Key -> [Window -> Nat]]
      /\ redis'[k][w] = redis[k][w] + 1
      /\ \A l \in Key, v \in Window : ~(l = k /\ v = w) => redis'[l][v] = redis[l][v]
  BY <1>1, <1>3, CountInTable DEF TypeOK
<1>5. TypeOK'
  <2>1. req' \in [Request -> {Idle} \cup Waiting]
    BY <1>2, <1>3 DEF TypeOK
  <2>. QED  BY <1>3, <1>4, <2>1 DEF TypeOK
<1>6. WindowLimit' /\ NoEarlyRefusal' /\ LocalCounts'
  BY <1>3 DEF WindowLimit, NoEarlyRefusal, LocalCounts, LocalCount, Capped
<1>7. RedisCounts'
  <2>1. ASSUME NEW l \in Key, NEW v \in Window
        PROVE  admitted[Redis][l][v] <= redis'[l][v]
    <3>1. /\ admitted[Redis][l][v] \in Nat /\ redis[l][v] \in Nat
          /\ admitted[Redis][l][v] <= redis[l][v]
      BY Typed, Constants DEF RedisCounts
    <3>2. redis'[l][v] = redis[l][v] \/ redis'[l][v] = redis[l][v] + 1
      BY <1>4
    <3>. QED  BY <3>1, <3>2
  <2>. QED  BY <1>3, <2>1 DEF RedisCounts
<1>. QED  BY <1>5, <1>6, <1>7

LEMMA IncrementLocalPreserves ==
  ASSUME IInv, NEW p \in Request, IncrementLocal(p)
  PROVE  IInv'
<1>. USE DEF IInv
<1>. DEFINE i == req[p].at
            k == req[p].key
            bucket == NextBucket(cleanupLocal(i)[k])
<1>1. i \in Instance /\ k \in Key /\ i \in Source /\ i # Redis /\ now \in Window
  BY Constants DEF TypeOK, IncrementLocal, Idle, Waiting
<1>2. /\ local' = [local EXCEPT ![i] = [cleanupLocal(i) EXCEPT ![k] = bucket]]
      /\ Decide(i, k, now, bucket.count)
      /\ UNCHANGED <<now, redis, arrived>>
      /\ req' = [req EXCEPT ![p] = Idle]
  BY DEF IncrementLocal
<1>. HIDE DEF i, k
<1>3. /\ cleanupLocal(i) \in [Key -> Bucket]
      /\ \A l \in Key : \/ cleanupLocal(i)[l] = local[i][l]
                        \/ /\ local[i][l].window < now
                           /\ cleanupLocal(i)[l] = NoBucket
      /\ bucket \in Bucket
      /\ bucket.window = now
      /\ bucket.count = LocalCount(i, k) + 1
  BY <1>1, NextCountIsOneMore
<1>. HIDE DEF bucket
<1>4. LocalCount(i, k) \in Nat /\ bucket.count \in Nat
  BY <1>1, <1>3, Typed
<1>5. /\ admitted' \in [Source -> [Key -> [Window -> Nat]]]
      /\ refused'  \in [Source -> [Key -> [Window -> Nat]]]
      /\ \A t \in Source, l \in Key, v \in Window :
           ~(t = i /\ l = k /\ v = now) =>
             /\ admitted'[t][l][v] = admitted[t][l][v]
             /\ refused'[t][l][v] = refused[t][l][v]
      /\ \/ /\ bucket.count > Limit
            /\ admitted'[i][k][now] = admitted[i][k][now]
         \/ /\ bucket.count <= Limit
            /\ admitted'[i][k][now] = admitted[i][k][now] + 1
            /\ refused'[i][k][now] = refused[i][k][now]
  BY <1>1, <1>2, <1>4, DecideCountsOne
<1>6. TypeOK'
  <2>1. local' \in [Instance -> [Key -> Bucket]]
    <3>1. [cleanupLocal(i) EXCEPT ![k] = bucket] \in [Key -> Bucket]
      BY <1>1, <1>3
    <3>. QED  BY <1>1, <1>2, <3>1 DEF TypeOK
  <2>2. req' \in [Request -> {Idle} \cup Waiting]
    BY <1>2 DEF TypeOK
  <2>. QED  BY <1>2, <1>5, <2>1, <2>2 DEF TypeOK
<1>7. /\ admitted[i][k][now] = Capped(LocalCount(i, k))
      /\ admitted[i][k][now] \in Nat /\ refused[i][k][now] \in Nat
      /\ refused[i][k][now] > 0 => admitted[i][k][now] = Limit
  BY <1>1, Typed DEF LocalCounts, NoEarlyRefusal
<1>8. admitted'[i][k][now] = Capped(bucket.count)
  BY <1>3, <1>4, <1>5, <1>7, CappedNext
<1>9. WindowLimit'
  <2>1. admitted'[i][k][now] <= Limit
    BY <1>4, <1>8, CappedNext
  <2>2. ASSUME NEW t \in Source, NEW l \in Key, NEW v \in Window
        PROVE  admitted'[t][l][v] <= Limit
    <3>1. CASE t = i /\ l = k /\ v = now
      BY <2>1, <3>1
    <3>2. CASE ~(t = i /\ l = k /\ v = now)
      BY <1>5, <3>2 DEF WindowLimit
    <3>. QED  BY <3>1, <3>2
  <2>. QED  BY <2>2 DEF WindowLimit
<1>10. NoEarlyRefusal'
  <2>1. refused'[i][k][now] > 0 => admitted'[i][k][now] = Limit
    BY <1>3, <1>4, <1>5, <1>7, CappedNext
  <2>2. ASSUME NEW s \in IF Faults THEN Instance ELSE Source, NEW l \in Key, NEW v \in Window
        PROVE  refused'[s][l][v] > 0 => admitted'[s][l][v] = Limit
    <3>1. s \in Source
      BY Constants
    <3>2. CASE s = i /\ l = k /\ v = now
      BY <2>1, <3>2
    <3>3. CASE ~(s = i /\ l = k /\ v = now)
      BY <1>5, <3>1, <3>3 DEF NoEarlyRefusal
    <3>. QED  BY <3>2, <3>3
  <2>. QED  BY <2>2 DEF NoEarlyRefusal
<1>11. RedisCounts'
  <2>1. \A l \in Key, v \in Window : admitted'[Redis][l][v] = admitted[Redis][l][v]
    BY <1>1, <1>5, Constants
  <2>. QED  BY <1>2, <2>1 DEF RedisCounts, Capped
<1>12. LocalCounts'
  <2>1. ASSUME NEW j \in Instance, NEW l \in Key
        PROVE  /\ local'[j][l].window <= now
               /\ admitted'[j][l][now] = Capped(LocalCount(j, l)')
               /\ \A v \in Window : v > now => admitted'[j][l][v] = 0
    <3>1. \A v \in Window : v > now => admitted'[j][l][v] = 0
      <4>1. \A v \in Window : v > now => v # now
        BY Typed, Constants
      <4>2. \A v \in Window : v > now => admitted'[j][l][v] = admitted[j][l][v]
        BY <1>5, <4>1, Constants
      <4>. QED  BY <4>2 DEF LocalCounts
    <3>2. CASE j = i /\ l = k
      <4>1. local'[j][l] = bucket
        BY <1>1, <1>2, <1>3, <3>2 DEF TypeOK
      <4>2. LocalCount(j, l)' = bucket.count
        BY <1>2, <1>3, <4>1 DEF LocalCount
      <4>. QED  BY <1>3, <1>8, <3>1, <3>2, <4>1, <4>2, Typed DEF Capped
    <3>3. CASE ~(j = i /\ l = k)
      <4>1. admitted'[j][l][now] = admitted[j][l][now]
        BY <1>1, <1>5, <3>3, Constants
      <4>2. \/ local'[j][l] = local[j][l]
            \/ local[j][l].window < now /\ local'[j][l] = NoBucket
        <5>1. CASE j = i
          BY <1>1, <1>2, <1>3, <3>3, <5>1 DEF TypeOK
        <5>2. CASE j # i
          BY <1>1, <1>2, <5>2 DEF TypeOK
        <5>. QED  BY <5>1, <5>2
      <4>3. local[j][l].window <= now /\ local[j][l].window \in Nat
        BY Typed DEF LocalCounts
      <4>4. local'[j][l].window <= now /\ LocalCount(j, l)' = LocalCount(j, l)
        BY <1>2, <4>2, <4>3, Typed, Constants DEF LocalCount
      <4>. QED  BY <3>1, <4>1, <4>4 DEF LocalCounts, Capped
    <3>. QED  BY <3>2, <3>3
  <2>. QED  BY <1>2, <2>1 DEF LocalCounts, Capped
<1>. QED  BY <1>6, <1>9, <1>10, <1>11, <1>12

LEMMA RestartPreserves ==
  ASSUME IInv, NEW i \in Instance, Restart(i)
  PROVE  IInv'
<1>. USE DEF IInv
<1>1. /\ local'    = [local EXCEPT ![i] = [k \in Key |-> NoBucket]]
      /\ admitted' = [admitted EXCEPT ![i] = Zero]
      /\ refused'  = [refused EXCEPT ![i] = Zero]
      /\ UNCHANGED <<now, redis, arrived>>
  BY DEF Restart
<1>2. TypeOK'
  <2>1. local' \in [Instance -> [Key -> Bucket]]
    <3>1. [k \in Key |-> NoBucket] \in [Key -> Bucket]
      BY Constants
    <3>. QED  BY <1>1, <3>1 DEF TypeOK
  <2>2. /\ admitted' \in [Source -> [Key -> [Window -> Nat]]]
        /\ refused' \in [Source -> [Key -> [Window -> Nat]]]
    BY <1>1, Constants DEF TypeOK
  <2>3. req' \in [Request -> {Idle} \cup Waiting]
    BY DEF Restart, TypeOK
  <2>. QED  BY <1>1, <2>1, <2>2, <2>3 DEF TypeOK
<1>3. /\ \A s \in Source : s # i => admitted'[s] = admitted[s] /\ refused'[s] = refused[s]
      /\ \A k \in Key, w \in Window : admitted'[i][k][w] = 0 /\ refused'[i][k][w] = 0
      /\ \A j \in Instance : j # i => local'[j] = local[j]
      /\ \A k \in Key : local'[i][k] = NoBucket
  BY <1>1, Constants DEF TypeOK
<1>4. WindowLimit'
  BY <1>3, Constants DEF WindowLimit
<1>5. NoEarlyRefusal'
  BY <1>3, Constants DEF NoEarlyRefusal
<1>6. RedisCounts'
  <2>1. admitted'[Redis] = admitted[Redis]
    BY <1>3, Constants
  <2>. QED  BY <1>1, <2>1 DEF RedisCounts, Capped
<1>7. LocalCounts'
  <2>1. ASSUME NEW j \in Instance, NEW k \in Key
        PROVE  /\ local'[j][k].window <= now
               /\ admitted'[j][k][now] = Capped(LocalCount(j, k)')
               /\ \A w \in Window : w > now => admitted'[j][k][w] = 0
    <3>1. CASE j = i
      <4>1. LocalCount(j, k)' = 0 /\ now \in Window /\ now \in Nat
        BY <1>1, <1>3, <3>1, Typed, Constants DEF LocalCount, TypeOK
      <4>. QED  BY <1>3, <3>1, <4>1, Constants DEF Capped
    <3>2. CASE j # i
      BY <1>1, <1>3, <3>2, Constants DEF LocalCounts, LocalCount, Capped
    <3>. QED  BY <3>1, <3>2
  <2>. QED  BY <1>1, <2>1 DEF LocalCounts, Capped
<1>. QED  BY <1>2, <1>4, <1>5, <1>6, <1>7

\* The inductive invariant: what Redis and every process have let through is
\* what they have counted, cut off at the limit.
THEOREM Invariance == Spec => []IInv
<1>1. IInv /\ [Next]_vars => IInv'
  <2>. SUFFICES ASSUME IInv, [Next]_vars PROVE IInv'
    OBVIOUS
  <2>1. CASE Tick
    BY <2>1, TickPreserves
  <2>2. ASSUME NEW i \in Instance, Restart(i) PROVE IInv'
    BY <2>2, RestartPreserves
  <2>3. ASSUME NEW p \in Request, Arrive(p) PROVE IInv'
    <3>1. req' \in [Request -> {Idle} \cup Waiting] /\ arrived' \in 0..MaxArrivals
      BY <2>3, RateLimiterAssumption DEF IInv, TypeOK, Arrive, Waiting
    <3>. QED  BY <2>3, <3>1, QuietStepPreserves DEF Arrive
  <2>4. ASSUME NEW p \in Request, Increment(p) PROVE IInv'
    BY <2>4, IncrementPreserves
  <2>5. ASSUME NEW p \in Request, IncrementLocal(p) PROVE IInv'
    BY <2>5, IncrementLocalPreserves
  <2>6. ASSUME NEW p \in Request, IncrementUnreported(p) PROVE IInv'
    BY <2>6, IncrementUnreportedPreserves
  <2>7. ASSUME NEW p \in Request, IncrementFails(p) PROVE IInv'
    <3>1. req[p] \in Waiting
      BY <2>7 DEF IInv, TypeOK, IncrementFails, Idle
    <3>2. [req[p] EXCEPT !.pc = "local"] \in Waiting
      BY <3>1 DEF Waiting
    <3>3. req' = [req EXCEPT ![p] = [req[p] EXCEPT !.pc = "local"]]
      BY <2>7 DEF IncrementFails, FallBack
    <3>4. req' \in [Request -> {Idle} \cup Waiting] /\ arrived' \in 0..MaxArrivals
      BY <2>7, <3>2, <3>3 DEF IInv, TypeOK, IncrementFails
    <3>. QED  BY <2>7, <3>4, QuietStepPreserves DEF IncrementFails
  <2>8. CASE UNCHANGED vars
    BY <2>8, QuietStepPreserves DEF vars, IInv, TypeOK
  <2>. QED  BY <2>1, <2>2, <2>3, <2>4, <2>5, <2>6, <2>7, <2>8 DEF Next
<1>. QED  BY <1>1, InitEstablishes, PTL DEF Spec

\* No source of counts lets more than Limit requests of a key through in a
\* minute, whatever the clock does between naming a counter and counting.
THEOREM LimitIsKept == Spec => []WindowLimit
BY Invariance, PTL DEF IInv

\* Nobody is refused for requests of another minute or another key.
THEOREM RefusalsAreDue == Spec => []NoEarlyRefusal
BY Invariance, PTL DEF IInv

-----------------------------------------------------------------------------
(* The maps. *)

\* Counting a key adds at most that key, and a map that is full keeps buckets
\* of the current minute only (incrementLocal, cleanupLocal).
LEMMA CountedMap ==
  ASSUME IInv, TrackedIsFinite, NEW p \in Request, IncrementLocal(p),
         NEW i \in Instance, i = req[p].at
  PROVE  /\ \A j \in Instance : j # i => local'[j] = local[j]
         /\ IsFiniteSet(Tracked(i)')
         /\ \/ Cardinality(Tracked(i)') <= LocalCap
            \/ \A l \in Tracked(i)' : local'[i][l].window = now
<1>0. req[p].key \in Key
  BY DEF IInv, TypeOK, IncrementLocal, Idle, Waiting
<1> PICK k \in Key : k = req[p].key
  BY <1>0
<1> DEFINE bucket == NextBucket(cleanupLocal(i)[k])
<1>1. local' = [local EXCEPT ![i] = [cleanupLocal(i) EXCEPT ![k] = bucket]]
  BY DEF IncrementLocal
<1>2. /\ cleanupLocal(i) \in [Key -> Bucket] /\ bucket.window = now
      /\ \A l \in Key : cleanupLocal(i)[l] = local[i][l] \/ cleanupLocal(i)[l] = NoBucket
  BY NextCountIsOneMore DEF IInv
<1> HIDE DEF bucket
<1>3. /\ \A j \in Instance : j # i => local'[j] = local[j]
      /\ local'[i][k] = bucket
      /\ \A l \in Key : l # k => local'[i][l] = cleanupLocal(i)[l]
  BY <1>1, <1>2 DEF IInv, TypeOK
<1>4. Tracked(i)' = {l \in Key : local'[i][l] # NoBucket}
  BY DEF Tracked
<1>5. IsFiniteSet(Tracked(i)) /\ Cardinality(Tracked(i)) \in Nat
  BY FS_CardinalityType DEF TrackedIsFinite
<1>6. Tracked(i)' \subseteq Tracked(i) \cup {k}
  BY <1>2, <1>3, <1>4 DEF Tracked
<1>7. /\ IsFiniteSet(Tracked(i) \cup {k})
      /\ Cardinality(Tracked(i) \cup {k}) <= Cardinality(Tracked(i)) + 1
  <2>1. /\ IsFiniteSet(Tracked(i) \cup {k})
        /\ \/ Cardinality(Tracked(i) \cup {k}) = Cardinality(Tracked(i))
           \/ Cardinality(Tracked(i) \cup {k}) = Cardinality(Tracked(i)) + 1
    BY <1>5, FS_AddElement, Zenon
  <2> QED
    BY <1>5, <2>1
<1>8. /\ IsFiniteSet(Tracked(i)') /\ Cardinality(Tracked(i)') \in Nat
      /\ Cardinality(Tracked(i)') <= Cardinality(Tracked(i)) + 1
  <2>1. /\ IsFiniteSet(Tracked(i)')
        /\ Cardinality(Tracked(i)') <= Cardinality(Tracked(i) \cup {k})
    BY <1>6, <1>7, FS_Subset
  <2>2. Cardinality(Tracked(i)') \in Nat /\ Cardinality(Tracked(i) \cup {k}) \in Nat
    BY <1>7, <2>1, FS_CardinalityType
  <2> QED
    BY <1>5, <1>7, <2>1, <2>2
<1>9. CASE Cardinality(Tracked(i)) < LocalCap
  <2>1. Cardinality(Tracked(i)') <= LocalCap
    BY <1>5, <1>8, <1>9, RateLimiterAssumption
  <2> QED
    BY <1>3, <1>8, <2>1
<1>10. CASE ~(Cardinality(Tracked(i)) < LocalCap)
  <2>1. cleanupLocal(i) = [l \in Key |-> IF local[i][l].window < now THEN NoBucket
                                         ELSE local[i][l]]
    BY <1>10 DEF cleanupLocal
  <2>2. ASSUME NEW l \in Key, local'[i][l] # NoBucket
        PROVE  local'[i][l].window = now
    <3>1. CASE l = k
      BY <1>2, <1>3, <3>1
    <3>2. CASE l # k
      <4>1. local'[i][l] = IF local[i][l].window < now THEN NoBucket ELSE local[i][l]
        BY <1>3, <2>1, <3>2
      <4>2. local'[i][l] = local[i][l] /\ ~(local[i][l].window < now)
        BY <2>2, <4>1
      <4>3. local[i][l].window <= now /\ local[i][l].window \in Nat /\ now \in Nat
        BY Typed DEF IInv, LocalCounts
      <4> QED
        BY <4>2, <4>3
    <3> QED
      BY <3>1, <3>2
  <2> QED
    BY <1>3, <1>4, <1>8, <2>2
<1> QED
  BY <1>9, <1>10

LEMMA MapInvStep ==
  ASSUME IInv, MapInv, [Next]_vars
  PROVE  MapInv'
<1>1. CASE local' = local
  BY <1>1 DEF MapInv, TrackedIsFinite, TrackedIsBounded, Tracked
<1>2. ASSUME NEW p \in Request, IncrementLocal(p)
      PROVE  MapInv'
  <2>0. req[p].at \in Instance
    BY <1>2 DEF IInv, TypeOK, IncrementLocal, Idle, Waiting
  <2> PICK i \in Instance : i = req[p].at
    BY <2>0
  <2>1. /\ \A j \in Instance : j # i => local'[j] = local[j]
        /\ IsFiniteSet(Tracked(i)')
        /\ \/ Cardinality(Tracked(i)') <= LocalCap
           \/ \A l \in Tracked(i)' : local'[i][l].window = now
    BY <1>2, CountedMap DEF MapInv
  <2>2. \A j \in Instance : j # i => Tracked(j)' = Tracked(j)
    BY <2>1 DEF Tracked
  <2>3. TrackedIsFinite'
    BY <2>1, <2>2 DEF MapInv, TrackedIsFinite
  <2>4. TrackedIsBounded'
    <3>1. SUFFICES ASSUME NEW j \in Instance, Cardinality(Tracked(j)') > LocalCap,
                          NEW k \in Tracked(j)', NEW l \in Tracked(j)'
                   PROVE  local'[j][k].window = local'[j][l].window
      BY DEF TrackedIsBounded
    <3>2. CASE j = i
      <4>1. Cardinality(Tracked(i)') \in Nat
        BY <2>1, FS_CardinalityType
      <4>2. ~(Cardinality(Tracked(i)') <= LocalCap)
        BY <3>1, <3>2, <4>1, RateLimiterAssumption
      <4> QED
        BY <2>1, <3>2, <4>2
    <3>3. CASE j # i
      BY <2>1, <2>2, <3>1, <3>3 DEF MapInv, TrackedIsBounded
    <3> QED
      BY <3>2, <3>3
  <2> QED
    BY <2>3, <2>4 DEF MapInv
<1>3. ASSUME NEW i \in Instance, Restart(i)
      PROVE  MapInv'
  <2>1. /\ \A j \in Instance : j # i => local'[j] = local[j]
        /\ local'[i] = [k \in Key |-> NoBucket]
    BY <1>3 DEF Restart, IInv, TypeOK
  <2>2. Tracked(i)' = {}
    BY <2>1 DEF Tracked
  <2>3. \A j \in Instance : j # i => Tracked(j)' = Tracked(j)
    BY <2>1 DEF Tracked
  <2>4. TrackedIsFinite'
    BY <2>2, <2>3, FS_EmptySet DEF MapInv, TrackedIsFinite
  <2>5. TrackedIsBounded'
    BY <2>1, <2>2, <2>3 DEF MapInv, TrackedIsBounded
  <2> QED
    BY <2>4, <2>5 DEF MapInv
<1> QED
  BY <1>1, <1>2, <1>3
  DEF Next, vars, Tick, Arrive, Increment, IncrementUnreported, IncrementFails

\* A map grows beyond its cap only with keys of one and the same minute: what
\* is left of earlier minutes never piles up.
THEOREM MapsAreBounded == Spec => []TrackedIsBounded
<1>1. Init => MapInv
  <2> SUFFICES ASSUME Init PROVE MapInv
    OBVIOUS
  <2>1. \A i \in Instance : Tracked(i) = {}
    BY DEF Init, Tracked
  <2> QED
    BY <2>1, FS_EmptySet DEF MapInv, TrackedIsFinite, TrackedIsBounded
<1>2. IInv /\ MapInv /\ [Next]_vars => MapInv'
  BY MapInvStep
<1>3. MapInv => TrackedIsBounded
  BY DEF MapInv
<1> QED
  BY <1>1, <1>2, <1>3, Invariance, PTL DEF Spec
=============================================================================
