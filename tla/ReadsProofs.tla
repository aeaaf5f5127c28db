----------------------------- MODULE ReadsProofs -----------------------------
(***************************************************************************)
(* Reading page by page misses no row that was there all the time, for     *)
(* every number of rows, size of page and order of events.  A page stands  *)
(* for a stretch of an order; the rows above one that is not touched only  *)
(* become more; so a row that was below the pages already read is still    *)
(* below them, and when a page is not full there is nothing below it.      *)
(*                                                                         *)
(* The parts of an audit summary add up as far as they can: entries only   *)
(* become more, and each is counted under one action.                      *)
(***************************************************************************)
EXTENDS Reads, FiniteSetTheorems, FunctionTheorems, TLAPS

-----------------------------------------------------------------------------
(* Sizes. *)

LEMMA Sizes ==
  ASSUME client \in ListReader
  PROVE  Limit \in Nat \ {0} /\ Named = Limit
<1>1. bindPage(client.asked) \in 1..MaxSize
  BY ReadsAssumption DEF bindPage
<1>2. \A size \in 1..MaxSize : normalizePage(size) = size
  BY ReadsAssumption DEF normalizePage
<1>3. Limit = bindPage(client.asked) /\ MaxSize \in Nat
  BY <1>1, <1>2, ReadsAssumption DEF Limit
<1> QED
  BY <1>1, <1>3 DEF Named

\* The rows above page k, those above the next, and the page between.
LEMMA Multiples ==
  ASSUME NEW k \in Nat \ {0}, NEW limit \in Nat \ {0}
  PROVE  /\ (k - 1) * limit \in Nat /\ (k - 1) * limit >= k - 1
         /\ k * limit = (k - 1) * limit + limit
<1>1. PICK j \in Nat : k = j + 1
  <2>1. k - 1 \in Nat /\ k = (k - 1) + 1
    OBVIOUS
  <2> QED
    BY <2>1
<1>2. k - 1 = j
  BY <1>1
<1>3. j * limit \in Nat /\ j * limit >= j
  OBVIOUS
<1>4. (j + 1) * limit = j * limit + limit
  OBVIOUS
<1> QED
  BY <1>1, <1>2, <1>3, <1>4

-----------------------------------------------------------------------------
(* Orders and pages. *)

\* A set has the size of the places its elements are found at.
LEMMA AsManyAsPlaces ==
  ASSUME NEW I, IsFiniteSet(I), NEW T, NEW o,
         \A i \in I : o[i] \in T,
         \A i, j \in I : o[i] = o[j] => i = j,
         \A t \in T : \E i \in I : o[i] = t
  PROVE  IsFiniteSet(T) /\ Cardinality(T) = Cardinality(I)
<1> DEFINE f == [i \in I |-> o[i]]
<1>1. f \in [I -> T] /\ \A t \in T : \E i \in I : f[i] = t
  OBVIOUS
<1>2. \A i, j \in I : f[i] = f[j] => i = j
  OBVIOUS
<1>3. f \in Bijection(I, T)
  BY <1>1, <1>2 DEF Bijection, Injection, Surjection, IsInjective
<1> QED
  BY <1>3, FS_Bijection DEF ExistsBijection

\* The places after a up to b.
LEMMA PlacesBetween ==
  ASSUME NEW a \in Nat, NEW b \in Nat, a <= b
  PROVE  IsFiniteSet((a + 1)..b) /\ Cardinality((a + 1)..b) = b - a
<1>1. a + 1 \in Int /\ b \in Int
  OBVIOUS
<1>2. /\ IsFiniteSet((a + 1)..b)
      /\ Cardinality((a + 1)..b) = IF a + 1 > b THEN 0 ELSE b - (a + 1) + 1
  BY <1>1, FS_Interval
<1> QED
  BY <1>2

LEMMA OrderIsComplete ==
  ASSUME TypeOK, NEW o \in Orders, NEW n, n = Cardinality(Present)
  PROVE  /\ n \in Nat /\ n <= Cardinality(Id) /\ Cardinality(Id) \in Nat
         /\ o \in [1..n -> Present]
         /\ \A i, j \in 1..n : i # j => o[i] # o[j]
         /\ \A r \in Present : \E i \in 1..n : o[i] = r
         /\ \A i, j \in 1..n : Before(o[i], o[j]) => i < j
<1>1. IsFiniteSet(Present) /\ n <= Cardinality(Id) /\ n \in Nat /\ Cardinality(Id) \in Nat
  BY ReadsAssumption, FS_Subset, FS_CardinalityType DEF Present
<1>2. o \in [1..n -> Present] /\ \A i, j \in 1..n : i # j => o[i] # o[j]
  BY DEF Orders, SetToSeqs
<1>3. \A i, j \in 1..n : Before(o[i], o[j]) => i < j
  BY <1>2 DEF Orders
<1>4. o \in Injection(1..n, Present)
  BY <1>2 DEF Injection, IsInjective
<1>5. Cardinality(1..n) = n
  BY <1>1, FS_Interval
<1>6. o \in Surjection(1..n, Present)
  BY <1>1, <1>4, <1>5, FS_Injection
<1> QED
  BY <1>1, <1>2, <1>3, <1>6 DEF Surjection

\* A row that no other ties with has the same place in every order.
LEMMA PlaceInOrder ==
  ASSUME TypeOK, NEW o \in Orders, NEW n, n = Cardinality(Present),
         NEW r \in Present, Placed(r)
  PROVE  \E p \in 1..n : o[p] = r /\ Cardinality(Above(r)) = p - 1
<1>1. /\ n \in Nat /\ o \in [1..n -> Present]
      /\ \A i, j \in 1..n : i # j => o[i] # o[j]
      /\ \A s \in Present : \E i \in 1..n : o[i] = s
      /\ \A i, j \in 1..n : Before(o[i], o[j]) => i < j
  BY OrderIsComplete
<1>2. PICK p \in 1..n : o[p] = r
  BY <1>1
<1>3. \A s \in Present \ {r} : Before(s, r) \/ Before(r, s)
  <2> TAKE s \in Present \ {r}
  <2>1. stamp[s] \in Nat /\ stamp[r] \in Nat /\ s \in Nat /\ r \in Nat /\ s # r
    BY ReadsAssumption DEF TypeOK, Present
  <2> QED
    BY <2>1 DEF Placed, Before
<1>4. ~Before(r, r)
  <2>1. stamp[r] \in Nat /\ r \in Nat
    BY ReadsAssumption DEF TypeOK, Present
  <2> QED
    BY <2>1 DEF Before
<1>5. \A s : s \in Above(r) <=> \E i \in 1..(p - 1) : o[i] = s
  <2>1. ASSUME NEW s \in Above(r)
        PROVE  \E i \in 1..(p - 1) : o[i] = s
    <3>1. s \in Present /\ Before(s, r)
      BY DEF Above
    <3>2. PICK i \in 1..n : o[i] = s
      BY <1>1, <3>1
    <3>3. i < p
      BY <1>1, <1>2, <3>1, <3>2
    <3>4. i \in 1..(p - 1)
      BY <1>1, <3>3
    <3> QED
      BY <3>2, <3>4
  <2>2. ASSUME NEW i \in 1..(p - 1)
        PROVE  o[i] \in Above(r)
    <3>1. i \in 1..n /\ i # p /\ ~(p < i)
      BY <1>1
    <3>2. o[i] \in Present \ {r}
      BY <1>1, <1>2, <3>1
    <3>3. ~Before(r, o[i])
      BY <1>1, <1>2, <3>1
    <3> QED
      BY <1>3, <3>2, <3>3 DEF Above
  <2> QED
    BY <2>1, <2>2
<1>6. Cardinality(Above(r)) = p - 1
  <2>1. PICK b \in Nat : b = p - 1
    BY <1>1
  <2>2. PICK I : I = 1..b
    OBVIOUS
  <2>3. IsFiniteSet(I) /\ Cardinality(I) = b
    BY <2>2, FS_Interval
  <2>4. \A i \in I : o[i] \in Above(r)
    BY <1>5, <2>1, <2>2
  <2>5. \A s \in Above(r) : \E i \in I : o[i] = s
    BY <1>5, <2>1, <2>2
  <2>6. \A i \in I : i \in 1..n
    BY <1>1, <2>1, <2>2
  <2>7. \A i, j \in I : o[i] = o[j] => i = j
    BY <1>1, <2>6, Zenon
  <2>8. Cardinality(Above(r)) = Cardinality(I)
    BY <2>3, <2>4, <2>5, <2>7, AsManyAsPlaces, Zenon
  <2> QED
    BY <2>1, <2>3, <2>8
<1> QED
  BY <1>1, <1>2, <1>6

\* A page holds what the order has at its places: it is full unless the order
\* ends in it, and empty unless the order reaches it.
LEMMA PageHolds ==
  ASSUME TypeOK, client \in ListReader, NEW o \in Orders, NEW n, n = Cardinality(Present),
         NEW k, k = client.page, NEW limit, limit = Limit
  PROVE  /\ n \in Nat /\ PageOf(o) \subseteq Id
         /\ \A p \in 1..n : p > (k - 1) * limit /\ p <= k * limit => o[p] \in PageOf(o)
         /\ k * limit <= n => Cardinality(PageOf(o)) = limit
         /\ Cardinality(PageOf(o)) >= limit => k <= Cardinality(Id)
<1>1. /\ n \in Nat /\ n <= Cardinality(Id) /\ Cardinality(Id) \in Nat /\ o \in [1..n -> Present]
      /\ \A i, j \in 1..n : i # j => o[i] # o[j]
  BY OrderIsComplete
<1>2. k \in Nat \ {0} /\ limit \in Nat \ {0}
  BY <1>1, Sizes DEF ListReader
<1>3. PICK a \in Nat, b \in Nat : a = (k - 1) * limit /\ b = k * limit /\ b = a + limit /\ a >= k - 1
  BY <1>2, Multiples
<1>4. PageOf(o) = {o[i] : i \in (1..n) \cap ((a + 1)..b)}
  <2>1. DOMAIN o = 1..n
    BY <1>1
  <2> QED
    BY <1>3, <2>1 DEF PageOf
<1>5. PageOf(o) \subseteq Id
  BY <1>1, <1>4 DEF Present
<1>6. \A p \in 1..n : p > a /\ p <= b => o[p] \in PageOf(o)
  BY <1>4
<1>7. b <= n => Cardinality(PageOf(o)) = limit
  <2> SUFFICES ASSUME b <= n PROVE Cardinality(PageOf(o)) = limit
    OBVIOUS
  <2>1. (1..n) \cap ((a + 1)..b) = (a + 1)..b
    BY <1>1
  <2>2. a <= b /\ b - a = limit
    BY <1>2, <1>3
  <2>3. PICK I : I = (a + 1)..b
    OBVIOUS
  <2>4. IsFiniteSet(I) /\ Cardinality(I) = limit
    BY <2>2, <2>3, PlacesBetween
  <2>5. /\ \A i \in I : o[i] \in PageOf(o)
        /\ \A t \in PageOf(o) : \E i \in I : o[i] = t
    BY <1>4, <2>1, <2>3
  <2>6. \A i \in I : i \in 1..n
    BY <1>1, <2>1, <2>3
  <2>7. \A i, j \in I : o[i] = o[j] => i = j
    BY <1>1, <2>6, Zenon
  <2>8. Cardinality(PageOf(o)) = Cardinality(I)
    BY <2>4, <2>5, <2>7, AsManyAsPlaces, Zenon
  <2> QED
    BY <2>4, <2>8
<1>8. Cardinality(PageOf(o)) >= limit => k <= Cardinality(Id)
  <2> SUFFICES ASSUME ~(k <= Cardinality(Id)) PROVE ~(Cardinality(PageOf(o)) >= limit)
    OBVIOUS
  <2>1. n <= a
    BY <1>1, <1>2, <1>3
  <2>2. (1..n) \cap ((a + 1)..b) = {}
    BY <1>1, <2>1
  <2>3. PageOf(o) = {}
    BY <1>4, <2>2
  <2> QED
    BY <1>2, <2>3, FS_EmptySet
<1> QED
  BY <1>1, <1>3, <1>5, <1>6, <1>7, <1>8
-----------------------------------------------------------------------------
(* Sums. *)

\* What is counted under one action each adds up to what there is.
LEMMA SumOfCounts ==
  ASSUME NEW S, S \subseteq Id, IsFiniteSet(S), NEW f,
         f = [a \in Action |-> Cardinality({r \in S : ActionOf[r] = a})]
  PROVE  Sum(f) = Cardinality(S)
<1> DEFINE H(a) == {r \in S : ActionOf[r] = a}
           T    == UNION {{a} \X (1..f[a]) : a \in Action}
<1>1. \A a \in Action : \E g : g \in Bijection(H(a), 1..f[a])
  <2> SUFFICES ASSUME NEW a \in Action PROVE \E g : g \in Bijection(H(a), 1..f[a])
    OBVIOUS
  <2>1. IsFiniteSet(H(a))
    BY FS_Subset
  <2>2. f[a] = Cardinality(H(a))
    OBVIOUS
  <2>3. ExistsBijection(1..f[a], H(a))
    BY <2>1, <2>2, FS_CardinalityType
  <2> QED
    BY <2>3, Fun_ExistsBijSymmetric DEF ExistsBijection
<1>2. PICK h : h = [a \in Action |-> CHOOSE g : g \in Bijection(H(a), 1..f[a])]
  OBVIOUS
<1>3. ASSUME NEW a \in Action
      PROVE  /\ \A r \in H(a) : h[a][r] \in 1..f[a]
             /\ \A r, s \in H(a) : h[a][r] = h[a][s] => r = s
             /\ \A n \in 1..f[a] : \E r \in H(a) : h[a][r] = n
  <2>1. h[a] \in Bijection(H(a), 1..f[a])
    BY <1>1, <1>2
  <2>2. PICK g, X, Y : g = h[a] /\ X = H(a) /\ Y = 1..f[a]
    OBVIOUS
  <2>3. g \in Bijection(X, Y)
    BY <2>1, <2>2
  <2>4. /\ \A r \in X : g[r] \in Y
        /\ \A r, s \in X : g[r] = g[s] => r = s
        /\ \A n \in Y : \E r \in X : g[r] = n
    BY <2>3 DEF Bijection, Injection, Surjection, IsInjective
  <2> QED
    BY <2>2, <2>4, Zenon
<1>4. \A r \in S : ActionOf[r] \in Action /\ r \in H(ActionOf[r])
  BY DEF Action
<1>5. \A t : t \in T <=> \E a \in Action : \E n \in 1..f[a] : t = <<a, n>>
  <2>1. \A t : t \in T <=> \E a \in Action : t \in {a} \X (1..f[a])
    BY Zenon
  <2>2. ASSUME NEW t, t \in T PROVE \E a \in Action : \E n \in 1..f[a] : t = <<a, n>>
    <3>1. PICK a \in Action : t \in {a} \X (1..f[a])
      BY <2>1, <2>2, Zenon
    <3>2. PICK n \in 1..f[a] : t = <<a, n>>
      <4> DEFINE N == 1..f[a]
      <4>1. t \in {a} \X N
        BY <3>1
      <4> HIDE DEF N
      <4>2. \E n \in N : t = <<a, n>>
        BY <4>1
      <4> QED
        BY <4>2 DEF N
    <3> QED
      BY <3>2
  <2>3. ASSUME NEW a \in Action, NEW n \in 1..f[a] PROVE <<a, n>> \in T
    BY <2>3
  <2> HIDE DEF T
  <2> QED
    BY <2>2, <2>3, Zenon
<1>6. PICK c : c = [r \in S |-> <<ActionOf[r], h[ActionOf[r]][r]>>]
  OBVIOUS
<1>7. \A r \in S : c[r] = <<ActionOf[r], h[ActionOf[r]][r]>>
  BY <1>6
<1>8. \A r \in S : c[r] \in T
  <2> SUFFICES ASSUME NEW r \in S PROVE c[r] \in T
    OBVIOUS
  <2>1. h[ActionOf[r]][r] \in 1..f[ActionOf[r]]
    BY <1>3, <1>4
  <2> QED
    BY <1>4, <1>5, <1>7, <2>1
<1>9. \A r, s \in S : c[r] = c[s] => r = s
  <2> SUFFICES ASSUME NEW r \in S, NEW s \in S, c[r] = c[s] PROVE r = s
    OBVIOUS
  <2>1. PICK a \in Action : a = ActionOf[r]
    BY <1>4
  <2>2. ActionOf[s] = a /\ h[a][r] = h[a][s]
    BY <1>7, <2>1
  <2>3. r \in H(a) /\ s \in H(a)
    BY <2>1, <2>2
  <2> QED
    BY <1>3, <2>2, <2>3
<1>10. \A t \in T : \E r \in S : c[r] = t
  <2> SUFFICES ASSUME NEW t \in T PROVE \E r \in S : c[r] = t
    OBVIOUS
  <2>1. PICK a \in Action : \E n \in 1..f[a] : t = <<a, n>>
    BY <1>5
  <2>2. PICK n \in 1..f[a] : t = <<a, n>>
    BY <2>1
  <2>3. PICK r \in H(a) : h[a][r] = n
    BY <1>3
  <2> QED
    BY <1>7, <2>2, <2>3
<1> HIDE DEF T, H
<1>11. ExistsBijection(S, T)
  <2>1. c \in [S -> T]
    BY <1>6, <1>8
  <2>2. c \in Bijection(S, T)
    BY <1>9, <1>10, <2>1 DEF Bijection, Injection, Surjection, IsInjective
  <2> QED
    BY <2>2 DEF ExistsBijection
<1>12. Cardinality(T) = Cardinality(S)
  BY <1>11, FS_Bijection
<1>13. DOMAIN f = Action
  OBVIOUS
<1> QED
  BY <1>12, <1>13 DEF Sum, T

LEMMA SumOfNothing == Sum([a \in Action |-> 0]) = 0
<1>1. UNION {{a} \X (1..[x \in Action |-> 0][a]) : a \in DOMAIN [x \in Action |-> 0]} = {}
  OBVIOUS
<1> QED
  BY <1>1, FS_EmptySet DEF Sum

\* There are no more actors than entries.
LEMMA NoMoreActors ==
  ASSUME NEW S, IsFiniteSet(S)
  PROVE  /\ Cardinality({ActorOf[r] : r \in S}) \in Nat
         /\ Cardinality({ActorOf[r] : r \in S}) <= Cardinality(S)
<1> DEFINE T == {ActorOf[r] : r \in S}
           g == [r \in S |-> ActorOf[r]]
<1>1. g \in Surjection(S, T)
  BY DEF Surjection
<1>2. IsFiniteSet(T) /\ Cardinality(T) <= Cardinality(S)
  BY <1>1, FS_Surjection
<1> QED
  BY <1>2, FS_CardinalityType

\* A sum is a number, as its parts are finitely many.
LEMMA SumIsNat ==
  ASSUME NEW f \in [Action -> Nat]
  PROVE  Sum(f) \in Nat
<1>1. IsFiniteSet(Action)
  <2> DEFINE g == [r \in Id |-> ActionOf[r]]
             A == {ActionOf[r] : r \in Id}
  <2>1. g \in Surjection(Id, A)
    BY DEF Surjection
  <2>2. IsFiniteSet(A)
    BY <2>1, ReadsAssumption, FS_Surjection
  <2>3. Action = A \cup {"transition"}
    BY DEF Action
  <2> QED
    BY <2>2, <2>3, FS_AddElement
<1>2. PICK F : F = [a \in Action |-> {a} \X (1..f[a])]
  OBVIOUS
<1>3. PICK C : C = {F[a] : a \in Action}
  OBVIOUS
<1>4. IsFiniteSet(C)
  <2>1. F \in Surjection(Action, C)
    BY <1>2, <1>3 DEF Surjection
  <2> QED
    BY <1>1, <2>1, FS_Surjection
<1>5. \A T \in C : IsFiniteSet(T)
  <2> SUFFICES ASSUME NEW a \in Action PROVE IsFiniteSet({a} \X (1..f[a]))
    BY <1>2, <1>3
  <2>1. 1 \in Int /\ f[a] \in Int
    OBVIOUS
  <2>2. IsFiniteSet(1..f[a])
    BY <2>1, FS_Interval
  <2>3. IsFiniteSet({a})
    BY FS_Singleton
  <2> QED
    BY <2>2, <2>3, FS_Product
<1>6. IsFiniteSet(UNION C)
  BY <1>4, <1>5, FS_UNION
<1>7. Sum(f) = Cardinality(UNION C)
  <2>1. C = {{a} \X (1..f[a]) : a \in DOMAIN f}
    BY <1>2, <1>3
  <2> QED
    BY <2>1 DEF Sum
<1> QED
  BY <1>6, <1>7, FS_CardinalityType

\* What can be counted.
LEMMA WindowIsFinite ==
  /\ InWindow \subseteq Id /\ IsFiniteSet(InWindow) /\ Cardinality(InWindow) \in Nat
  /\ \A a : /\ Having(a) \subseteq InWindow /\ IsFiniteSet(Having(a))
            /\ Cardinality(Having(a)) \in Nat /\ Cardinality(Having(a)) <= Cardinality(InWindow)
<1>1. InWindow \subseteq Id /\ IsFiniteSet(InWindow) /\ Cardinality(InWindow) \in Nat
  BY ReadsAssumption, FS_Subset, FS_CardinalityType DEF InWindow, Present
<1>2. ASSUME NEW a
      PROVE  /\ Having(a) \subseteq InWindow /\ IsFiniteSet(Having(a))
             /\ Cardinality(Having(a)) \in Nat /\ Cardinality(Having(a)) <= Cardinality(InWindow)
  <2>1. Having(a) \subseteq InWindow
    BY DEF Having
  <2> QED
    BY <1>1, <2>1, FS_Subset, FS_CardinalityType
<1> QED
  BY <1>1, <1>2

-----------------------------------------------------------------------------
(* The invariant. *)

LEMMA IInvInit == Init => IInv
<1> SUFFICES ASSUME Init PROVE IInv
  OBVIOUS
<1>1. CASE client.reads = "summary"
  <2>1. client \in SummaryReader
    <3>1. \A h \in AskedWindow : now - Window(h) \in Int
      BY ReadsAssumption DEF Init, Window
    <3> QED
      BY <1>1, <3>1 DEF Init, SummaryReader
  <2>2. TypeOK
    BY <1>1, <2>1, ReadsAssumption DEF Init, TypeOK
  <2>3. /\ client.pc = "total" /\ client.total = 0 /\ client.transitions = 0
        /\ client.actors = 0 /\ client.actions = [a \in Action |-> 0]
    BY <1>1 DEF Init
  <2>4. SummaryIsBehind
    BY <2>3, SumOfNothing, WindowIsFinite DEF SummaryIsBehind
  <2> QED
    BY <1>1, <2>2, <2>4 DEF IInv, UnseenIsAhead
<1>2. CASE client.reads # "summary"
  <2>1. client \in ListReader /\ client.pc = "find" /\ client.page = 1 /\ client.seen = {}
    <3>1. Cardinality(Id) \in Nat
      BY ReadsAssumption, FS_CardinalityType
    <3>2. 1 \in 1..(Cardinality(Id) + 1)
      BY <3>1
    <3> QED
      BY <1>2, <3>2 DEF Init, ListReader
  <2>2. TypeOK
    BY <2>1, ReadsAssumption DEF Init, TypeOK
  <2>3. ASSUME NEW r \in Present
        PROVE  Cardinality(Above(r)) >= (client.page - 1) * Limit
    <3>1. Limit \in Nat
      BY <2>1, Sizes
    <3>2. (client.page - 1) * Limit = 0
      BY <2>1, <3>1
    <3>3. Cardinality(Above(r)) \in Nat
      BY ReadsAssumption, FS_Subset, FS_CardinalityType DEF Above, Present
    <3> QED
      BY <3>2, <3>3
  <2> QED
    BY <1>2, <2>1, <2>2, <2>3 DEF IInv, UnseenIsAhead, SummaryIsBehind
<1> QED
  BY <1>1, <1>2

\* A reader of pages finds the row it looks for, or goes on to the next page.
LEMMA FindKeeps == IInv /\ Find => IInv'
<1> SUFFICES ASSUME IInv, Find PROVE IInv'
  OBVIOUS
<1>1. PICK o \in Orders :
        client' = IF Cardinality(PageOf(o)) < Named
                  THEN [client EXCEPT !.pc = "done", !.seen = client.seen \cup PageOf(o)]
                  ELSE [client EXCEPT !.seen = client.seen \cup PageOf(o), !.page = @ + 1]
  BY DEF Find
<1>2. client \in ListReader /\ client.pc = "find"
  BY DEF Find, IInv, TypeOK, SummaryReader
<1>3. TypeOK
  BY DEF IInv
<1>4. PICK n, k, limit, page :
        n = Cardinality(Present) /\ k = client.page /\ limit = Limit /\ page = PageOf(o)
  OBVIOUS
<1>5. /\ n \in Nat /\ page \subseteq Id
      /\ \A p \in 1..n : p > (k - 1) * limit /\ p <= k * limit => o[p] \in page
      /\ k * limit <= n => Cardinality(page) = limit
      /\ Cardinality(page) >= limit => k <= Cardinality(Id)
  BY <1>2, <1>3, <1>4, PageHolds
<1>6. /\ limit \in Nat \ {0} /\ Named = limit
      /\ k \in Nat \ {0} /\ k \in 1..(Cardinality(Id) + 1) /\ Cardinality(Id) \in Nat
  <2>1. Cardinality(Id) \in Nat
    BY ReadsAssumption, FS_CardinalityType
  <2> QED
    BY <1>2, <1>4, <2>1, Sizes DEF ListReader
<1>7. PICK l : l = client.seen \cup page
  OBVIOUS
<1>8. client' = IF Cardinality(page) < limit
                THEN [client EXCEPT !.pc = "done", !.seen = l]
                ELSE [client EXCEPT !.seen = l, !.page = k + 1]
  BY <1>1, <1>4, <1>6, <1>7
<1>9. IsFiniteSet(page) /\ Cardinality(page) \in Nat
  BY <1>5, ReadsAssumption, FS_Subset, FS_CardinalityType
<1>10. client.seen \subseteq Id /\ l \subseteq Id
  BY <1>2, <1>5, <1>7 DEF ListReader
<1>11. client' \in ListReader /\ client'.asked = client.asked /\ client'.reads = client.reads
       /\ client'.seen = l
  <2>1. CASE Cardinality(page) < limit
    BY <1>2, <1>8, <1>10, <2>1 DEF ListReader
  <2>2. CASE ~(Cardinality(page) < limit)
    <3>1. k + 1 \in 1..(Cardinality(Id) + 1)
      BY <1>5, <1>6, <1>9, <2>2
    <3> QED
      BY <1>2, <1>8, <1>10, <2>2, <3>1 DEF ListReader
  <2> QED
    BY <2>1, <2>2
<1>12. TypeOK'
  <2>1. client'.reads # "summary"
    BY <1>11 DEF ListReader
  <2> QED
    BY <1>3, <1>11, <2>1 DEF Find, TypeOK
<1>13. /\ Present' = Present /\ Limit' = Limit
       /\ \A r : Above(r)' = Above(r) /\ Placed(r)' = Placed(r)
  BY <1>11 DEF Find, Present, Limit, Above, Before, Placed
<1>14. ASSUME ~left, NEW r \in Present \ touched, Placed(r), r \notin l
       PROVE  client'.pc = "find" /\ Cardinality(Above(r)) >= (client'.page - 1) * limit
  <2>1. PICK p \in 1..n : o[p] = r /\ Cardinality(Above(r)) = p - 1
    BY <1>3, <1>4, <1>14, PlaceInOrder
  <2>2. PICK a \in Nat, b \in Nat : a = (k - 1) * limit /\ b = k * limit /\ b = a + limit
    BY <1>6, Multiples
  <2>3. Cardinality(Above(r)) >= a
    BY <1>2, <1>4, <1>7, <1>14, <2>2 DEF IInv, UnseenIsAhead, ListReader
  <2>4. p > a
    BY <1>5, <2>1, <2>2, <2>3
  <2>5. ~(p <= b)
    BY <1>5, <1>7, <1>14, <2>1, <2>2, <2>4
  <2>6. b <= n /\ p - 1 >= b
    BY <1>5, <2>2, <2>5
  <2>7. ~(Cardinality(page) < limit)
    BY <1>5, <1>6, <2>2, <2>6
  <2>8. client'.pc = "find" /\ client'.page = k + 1
    BY <1>2, <1>8, <2>7 DEF ListReader
  <2>9. (client'.page - 1) * limit = b
    <3>1. client'.page - 1 = k
      BY <1>6, <2>8
    <3> QED
      BY <2>2, <3>1
  <2> QED
    BY <2>1, <2>6, <2>8, <2>9
<1>15. UnseenIsAhead'
  BY <1>4, <1>11, <1>13, <1>14 DEF Find, UnseenIsAhead
<1>16. SummaryIsBehind'
  <2>1. client'.reads # "summary"
    BY <1>11 DEF ListReader
  <2> QED
    BY <2>1 DEF SummaryIsBehind
<1> QED
  BY <1>12, <1>15, <1>16 DEF IInv

\* A query counts what there is, and no entry twice.
LEMMA SummarizeKeeps == IInv /\ Summarize => IInv'
<1> SUFFICES ASSUME IInv, Summarize PROVE IInv'
  OBVIOUS
<1>1. client \in SummaryReader /\ client.reads = "summary"
  BY DEF Summarize, IInv, TypeOK, ListReader, SummaryReader
<1>2. PICK all, moved, actors, counts :
        /\ all = Cardinality(InWindow) /\ moved = Cardinality(Having("transition"))
        /\ actors = Cardinality({ActorOf[r] : r \in InWindow})
        /\ counts = [a \in Action |-> Cardinality(Having(a))]
  OBVIOUS
<1>3. all \in Nat /\ moved \in Nat /\ moved <= all
  BY <1>2, WindowIsFinite
<1>4. actors \in Nat /\ actors <= all
  BY <1>2, WindowIsFinite, NoMoreActors
<1>5. counts \in [Action -> Nat] /\ counts["transition"] = moved /\ Sum(counts) = all
  <2>1. \A a \in Action : Cardinality(Having(a)) \in Nat
    BY WindowIsFinite
  <2>2. "transition" \in Action
    BY DEF Action
  <2>3. counts = [a \in Action |-> Cardinality({r \in InWindow : ActionOf[r] = a})]
    BY <1>2 DEF Having
  <2>4. Sum(counts) = Cardinality(InWindow)
    BY <2>3, WindowIsFinite, SumOfCounts
  <2> QED
    BY <1>2, <2>1, <2>2, <2>4
<1>6. /\ client.total <= all /\ client.actors <= all /\ client.transitions <= moved
      /\ Sum(client.actions) <= all
  BY <1>1, <1>2 DEF IInv, SummaryIsBehind
<1>7. \/ client.pc = "total" /\ client' = [client EXCEPT !.pc = "transitions", !.total = all]
      \/ client.pc = "transitions"
         /\ client' = [client EXCEPT !.pc = "actors", !.transitions = moved]
      \/ client.pc = "actors" /\ client' = [client EXCEPT !.pc = "actions", !.actors = actors]
      \/ client.pc = "actions"
         /\ client' = [client EXCEPT !.pc = "entityTypes", !.actions = counts]
      \/ client.pc = "entityTypes" /\ client' = [client EXCEPT !.pc = "done", !.entityTypes = all]
  BY <1>2 DEF Summarize
<1>8. /\ client' \in SummaryReader /\ client'.reads = "summary"
      /\ client'.since = client.since
  BY <1>1, <1>3, <1>4, <1>5, <1>7 DEF SummaryReader
<1>9. Cardinality(InWindow') = all /\ Cardinality(Having("transition")') = moved
  BY <1>2, <1>8 DEF Summarize, InWindow, Having, Present
<1>10. SummaryIsBehind'
  <2>1. /\ client'.total <= all /\ client'.actors <= all /\ client'.transitions <= moved
        /\ Sum(client'.actions) <= all
    <3>1. CASE client.pc \in {"total", "entityTypes"}
      <4>1. /\ client'.total \in {client.total, all} /\ client'.actors = client.actors
            /\ client'.transitions = client.transitions /\ client'.actions = client.actions
        BY <1>1, <1>7, <3>1 DEF SummaryReader
      <4> QED
        BY <1>3, <1>6, <4>1
    <3>2. CASE client.pc = "transitions"
      <4>1. /\ client'.total = client.total /\ client'.actors = client.actors
            /\ client'.transitions = moved /\ client'.actions = client.actions
        BY <1>1, <1>7, <3>2 DEF SummaryReader
      <4> QED
        BY <1>3, <1>6, <4>1
    <3>3. CASE client.pc = "actors"
      <4>1. /\ client'.total = client.total /\ client'.actors = actors
            /\ client'.transitions = client.transitions /\ client'.actions = client.actions
        BY <1>1, <1>7, <3>3 DEF SummaryReader
      <4> QED
        BY <1>4, <1>6, <4>1
    <3>4. CASE client.pc = "actions"
      <4>1. /\ client'.total = client.total /\ client'.actors = client.actors
            /\ client'.transitions = client.transitions /\ client'.actions = counts
        BY <1>1, <1>7, <3>4 DEF SummaryReader
      <4> QED
        BY <1>3, <1>5, <1>6, <4>1
    <3>5. CASE client.pc = "done"
      BY <1>7, <3>5
    <3> QED
      BY <1>1, <3>1, <3>2, <3>3, <3>4, <3>5 DEF SummaryReader
  <2>2. client'.pc \in {"entityTypes", "done"} =>
          /\ client'.total <= Sum(client'.actions) /\ client'.actors <= Sum(client'.actions)
          /\ client'.transitions <= client'.actions["transition"]
    <3>1. CASE client.pc = "actions"
      BY <1>1, <1>5, <1>6, <1>7, <3>1 DEF SummaryReader
    <3>2. CASE client.pc = "entityTypes"
      BY <1>1, <1>7, <3>2 DEF SummaryReader, IInv, SummaryIsBehind
    <3>3. CASE client.pc \notin {"actions", "entityTypes"}
      BY <1>1, <1>7, <3>3 DEF SummaryReader
    <3> QED
      BY <3>1, <3>2, <3>3
  <2>3. client'.pc = "done" => Sum(client'.actions) <= client'.entityTypes
    <3>1. CASE client.pc = "entityTypes"
      BY <1>1, <1>6, <1>7, <3>1 DEF SummaryReader
    <3>2. CASE client.pc # "entityTypes"
      BY <1>1, <1>7, <3>2 DEF SummaryReader
    <3> QED
      BY <3>1, <3>2
  <2> QED
    BY <1>9, <2>1, <2>2, <2>3 DEF SummaryIsBehind
<1>11. TypeOK'
  BY <1>8 DEF Summarize, IInv, TypeOK
<1> QED
  BY <1>8, <1>10, <1>11 DEF IInv, UnseenIsAhead

\* A write puts a row at the front, where it may only push others down.
LEMMA WriteKeeps == ASSUME NEW w \in Id PROVE IInv /\ Write(w) => IInv'
<1> SUFFICES ASSUME IInv, Write(w) PROVE IInv'
  OBVIOUS
<1>1. PICK t \in 1..now : t >= stamp[w] /\ stamp' = [stamp EXCEPT ![w] = t]
  BY DEF Write
<1>2. now \in Nat /\ stamp \in [Id -> 0..now]
  BY ReadsAssumption DEF IInv, TypeOK
<1>3. stamp' \in [Id -> 0..now]
  BY <1>1, <1>2
<1>4. TypeOK'
  BY <1>3 DEF Write, IInv, TypeOK, SummaryReader
<1>5. ASSUME client.reads # "summary", ~left, NEW r \in Present' \ touched', Placed(r)',
             r \notin client.seen
      PROVE  client.pc = "find" /\ Cardinality(Above(r)') >= (client.page - 1) * Limit
  <2>1. r \in Id /\ r # w /\ r \notin touched /\ stamp'[r] = stamp[r] /\ r \in Present
    BY <1>1, <1>2, <1>5 DEF Write, Present
  <2>2. \A s \in Present : s \in Present' /\ stamp'[s] \in Nat /\ stamp[s] \in Nat
                           /\ stamp'[s] >= stamp[s]
    BY <1>1, <1>2, <1>3 DEF Present
  <2>3. Placed(r)
    <3>1. CASE client.reads = "records"
      BY <3>1 DEF Placed
    <3>2. CASE client.reads # "records"
      <4>1. \A s \in Present \ {r} : stamp'[s] # stamp'[r]
        BY <1>5, <2>2, <3>2 DEF Placed, Write
      <4>2. \A s \in Present : s # w
        BY <3>2 DEF Write, Present
      <4>3. \A s \in Present : stamp'[s] = stamp[s]
        BY <1>1, <1>2, <4>2 DEF Present
      <4> QED
        BY <2>1, <4>1, <4>3 DEF Placed
    <3> QED
      BY <3>1, <3>2
  <2>4. Above(r) \subseteq Above(r)'
    <3> SUFFICES ASSUME NEW s \in Above(r) PROVE s \in Above(r)'
      OBVIOUS
    <3>1. s \in Present /\ Before(s, r)
      BY DEF Above
    <3>2. stamp[r] \in Nat /\ stamp'[s] >= stamp[s] /\ stamp[s] \in Nat /\ stamp'[s] \in Nat
      BY <2>1, <2>2, <3>1
    <3>3. Before(s, r)'
      BY <2>1, <3>1, <3>2 DEF Before, Write
    <3> QED
      BY <2>2, <3>1, <3>3 DEF Above
  <2>5. Cardinality(Above(r)) <= Cardinality(Above(r)')
        /\ Cardinality(Above(r)) \in Nat /\ Cardinality(Above(r)') \in Nat
    <3>1. IsFiniteSet(Above(r)') /\ IsFiniteSet(Above(r))
      BY ReadsAssumption, FS_Subset DEF Above, Present
    <3> QED
      BY <2>4, <3>1, FS_Subset, FS_CardinalityType
  <2>6. client.pc = "find" /\ Cardinality(Above(r)) >= (client.page - 1) * Limit
    BY <1>5, <2>1, <2>3 DEF IInv, UnseenIsAhead
  <2>7. (client.page - 1) * Limit \in Int
    <3>1. client \in ListReader
      BY <1>5 DEF IInv, TypeOK, SummaryReader
    <3>2. client.page \in Int
      <4>1. Cardinality(Id) \in Nat
        BY ReadsAssumption, FS_CardinalityType
      <4> QED
        BY <3>1, <4>1 DEF ListReader
    <3>3. Limit \in Nat
      BY <3>1, Sizes
    <3> QED
      BY <3>2, <3>3
  <2> QED
    BY <2>5, <2>6, <2>7
<1>6. client' = client /\ left' = left /\ Limit' = Limit
  BY DEF Write, Limit
<1>7. UnseenIsAhead'
  BY <1>5, <1>6 DEF UnseenIsAhead
<1>8. ASSUME client.reads = "summary"
      PROVE  /\ Cardinality(InWindow) <= Cardinality(InWindow')
             /\ Cardinality(Having("transition")) <= Cardinality(Having("transition")')
             /\ client \in SummaryReader
  <2>1. InWindow \subseteq InWindow'
    <3> SUFFICES ASSUME NEW r \in InWindow PROVE r \in InWindow'
      OBVIOUS
    <3>1. r \in Id /\ stamp[r] > 0 /\ stamp[r] >= client.since /\ stamp[w] = 0
      BY <1>8 DEF InWindow, Present, Write
    <3>2. r # w
      BY <3>1
    <3>3. stamp'[r] = stamp[r]
      BY <1>1, <1>2, <3>1, <3>2
    <3> QED
      BY <1>6, <3>1, <3>3 DEF InWindow, Present
  <2>2. Having("transition") \subseteq Having("transition")'
    BY <2>1 DEF Having
  <2>3. IsFiniteSet(InWindow')
    BY ReadsAssumption, FS_Subset DEF InWindow, Present
  <2>4. IsFiniteSet(Having("transition")')
    BY <2>3, FS_Subset DEF Having
  <2>5. Cardinality(InWindow) <= Cardinality(InWindow')
    BY <2>1, <2>3, FS_Subset
  <2>6. Cardinality(Having("transition")) <= Cardinality(Having("transition")')
    BY <2>2, <2>4, FS_Subset
  <2>7. client \in SummaryReader
    BY <1>8 DEF IInv, TypeOK
  <2> QED
    BY <2>5, <2>6, <2>7
<1>9. SummaryIsBehind'
  <2> SUFFICES ASSUME client.reads = "summary" PROVE SummaryIsBehind'
    BY <1>6 DEF SummaryIsBehind
  <2>1. PICK all, moved, more, rest :
          /\ all = Cardinality(InWindow) /\ more = Cardinality(InWindow')
          /\ moved = Cardinality(Having("transition"))
          /\ rest = Cardinality(Having("transition")')
    OBVIOUS
  <2>2. all <= more /\ moved <= rest
    BY <1>8, <2>1
  <2>3. all \in Nat /\ moved \in Nat
    BY <2>1, WindowIsFinite
  <2>4. more \in Nat /\ rest \in Nat
    <3>1. IsFiniteSet(InWindow')
      BY ReadsAssumption, FS_Subset DEF InWindow, Present
    <3>2. IsFiniteSet(Having("transition")')
      BY <3>1, FS_Subset DEF Having
    <3> QED
      BY <2>1, <3>1, <3>2, FS_CardinalityType
  <2>5. /\ client.total \in Nat /\ client.actors \in Nat /\ client.transitions \in Nat
    BY <1>8 DEF SummaryReader
  <2>6. /\ client.total <= all /\ client.actors <= all /\ client.transitions <= moved
        /\ Sum(client.actions) <= all
    BY <2>1 DEF IInv, SummaryIsBehind
  <2>7. Sum(client.actions) \in Nat
    BY <1>8, SumIsNat DEF SummaryReader
  <2>8. /\ client.total <= more /\ client.actors <= more /\ client.transitions <= rest
        /\ Sum(client.actions) <= more
    BY <2>2, <2>3, <2>4, <2>5, <2>6, <2>7
  <2> QED
    BY <1>6, <2>1, <2>8 DEF IInv, SummaryIsBehind
<1> QED
  BY <1>4, <1>7, <1>9 DEF IInv

LEMMA LeaveKeeps == ASSUME NEW w \in Id PROVE IInv /\ Leave(w) => IInv'
<1> SUFFICES ASSUME IInv, Leave(w) PROVE IInv'
  OBVIOUS
<1>1. now \in Nat /\ stamp' \in [Id -> 0..now]
  BY ReadsAssumption DEF Leave, IInv, TypeOK
<1>2. TypeOK'
  BY <1>1 DEF Leave, IInv, TypeOK, SummaryReader
<1> QED
  BY <1>2 DEF Leave, IInv, UnseenIsAhead, SummaryIsBehind

LEMMA OthersKeep == IInv /\ (Tick \/ UNCHANGED vars) => IInv'
<1> SUFFICES ASSUME IInv, Tick \/ UNCHANGED vars PROVE IInv'
  OBVIOUS
<1>1. now \in Nat /\ now' \in 1..MaxClock /\ now' >= now
  BY ReadsAssumption DEF Tick, vars, IInv, TypeOK
<1>2. stamp' \in [Id -> 0..now']
  BY <1>1 DEF Tick, vars, IInv, TypeOK
<1>3. TypeOK'
  BY <1>1, <1>2 DEF Tick, vars, IInv, TypeOK, SummaryReader
<1>4. UnseenIsAhead'
  BY DEF Tick, vars, IInv, UnseenIsAhead, Present, Placed, Above, Before, Limit
<1>5. SummaryIsBehind'
  BY DEF Tick, vars, IInv, SummaryIsBehind, InWindow, Having, Present
<1> QED
  BY <1>3, <1>4, <1>5 DEF IInv

\* The client and the list stay in line: a row it has not seen and that was
\* there all the time is below the pages it has read.
THEOREM Invariance == Spec => []IInv
<1>1. IInv /\ [Next]_vars => IInv'
  BY FindKeeps, SummarizeKeeps, WriteKeeps, LeaveKeeps, OthersKeep DEF Next
<1> QED
  BY IInvInit, <1>1, PTL DEF Spec

\* Reading page by page (List, ListAudits) misses no row that was there all the
\* time and left alone, whatever else was written.
THEOREM NothingIsSkipped == Spec => []UntouchedIsListed
<1>1. IInv => UntouchedIsListed
  BY DEF IInv, UnseenIsAhead, UntouchedIsListed
<1> QED
  BY Invariance, <1>1, PTL

\* The parts of an audit summary (SummarizeAudits) only disagree by what was
\* written between its queries, whatever is written when.
THEOREM PartsAddUp == Spec => []SummaryAddsUp
<1>1. IInv => SummaryAddsUp
  BY DEF IInv, SummaryIsBehind, SummaryAddsUp
<1> QED
  BY Invariance, <1>1, PTL
=============================================================================
