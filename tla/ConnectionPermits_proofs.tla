----------------------- MODULE ConnectionPermits_proofs -----------------------
(***************************************************************************)
(* Theorems about ConnectionPermits, for every finite set of turns, every  *)
(* set of lanes and profiles and every capacity.                           *)
(***************************************************************************)
EXTENDS ConnectionPermits, FiniteSetTheorems, FunctionTheorems, WellFoundedInduction, TLAPS

-----------------------------------------------------------------------------
(* Positions in a queue.                                                   *)

LEMMA Least ==
    ASSUME NEW T \in SUBSET Nat, T # {}
    PROVE  \E m \in T : \A k \in T : m <= k
<1>1. PICK m \in T : \A k \in T : ~(<<k, m>> \in OpToRel(<, Nat))
  BY WFMin, NatLessThanWellFounded
<1>2. ASSUME NEW k \in T PROVE m <= k
  <2>1. ~(k < m)
    BY <1>1 DEF OpToRel
  <2> QED BY <2>1
<1> QED BY <1>2

LEMMA Greatest ==
    ASSUME NEW n \in Nat, NEW T \in SUBSET (1 .. n), T # {}
    PROVE  \E m \in T : \A k \in T : k <= m
<1> DEFINE U == {n - k : k \in T}
<1>0. \A k \in T : k \in Nat /\ n - k \in Nat
  OBVIOUS
<1>1. U \in SUBSET Nat /\ U # {}
  BY <1>0
<1> HIDE DEF U
<1>2. PICK u \in U : \A v \in U : u <= v
  BY <1>1, Least
<1>3. PICK m \in T : u = n - m
  BY DEF U
<1>4. ASSUME NEW k \in T PROVE k <= m
  <2>1. n - m <= n - k
    BY <1>2, <1>3 DEF U
  <2> QED BY <1>0, <2>1
<1> QED BY <1>4

\* The elements of E before i, and how many there are.
Before(E, i) == {j \in E : j < i}

LEMMA BeforeFinite ==
    ASSUME NEW n \in Nat, NEW E \in SUBSET (1 .. n), NEW i
    PROVE  /\ IsFiniteSet(E) /\ Cardinality(E) \in Nat
           /\ IsFiniteSet(Before(E, i)) /\ Cardinality(Before(E, i)) \in Nat
           /\ Cardinality(Before(E, i)) <= Cardinality(E)
<1>1. IsFiniteSet(1 .. n)
  BY FS_Interval
<1>2. IsFiniteSet(E)
  BY <1>1, FS_Subset
<1>3. Before(E, i) \in SUBSET E
  BY DEF Before
<1> QED BY <1>2, <1>3, FS_Subset, FS_CardinalityType

LEMMA BeforeGrows ==
    ASSUME NEW n \in Nat, NEW E \in SUBSET (1 .. n), NEW i \in E, NEW j \in E, i < j
    PROVE  Cardinality(Before(E, i)) < Cardinality(Before(E, j))
<1>0. \A k \in E : k \in Int
  OBVIOUS
<1>1. Before(E, i) \in SUBSET Before(E, j)
  <2>1. \A k \in E : k < i => k < j
    BY <1>0
  <2> QED BY <2>1 DEF Before
<1>2. i \in Before(E, j) /\ i \notin Before(E, i)
  BY <1>0 DEF Before
<1>3. IsFiniteSet(Before(E, j)) /\ Cardinality(Before(E, i)) \in Nat /\ Cardinality(Before(E, j)) \in Nat
  BY BeforeFinite
<1>4. Cardinality(Before(E, i)) <= Cardinality(Before(E, j))
      /\ Cardinality(Before(E, i)) # Cardinality(Before(E, j))
  BY <1>1, <1>2, <1>3, FS_Subset
<1> QED BY <1>3, <1>4

LEMMA SamePlace ==
    ASSUME NEW n \in Nat, NEW E \in SUBSET (1 .. n), NEW i \in E, NEW j \in E,
           Cardinality(Before(E, i)) = Cardinality(Before(E, j))
    PROVE  i = j
<1>1. Cardinality(Before(E, j)) \in Nat
  BY BeforeFinite
<1>2. ASSUME i < j PROVE FALSE
  <2>1. Cardinality(Before(E, i)) < Cardinality(Before(E, j))
    BY <1>2, BeforeGrows
  <2> QED BY <1>1, <2>1
<1>3. ASSUME j < i PROVE FALSE
  <2>1. Cardinality(Before(E, j)) < Cardinality(Before(E, i))
    BY <1>3, BeforeGrows
  <2> QED BY <1>1, <2>1
<1>4. i \in Int /\ j \in Int
  OBVIOUS
<1> QED BY <1>2, <1>3, <1>4

\* The first k elements of E, or all of them.
First(E, k) == {i \in E : Cardinality(Before(E, i)) < k}

LEMMA FirstOf ==
    ASSUME NEW n \in Nat, NEW E \in SUBSET (1 .. n), NEW k \in Nat
    PROVE  /\ Cardinality(First(E, k)) \in Nat
           /\ Cardinality(First(E, k)) <= k
           /\ First(E, k) # E => Cardinality(First(E, k)) = k
<1> DEFINE F == First(E, k)
<1>0. \A i \in E : i \in Nat
  OBVIOUS
<1>1. F \in SUBSET E /\ F \in SUBSET (1 .. n) /\ F \in SUBSET Nat
  BY <1>0 DEF First
<1>2. IsFiniteSet(F) /\ Cardinality(F) \in Nat
  BY <1>1, BeforeFinite
<1>3. Cardinality(F) <= k
  <2>1. CASE F = {}
    BY <2>1, FS_EmptySet
  <2>2. CASE F # {}
    <3>1. PICK m \in F : \A i \in F : i <= m
      BY <1>1, <2>2, Greatest
    <3>2. F \in SUBSET (Before(E, m) \cup {m})
      <4>1. \A i \in F : i < m \/ i = m
        BY <1>1, <3>1
      <4> QED BY <1>1, <4>1 DEF Before
    <3>3. IsFiniteSet(Before(E, m)) /\ Cardinality(Before(E, m)) \in Nat /\ m \notin Before(E, m)
      <4>1. ~(m < m)
        BY <1>1
      <4> QED BY <4>1, BeforeFinite DEF Before
    <3>4. IsFiniteSet(Before(E, m) \cup {m})
          /\ Cardinality(Before(E, m) \cup {m}) = Cardinality(Before(E, m)) + 1
      BY <3>3, FS_AddElement
    <3>5. Cardinality(F) <= Cardinality(Before(E, m)) + 1
      BY <3>2, <3>4, FS_Subset
    <3>6. Cardinality(Before(E, m)) < k
      BY <3>1 DEF First
    <3> QED BY <1>2, <3>3, <3>5, <3>6
  <2> QED BY <2>1, <2>2
<1>4. ASSUME F # E PROVE k <= Cardinality(F)
  <2>1. E \ F # {} /\ E \ F \in SUBSET Nat
    BY <1>0, <1>1, <1>4
  <2>2. PICK m \in E \ F : \A i \in E \ F : m <= i
    BY <2>1, Least
  <2>3. Before(E, m) \in SUBSET F
    <3>1. \A i \in E : i < m => i \in F
      <4>1. \A i \in E : i < m => ~(m <= i)
        BY <1>0
      <4> QED BY <2>2, <4>1
    <3> QED BY <3>1 DEF Before
  <2>4. Cardinality(Before(E, m)) <= Cardinality(F) /\ Cardinality(Before(E, m)) \in Nat
    BY <1>2, <2>3, FS_Subset, BeforeFinite
  <2>5. ~(Cardinality(Before(E, m)) < k)
    BY <2>2 DEF First
  <2> QED BY <1>2, <2>4, <2>5
<1> QED BY <1>2, <1>3, <1>4

\* Every position has its element.
LEMMA Nth ==
    ASSUME NEW n \in Nat, NEW E \in SUBSET (1 .. n), NEW k \in 1 .. Cardinality(E)
    PROVE  \E i \in E : Cardinality(Before(E, i)) = k - 1
<1> DEFINE c == Cardinality(E)
           f == [i \in E |-> Cardinality(Before(E, i))]
<1>1. IsFiniteSet(E) /\ c \in Nat
  BY BeforeFinite
<1>2. ASSUME NEW i \in E PROVE Cardinality(Before(E, i)) \in 0 .. c - 1
  <2>1. Before(E, i) \in SUBSET E /\ i \notin Before(E, i)
    <3>1. ~(i < i)
      OBVIOUS
    <3> QED BY <3>1 DEF Before
  <2>2. Cardinality(Before(E, i)) # c
    BY <1>1, <2>1, FS_Subset
  <2>3. Cardinality(Before(E, i)) \in Nat /\ Cardinality(Before(E, i)) <= c
    BY BeforeFinite
  <2> QED BY <1>1, <2>2, <2>3
<1>3. ASSUME NEW i \in E, NEW j \in E, f[i] = f[j] PROVE i = j
  <2>1. f[i] = Cardinality(Before(E, i)) /\ f[j] = Cardinality(Before(E, j))
    OBVIOUS
  <2> QED BY <1>3, <2>1, SamePlace
<1>4. f \in [E -> 0 .. c - 1]
  BY <1>2
<1>5. f \in Injection(E, 0 .. c - 1)
  BY <1>3, <1>4 DEF Injection, IsInjective
<1>6. IsFiniteSet(0 .. c - 1) /\ Cardinality(0 .. c - 1) = c
  <2> HIDE DEF c
  <2>1. 0 \in Int /\ c - 1 \in Int
    BY <1>1
  <2>2. IsFiniteSet(0 .. c - 1) /\ Cardinality(0 .. c - 1) = (IF 0 > c - 1 THEN 0 ELSE c - 1 - 0 + 1)
    BY <2>1, FS_Interval
  <2> QED BY <1>1, <2>2
<1>7. f \in Surjection(E, 0 .. c - 1)
  BY <1>5, <1>6, FS_Injection
<1>8. k - 1 \in 0 .. c - 1
  BY <1>1
<1>9. PICK i \in E : f[i] = k - 1
  BY <1>7, <1>8 DEF Surjection
<1> QED BY <1>9

-----------------------------------------------------------------------------
(* Queues of turns.                                                        *)

\* Nobody waits twice.
Queue(w) ==
    /\ w \in Seq(Turns)
    /\ \A i, j \in 1 .. Len(w) : w[i] = w[j] => i = j

Waiting(w) == {w[i] : i \in 1 .. Len(w)}

LEMMA WithoutQueue ==
    ASSUME NEW w, Queue(w), NEW S
    PROVE  Queue(Without(w, S)) /\ Waiting(Without(w, S)) = Waiting(w) \ S
<1> DEFINE K == {i \in DOMAIN w : w[i] \notin S}
           c == Cardinality(K)
           nth(k) == CHOOSE i \in K : Cardinality({j \in K : j < i}) = k - 1
           v == [k \in 1 .. c |-> w[nth(k)]]
<1>1. v = Without(w, S)
  BY DEF Without
<1>2. Len(w) \in Nat /\ DOMAIN w = 1 .. Len(w) /\ \A i \in 1 .. Len(w) : w[i] \in Turns
  BY DEF Queue
<1>3. K \in SUBSET (1 .. Len(w))
  BY <1>2
<1>4. c \in Nat
  BY <1>2, <1>3, BeforeFinite
<1>5. ASSUME NEW k \in 1 .. c
      PROVE  nth(k) \in K /\ Cardinality(Before(K, nth(k))) = k - 1
  <2> HIDE DEF K
  <2>1. \E i \in K : Cardinality({j \in K : j < i}) = k - 1
    BY <1>2, <1>3, Nth DEF Before
  <2> QED BY <2>1 DEF Before
<1>6. \A i \in K : w[i] \in Turns /\ w[i] \notin S /\ i \in 1 .. Len(w)
  BY <1>2
<1> HIDE DEF K, nth
<1>7. v \in Seq(Turns) /\ Len(v) = c /\ \A k \in 1 .. c : v[k] = w[nth(k)]
  BY <1>4, <1>5, <1>6
<1>8. ASSUME NEW k \in 1 .. c, NEW m \in 1 .. c, v[k] = v[m] PROVE k = m
  <2>1. nth(k) = nth(m)
    BY <1>5, <1>6, <1>7, <1>8 DEF Queue
  <2> QED BY <1>4, <1>5, <2>1
<1>9. ASSUME NEW t \in Waiting(w) \ S PROVE \E k \in 1 .. c : v[k] = t
  <2>1. PICK i \in 1 .. Len(w) : w[i] = t
    BY <1>9 DEF Waiting
  <2>2. i \in K
    BY <1>2, <1>9, <2>1 DEF K
  <2>3. IsFiniteSet(K) /\ Cardinality(Before(K, i)) \in Nat
    BY <1>2, <1>3, BeforeFinite
  <2>4. Cardinality(Before(K, i)) < c
    <3>1. Before(K, i) \in SUBSET K /\ i \notin Before(K, i)
      BY <1>6, <2>2 DEF Before
    <3> QED BY <1>4, <2>2, <2>3, <3>1, FS_Subset
  <2>5. PICK k \in 1 .. c : k - 1 = Cardinality(Before(K, i))
    <3> DEFINE b == Cardinality(Before(K, i))
    <3>1. b \in Nat /\ b < c
      BY <2>3, <2>4
    <3> HIDE DEF b
    <3>2. b + 1 \in 1 .. c /\ (b + 1) - 1 = b
      BY <1>4, <3>1
    <3> QED BY <3>2 DEF b
  <2>6. nth(k) = i
    <3>1. nth(k) \in K /\ Cardinality(Before(K, nth(k))) = Cardinality(Before(K, i))
      BY <1>5, <2>5
    <3>2. \A j \in K : Cardinality(Before(K, j)) = Cardinality(Before(K, i)) => j = i
      BY <1>2, <1>3, <2>2, SamePlace
    <3> QED BY <3>1, <3>2
  <2> QED BY <1>7, <2>1, <2>5, <2>6
<1>10. Queue(v) /\ Waiting(v) = Waiting(w) \ S
  <2>1. \A k \in 1 .. c : v[k] \in Waiting(w) \ S
    BY <1>5, <1>6, <1>7 DEF Waiting
  <2>2. Queue(v)
    BY <1>7, <1>8 DEF Queue
  <2>3. Waiting(v) = {v[k] : k \in 1 .. c}
    BY <1>7 DEF Waiting
  <2> QED BY <1>9, <2>1, <2>2, <2>3
<1> QED BY <1>1, <1>10

\* As many turns as places.
LEMMA TurnsAt ==
    ASSUME NEW w, Queue(w), NEW S \in SUBSET (1 .. Len(w))
    PROVE  /\ IsFiniteSet({w[i] : i \in S})
           /\ Cardinality({w[i] : i \in S}) = Cardinality(S)
<1> DEFINE T == {w[i] : i \in S}
           f == [i \in S |-> w[i]]
<1>1. Len(w) \in Nat
  BY DEF Queue
<1>2. IsFiniteSet(S)
  BY <1>1, BeforeFinite
<1>3. f \in Bijection(S, T)
  BY DEF Queue, Bijection, Injection, IsInjective, Surjection
<1> QED BY <1>2, <1>3, FS_Bijection DEF ExistsBijection

\* What #drain grants fits into the lanes and the slots, and whoever is left
\* finds its lane full or no slot free.
LEMMA GrantsFit ==
    ASSUME NEW w, Queue(w), NEW cap \in [Lanes -> Nat], NEW permits \in [Lanes -> Nat],
           NEW slots \in Nat, pool.slots \in Nat
    PROVE  LET G == Grants(w, cap, permits, slots)
           IN  /\ G \in SUBSET Waiting(w) /\ IsFiniteSet(G) /\ Cardinality(G) \in Nat
               /\ slots <= pool.slots => slots + Cardinality(G) <= pool.slots
               /\ \A l \in Lanes :
                    /\ Cardinality(OnLane(G, l)) \in Nat
                    /\ permits[l] <= cap[l] => permits[l] + Cardinality(OnLane(G, l)) <= cap[l]
               /\ \A t \in Waiting(w) \ G :
                    \/ permits[LaneOf[t]] + Cardinality(OnLane(G, LaneOf[t])) >= cap[LaneOf[t]]
                    \/ slots + Cardinality(G) >= pool.slots
<1> DEFINE n == Len(w)
           room(l) == IF cap[l] > permits[l] THEN cap[l] - permits[l] ELSE 0
           free == IF pool.slots > slots THEN pool.slots - slots ELSE 0
           on(l) == {i \in 1 .. n : LaneOf[w[i]] = l}
           E == {i \in DOMAIN w :
                   Cardinality({j \in 1 .. i - 1 : LaneOf[w[j]] = LaneOf[w[i]]}) < room(LaneOf[w[i]])}
           S == First(E, free)
           G == Grants(w, cap, permits, slots)
<1>1. n \in Nat /\ DOMAIN w = 1 .. n /\ \A i \in 1 .. n : w[i] \in Turns /\ LaneOf[w[i]] \in Lanes
  BY PermitAssumption DEF Queue
<1>2. free \in Nat /\ \A l \in Lanes : room(l) \in Nat
  OBVIOUS
<1>3. \A i \in 1 .. n : {j \in 1 .. i - 1 : LaneOf[w[j]] = LaneOf[w[i]]} = Before(on(LaneOf[w[i]]), i)
  <2> SUFFICES ASSUME NEW i \in 1 .. n
               PROVE  {j \in 1 .. i - 1 : LaneOf[w[j]] = LaneOf[w[i]]} = Before(on(LaneOf[w[i]]), i)
    OBVIOUS
  <2>1. \A j : j \in 1 .. i - 1 <=> j \in 1 .. n /\ j < i
    BY <1>1
  <2> QED BY <2>1 DEF Before
<1>4. E \in SUBSET (1 .. n) /\ \A l \in Lanes : on(l) \in SUBSET (1 .. n)
  BY <1>1
<1>5. \A l \in Lanes : \A i \in on(l) : i \in E <=> i \in First(on(l), room(l))
  <2> SUFFICES ASSUME NEW l \in Lanes, NEW i \in on(l)
               PROVE  i \in E <=> i \in First(on(l), room(l))
    OBVIOUS
  <2>1. i \in 1 .. n /\ LaneOf[w[i]] = l
    OBVIOUS
  <2>2. {j \in 1 .. i - 1 : LaneOf[w[j]] = l} = Before(on(l), i)
    BY <1>3, <2>1
  <2>3. i \in E <=> Cardinality(Before(on(l), i)) < room(l)
    BY <1>1, <2>1, <2>2
  <2> HIDE DEF E, room, on
  <2> QED BY <2>3 DEF First
<1>6. G = {w[i] : i \in S}
  BY DEF Grants, First, Before
<1>7. S \in SUBSET E /\ S \in SUBSET (1 .. n)
  BY <1>4 DEF First
<1>8. /\ Cardinality(S) \in Nat /\ Cardinality(S) <= free
      /\ S # E => Cardinality(S) = free
  <2> HIDE DEF E, free
  <2> QED BY <1>1, <1>2, <1>4, FirstOf
<1>9. IsFiniteSet(G) /\ Cardinality(G) = Cardinality(S)
  <2> HIDE DEF S, G
  <2> QED BY <1>6, <1>7, TurnsAt
<1>10. G \in SUBSET Waiting(w)
  <2> HIDE DEF S, G
  <2> QED BY <1>6, <1>7 DEF Waiting
<1>11. ASSUME NEW l \in Lanes
       PROVE  /\ OnLane(G, l) = {w[i] : i \in S \cap on(l)}
              /\ Cardinality(OnLane(G, l)) = Cardinality(S \cap on(l))
              /\ Cardinality(OnLane(G, l)) \in Nat /\ Cardinality(OnLane(G, l)) <= room(l)
  <2>1. OnLane(G, l) = {w[i] : i \in S \cap on(l)}
    <3> HIDE DEF S, G
    <3> QED BY <1>6, <1>7 DEF OnLane
  <2>2. S \cap on(l) \in SUBSET (1 .. n) /\ S \cap on(l) \in SUBSET First(on(l), room(l))
    <3> HIDE DEF S, E, room
    <3> QED BY <1>5, <1>7
  <2> HIDE DEF S, G, on, room
  <2>3. Cardinality(OnLane(G, l)) = Cardinality(S \cap on(l))
    <3> DEFINE R == S \cap on(l)
    <3>1. R \in SUBSET (1 .. n) /\ OnLane(G, l) = {w[i] : i \in R}
      BY <2>1, <2>2
    <3> HIDE DEF R
    <3>2. Cardinality({w[i] : i \in R}) = Cardinality(R)
      BY <3>1, TurnsAt
    <3> QED BY <3>1, <3>2 DEF R
  <2>4. /\ Cardinality(First(on(l), room(l))) <= room(l) /\ Cardinality(First(on(l), room(l))) \in Nat
    BY <1>1, <1>2, <1>4, FirstOf
  <2>5. First(on(l), room(l)) \in SUBSET (1 .. n)
    BY <1>4 DEF First
  <2>6. /\ Cardinality(S \cap on(l)) \in Nat
        /\ Cardinality(S \cap on(l)) <= Cardinality(First(on(l), room(l)))
    BY <1>1, <2>2, <2>5, FS_Subset, BeforeFinite
  <2> QED BY <1>2, <2>1, <2>3, <2>4, <2>6
<1>12. ASSUME NEW t \in Waiting(w) \ G
       PROVE  \/ permits[LaneOf[t]] + Cardinality(OnLane(G, LaneOf[t])) >= cap[LaneOf[t]]
              \/ slots + Cardinality(G) >= pool.slots
  <2>1. PICK i \in 1 .. n : t = w[i]
    BY DEF Waiting
  <2>2. i \notin S
    <3> HIDE DEF S, G
    <3> QED BY <1>6, <2>1
  <2>3. CASE S # E
    <3> HIDE DEF S, E, G
    <3> QED BY <1>8, <1>9, <2>3
  <2>4. CASE S = E
    <3> DEFINE l == LaneOf[t]
    <3>1. l \in Lanes /\ i \in on(l) /\ on(l) \in SUBSET (1 .. n)
      BY <1>1, <1>4, <2>1
    <3>2. i \notin First(on(l), room(l)) /\ S \cap on(l) = First(on(l), room(l))
      <4>1. First(on(l), room(l)) \in SUBSET on(l)
        BY DEF First
      <4> HIDE DEF S, E, room, on, l
      <4> QED BY <1>5, <2>2, <2>4, <3>1, <4>1
    <3> HIDE DEF S, E, G, room, on, l
    <3>3. Cardinality(First(on(l), room(l))) = room(l)
      BY <1>1, <1>2, <3>1, <3>2, FirstOf
    <3>4. Cardinality(OnLane(G, l)) = room(l) /\ room(l) \in Nat
      BY <1>2, <1>11, <3>1, <3>2, <3>3
    <3>5. permits[l] + room(l) >= cap[l]
      BY <3>1 DEF room
    <3> QED BY <3>4, <3>5 DEF l
  <2> QED BY <2>3, <2>4
<1>13. slots <= pool.slots => slots + Cardinality(G) <= pool.slots
  <2> HIDE DEF S, E, G
  <2> QED BY <1>8, <1>9
<1>14. \A l \in Lanes : permits[l] <= cap[l] => permits[l] + Cardinality(OnLane(G, l)) <= cap[l]
  <2> SUFFICES ASSUME NEW l \in Lanes, permits[l] <= cap[l]
               PROVE  permits[l] + Cardinality(OnLane(G, l)) <= cap[l]
    OBVIOUS
  <2>1. permits[l] \in Nat /\ cap[l] \in Nat
    OBVIOUS
  <2>2. permits[l] + room(l) <= cap[l] /\ room(l) \in Nat
    BY <2>1
  <2>3. Cardinality(OnLane(G, l)) \in Nat /\ Cardinality(OnLane(G, l)) <= room(l)
    BY <1>11
  <2> HIDE DEF S, E, G, room
  <2> QED BY <2>1, <2>2, <2>3
<1>15. Cardinality(G) \in Nat
  <2> HIDE DEF S, E, G
  <2> QED BY <1>8, <1>9
<1> HIDE DEF G
<1> QED BY <1>9, <1>10, <1>11, <1>12, <1>13, <1>14, <1>15 DEF G

-----------------------------------------------------------------------------
(* The coordinator.                                                        *)

\* The queue is the turns that are queued, each once.
QueueInStep == Queue(waiters) /\ Waiting(waiters) = At("queued")

\* Holding less what is given back plus what is granted.
LEMMA Regrant ==
    ASSUME NEW H, IsFiniteSet(H), NEW r \in SUBSET H, NEW g, IsFiniteSet(g), g \cap (H \ r) = {}
    PROVE  /\ Cardinality(H) \in Nat /\ Cardinality(r) \in Nat /\ Cardinality(g) \in Nat
           /\ Cardinality(r) <= Cardinality(H)
           /\ Cardinality((H \ r) \cup g) = Cardinality(H) - Cardinality(r) + Cardinality(g)
<1>1. IsFiniteSet(r) /\ Cardinality(r) <= Cardinality(H) /\ H \cap r = r
  BY FS_Subset
<1>2. Cardinality(H) \in Nat /\ Cardinality(r) \in Nat /\ Cardinality(g) \in Nat
  BY <1>1, FS_CardinalityType
<1>3. IsFiniteSet(H \ r) /\ Cardinality(H \ r) = Cardinality(H) - Cardinality(H \cap r)
  BY FS_Difference
<1>4. Cardinality((H \ r) \cup g) = Cardinality(H \ r) + Cardinality(g) - Cardinality((H \ r) \cap g)
  BY <1>3, FS_Union
<1>5. (H \ r) \cap g = {}
  OBVIOUS
<1>6. Cardinality((H \ r) \cap g) = 0
  BY <1>5, FS_EmptySet
<1>7. Cardinality(H \ r) = Cardinality(H) - Cardinality(r)
  BY <1>1, <1>3
<1>8. Cardinality((H \ r) \cup g) = Cardinality(H) - Cardinality(r) + Cardinality(g)
  <2> DEFINE h == Cardinality(H)
             k == Cardinality(r)
             m == Cardinality(g)
             d == Cardinality(H \ r)
             z == Cardinality((H \ r) \cap g)
             u == Cardinality((H \ r) \cup g)
  <2>1. h \in Nat /\ k \in Nat /\ m \in Nat /\ d = h - k /\ z = 0 /\ u = d + m - z
    BY <1>2, <1>4, <1>6, <1>7
  <2> HIDE DEF h, k, m, d, z, u
  <2>2. u = h - k + m
    BY <2>1
  <2> QED BY <2>2 DEF h, k, m, u
<1> QED BY <1>1, <1>2, <1>8

\* Turns req give their lane permit back, turns slot their execution slot, w is
\* left of the queue and ph says where the turns are before #drain has run.
Settleable(w, req, slot, ph) ==
    /\ Queue(w)
    /\ ph \in [Turns -> Phases]
    /\ Waiting(w) = {t \in Turns : ph[t] = "queued"}
    /\ \A t \in Turns : ph[t] \in {"idle", "claimed", "queued"} =>
                          t \notin executionSlotHeld \ slot
    /\ slot \cap requestPermitHeld \subseteq req

\* The coordinator afterwards: no turn has moved but those that were granted.
Settled(w, req, slot, ph) ==
    /\ CapacityAccounted' /\ WorkConserving' /\ QueueInStep'
    /\ activeRequestPermits' \in [Lanes -> Nat] /\ activeExecutionSlots' \in Nat
    /\ phase' \in [Turns -> Phases] /\ waiters' \in Seq(Turns)
    /\ requestPermitHeld' \subseteq Turns /\ executionSlotHeld' \subseteq Turns
    /\ \E g \in SUBSET Turns :
         /\ \A t \in g : ph[t] = "queued"
         /\ admissionStopped' => g = {}
         /\ requestPermitHeld' = (requestPermitHeld \ req) \cup g
         /\ executionSlotHeld' = (executionSlotHeld \ slot) \cup g
         /\ \A t \in Turns : phase'[t] = IF t \in g THEN "granted" ELSE ph[t]

\* What every settlement of the coordinator does, whichever turns it takes
\* the capacity from: it counts right, stays within the limits, serves whoever
\* can be served and moves no turn but those it grants.
LEMMA Settling ==
    ASSUME PermitTypeOK, CapacityAccounted, pool' = pool,
           approvedRequestCap' \in [Lanes -> Nat],
           \A l \in Lanes : activeRequestPermits[l] <= approvedRequestCap'[l],
           admissionStopped' \in BOOLEAN,
           NEW w, NEW req, NEW slot, NEW ph,
           Settleable(w, req, slot, ph), Settle(w, req, slot, ph)
    PROVE  Settled(w, req, slot, ph)
<1> USE DEF Settleable
<1> DEFINE H == requestPermitHeld
           X == executionSlotHeld
           cap == approvedRequestCap'
           r == req \cap H
           s == slot \cap X
           permits == [l \in Lanes |-> activeRequestPermits[l] - Cardinality(OnLane(r, l))]
           slots == activeExecutionSlots - Cardinality(s)
           g == IF admissionStopped' THEN {} ELSE Grants(w, cap, permits, slots)
<1>1. /\ waiters' = Without(w, g)
      /\ activeRequestPermits' = [l \in Lanes |-> permits[l] + Cardinality(OnLane(g, l))]
      /\ activeExecutionSlots' = slots + Cardinality(g)
      /\ requestPermitHeld' = (H \ r) \cup g
      /\ executionSlotHeld' = (X \ s) \cup g
      /\ phase' = [t \in Turns |-> IF t \in g THEN "granted" ELSE ph[t]]
  BY DEF Settle
<1>2. /\ IsFiniteSet(Turns) /\ H \in SUBSET Turns /\ X \in SUBSET Turns
      /\ \A l \in Lanes : activeRequestPermits[l] \in Nat
      /\ activeExecutionSlots \in Nat /\ pool.slots \in Nat
  BY PermitAssumption DEF PermitTypeOK
<1>3. /\ r \in SUBSET H /\ s \in SUBSET X /\ H \in SUBSET X
      /\ \A l \in Lanes : activeRequestPermits[l] = Cardinality(OnLane(H, l))
      /\ activeExecutionSlots = Cardinality(X) /\ activeExecutionSlots <= pool.slots
  BY DEF CapacityAccounted
<1> HIDE DEF H, X, cap, g, r, s
<1>4. ASSUME NEW S \in SUBSET Turns PROVE IsFiniteSet(S) /\ \A l \in Lanes : OnLane(S, l) \in SUBSET S
  BY <1>2, FS_Subset DEF OnLane
<1>5. \A l \in Lanes : Cardinality(OnLane(r, l)) <= activeRequestPermits[l] /\ Cardinality(OnLane(r, l)) \in Nat
  <2> SUFFICES ASSUME NEW l \in Lanes
               PROVE  Cardinality(OnLane(r, l)) <= activeRequestPermits[l] /\ Cardinality(OnLane(r, l)) \in Nat
    OBVIOUS
  <2>1. IsFiniteSet(OnLane(H, l)) /\ OnLane(r, l) \in SUBSET OnLane(H, l)
    BY <1>2, <1>3, <1>4, FS_Subset DEF OnLane
  <2> QED BY <1>3, <2>1, FS_Subset, FS_CardinalityType
<1>6. permits \in [Lanes -> Nat] /\ \A l \in Lanes : permits[l] <= cap[l]
  <2>1. ASSUME NEW l \in Lanes PROVE permits[l] \in Nat /\ permits[l] <= cap[l]
    <3>1. activeRequestPermits[l] <= cap[l] /\ cap[l] \in Nat
      BY DEF cap
    <3> QED BY <1>2, <1>5, <3>1
  <2> QED BY <2>1
<1>7. Cardinality(s) <= activeExecutionSlots /\ Cardinality(s) \in Nat
  <2>1. IsFiniteSet(X)
    BY <1>2, <1>4
  <2> QED BY <1>3, <2>1, FS_Subset, FS_CardinalityType
<1>8. slots \in Nat /\ slots <= pool.slots
  BY <1>2, <1>3, <1>7
<1> HIDE DEF permits, slots
<1>9. /\ g \in SUBSET Waiting(w) /\ IsFiniteSet(g) /\ Cardinality(g) \in Nat
      /\ slots + Cardinality(g) <= pool.slots
      /\ \A l \in Lanes : /\ Cardinality(OnLane(g, l)) \in Nat
                          /\ permits[l] + Cardinality(OnLane(g, l)) <= cap[l]
      /\ ~admissionStopped' =>
           \A t \in Waiting(w) \ g :
             \/ permits[LaneOf[t]] + Cardinality(OnLane(g, LaneOf[t])) >= cap[LaneOf[t]]
             \/ slots + Cardinality(g) >= pool.slots
  <2>1. CASE admissionStopped'
    <3>1. g = {} /\ \A l \in Lanes : OnLane(g, l) = {}
      BY <2>1 DEF g, OnLane
    <3>2. \A l \in Lanes : permits[l] \in Nat /\ cap[l] \in Nat
      BY <1>6 DEF cap
    <3>3. /\ Cardinality(g) = 0 /\ IsFiniteSet(g)
          /\ \A l \in Lanes : Cardinality(OnLane(g, l)) = 0
      BY <3>1, FS_EmptySet
    <3>4. slots + Cardinality(g) <= pool.slots
      BY <1>8, <3>3
    <3>5. \A l \in Lanes : permits[l] + Cardinality(OnLane(g, l)) <= cap[l]
      BY <1>6, <3>2, <3>3
    <3> QED BY <2>1, <3>1, <3>3, <3>4, <3>5
  <2>2. CASE ~admissionStopped'
    <3>1. g = Grants(w, cap, permits, slots)
      BY <2>2 DEF g
    <3>2. cap \in [Lanes -> Nat]
      BY DEF cap
    <3> QED BY <1>2, <1>6, <1>8, <3>1, <3>2, GrantsFit
  <2> QED BY <2>1, <2>2
<1>10. \A t \in g : t \in Turns /\ ph[t] = "queued" /\ t \notin X \ s /\ t \notin H \ r
  BY <1>3, <1>9 DEF s, r, X, H
<1>11. g \in SUBSET Turns
  BY <1>10
<1>12. /\ requestPermitHeld' \subseteq executionSlotHeld'
       /\ requestPermitHeld' \subseteq Turns /\ executionSlotHeld' \subseteq Turns
  BY <1>1, <1>2, <1>3, <1>11 DEF s, r, X, H
<1>13. ASSUME NEW l \in Lanes
       PROVE  /\ activeRequestPermits'[l] = Cardinality(OnLane(requestPermitHeld', l))
              /\ activeRequestPermits'[l] = permits[l] + Cardinality(OnLane(g, l))
  <2> DEFINE Hl == OnLane(H, l)
             rl == OnLane(r, l)
             gl == OnLane(g, l)
  <2>1. OnLane(requestPermitHeld', l) = (Hl \ rl) \cup gl
    BY <1>1 DEF OnLane
  <2>2. IsFiniteSet(Hl) /\ rl \in SUBSET Hl /\ IsFiniteSet(gl) /\ gl \cap (Hl \ rl) = {}
    <3>1. rl \in SUBSET Hl /\ gl \cap (Hl \ rl) = {}
      BY <1>3, <1>10 DEF OnLane
    <3>2. Hl \in SUBSET Turns /\ gl \in SUBSET Turns
      BY <1>2, <1>11 DEF OnLane
    <3> QED BY <1>4, <3>1, <3>2
  <2>3. permits[l] = Cardinality(Hl) - Cardinality(rl)
    BY <1>3 DEF permits
  <2>4. activeRequestPermits'[l] = permits[l] + Cardinality(gl)
    BY <1>1
  <2> HIDE DEF Hl, rl, gl
  <2>5. Cardinality((Hl \ rl) \cup gl) = Cardinality(Hl) - Cardinality(rl) + Cardinality(gl)
    BY <2>2, Regrant
  <2> QED BY <2>1, <2>3, <2>4, <2>5 DEF gl
<1>14. activeExecutionSlots' = Cardinality(executionSlotHeld')
  <2>1. IsFiniteSet(X) /\ IsFiniteSet(g) /\ g \cap (X \ s) = {}
    BY <1>2, <1>4, <1>9, <1>10
  <2>2. Cardinality((X \ s) \cup g) = Cardinality(X) - Cardinality(s) + Cardinality(g)
    BY <1>3, <2>1, Regrant
  <2> QED BY <1>1, <1>3, <2>2 DEF slots
<1>15. phase' \in [Turns -> Phases] /\ \A t \in Turns : phase'[t] = IF t \in g THEN "granted" ELSE ph[t]
  BY <1>1 DEF Phases
<1>16. activeRequestPermits' \in [Lanes -> Nat] /\ activeExecutionSlots' \in Nat
  <2>1. \A l \in Lanes : permits[l] + Cardinality(OnLane(g, l)) \in Nat
    BY <1>6, <1>9
  <2> QED BY <1>1, <1>8, <1>9, <2>1
<1>17. QueueInStep'
  <2>1. Queue(waiters') /\ Waiting(waiters') = Waiting(w) \ g
    BY <1>1, WithoutQueue
  <2>2. At("queued")' = {t \in Turns : ph[t] = "queued"} \ g
    BY <1>15 DEF At
  <2> QED BY <2>1, <2>2 DEF QueueInStep, Queue, Waiting
<1>18. CapacityAccounted'
  <2>1. \A t \in Turns : phase'[t] \in {"idle", "claimed", "queued"} => t \notin executionSlotHeld'
    BY <1>1, <1>15 DEF s, X
  <2>2. activeExecutionSlots' <= pool'.slots
    BY <1>1, <1>9
  <2>3. \A l \in Lanes : activeRequestPermits'[l] <= approvedRequestCap'[l]
    BY <1>9, <1>13 DEF cap
  <2> QED BY <1>12, <1>13, <1>14, <2>1, <2>2, <2>3 DEF CapacityAccounted, OnLane
<1>19. WorkConserving'
  <2> SUFFICES ASSUME ~admissionStopped', NEW i \in DOMAIN waiters'
               PROVE  \/ activeRequestPermits'[LaneOf[waiters'[i]]] >= approvedRequestCap'[LaneOf[waiters'[i]]]
                      \/ activeExecutionSlots' >= pool'.slots
    BY DEF WorkConserving
  <2> DEFINE t == waiters'[i]
  <2>1. Queue(waiters') /\ Waiting(waiters') = Waiting(w) \ g
    BY <1>1, WithoutQueue
  <2>2. t \in Waiting(w) \ g /\ t \in Turns
    <3>1. waiters' \in Seq(Turns)
      BY <2>1 DEF Queue
    <3>2. i \in 1 .. Len(waiters') /\ t \in Turns
      BY <3>1
    <3>3. t \in Waiting(waiters')
      BY <3>2 DEF Waiting
    <3> QED BY <2>1, <3>2, <3>3
  <2>3. LaneOf[t] \in Lanes
    BY <2>2, PermitAssumption
  <2> HIDE DEF t
  <2>4. \/ permits[LaneOf[t]] + Cardinality(OnLane(g, LaneOf[t])) >= cap[LaneOf[t]]
        \/ slots + Cardinality(g) >= pool.slots
    BY <1>9, <2>2
  <2> QED BY <1>1, <1>13, <2>3, <2>4 DEF t, cap
<1>20. requestPermitHeld' = (requestPermitHeld \ req) \cup g /\ executionSlotHeld' = (executionSlotHeld \ slot) \cup g
  BY <1>1 DEF s, r, X, H
<1>21. /\ g \in SUBSET Waiting(w)
       /\ admissionStopped' => g = {}
       /\ phase' = [t \in Turns |-> IF t \in g THEN "granted" ELSE ph[t]]
  BY <1>1, <1>9 DEF g
<1>22. waiters' \in Seq(Turns)
  BY <1>17 DEF QueueInStep, Queue
<1>23. \E h \in SUBSET Turns :
         /\ \A t \in h : ph[t] = "queued"
         /\ admissionStopped' => h = {}
         /\ requestPermitHeld' = (requestPermitHeld \ req) \cup h
         /\ executionSlotHeld' = (executionSlotHeld \ slot) \cup h
         /\ \A t \in Turns : phase'[t] = IF t \in h THEN "granted" ELSE ph[t]
  <2> WITNESS g \in SUBSET Turns
  <2> QED BY <1>10, <1>11, <1>15, <1>20, <1>21
<1> QED BY <1>12, <1>15, <1>16, <1>17, <1>18, <1>19, <1>22, <1>23 DEF Settled

-----------------------------------------------------------------------------
(* The invariant.                                                          *)

\* What the phase of a turn says about its pair: whoever is between its grant
\* and the answer to its call holds the lane permit, and a captured turn has
\* given it back.  Once the owner is fenced only pairs granted to a turn that
\* has not resumed are left.
PairsInStep ==
    /\ \A t \in Turns : ~fenced =>
         /\ phase[t] \in {"granted", "leased", "begin_pending", "request_active"} =>
              t \in requestPermitHeld
         /\ phase[t] = "captured" => t \notin requestPermitHeld
    /\ fenced => admissionStopped /\ executionSlotHeld \subseteq At("granted")

\* A turn aborted with its profile carries a claim begin refuses, and if its
\* attempt exists already it was told not to call.
CondemnedFlagged ==
    \A t \in condemned :
      /\ t \in stale
      /\ ~fenced /\ phase[t] = "begin_pending" /\ attempt[t] = "in_flight" =>
           t \in cancelBeforeCall

Capacity == CapacityAccounted /\ WorkConserving /\ QueueInStep
TurnsInStep == InFlightHoldsPermit /\ PairsInStep /\ CondemnedFlagged
PermitInv == PermitTypeOK /\ Capacity /\ TurnsInStep

LEMMA EmptyQueue == Queue(<<>>) /\ Waiting(<<>>) = {}
<1>1. <<>> \in Seq(Turns) /\ Len(<<>>) = 0
  OBVIOUS
<1>2. \A i : i \notin 1 .. 0
  OBVIOUS
<1> QED BY <1>1, <1>2 DEF Queue, Waiting

LEMMA JoinQueue ==
    ASSUME NEW w, Queue(w), NEW t \in Turns, t \notin Waiting(w)
    PROVE  Queue(Append(w, t)) /\ Waiting(Append(w, t)) = Waiting(w) \cup {t}
<1> DEFINE n == Len(w)
           v == Append(w, t)
<1>1. n \in Nat /\ w \in Seq(Turns) /\ \A i \in 1 .. n : w[i] \in Turns
  BY DEF Queue
<1>2. /\ v \in Seq(Turns) /\ Len(v) = n + 1
      /\ v[n + 1] = t /\ \A i \in 1 .. n : v[i] = w[i]
  BY <1>1
<1>3. \A i : i \in 1 .. n + 1 <=> i \in 1 .. n \/ i = n + 1
  BY <1>1
<1>4. \A i \in 1 .. n : w[i] # t
  BY DEF Waiting
<1> HIDE DEF v
<1>5. \A i, j \in 1 .. Len(v) : v[i] = v[j] => i = j
  BY <1>2, <1>3, <1>4 DEF Queue
<1>6. Waiting(v) = Waiting(w) \cup {t}
  <2> HIDE DEF n
  <2>1. Waiting(w) = {w[i] : i \in 1 .. n}
    BY DEF Waiting, n
  <2>2. Waiting(v) = {v[i] : i \in 1 .. n + 1}
    BY <1>2 DEF Waiting
  <2> QED BY <1>2, <1>3, <2>1, <2>2
<1> QED BY <1>2, <1>5, <1>6 DEF Queue, v

\* Steps that leave the coordinator alone, whatever they do to a turn that
\* neither waits nor comes to rest.
LEMMA CapacityUntouched ==
    ASSUME PermitTypeOK, Capacity,
           UNCHANGED <<activeRequestPermits, activeExecutionSlots, waiters, requestPermitHeld,
                       executionSlotHeld, pool, approvedRequestCap, admissionStopped>>,
           \A t \in Turns :
             \/ phase'[t] = phase[t]
             \/ phase'[t] \notin {"idle", "claimed", "queued"} /\ phase[t] # "queued"
             \/ phase'[t] = "claimed" /\ phase[t] = "idle"
    PROVE  Capacity'
<1>1. At("queued")' = At("queued")
  BY DEF At
<1>2. QueueInStep'
  BY <1>1 DEF Capacity, QueueInStep, Queue, Waiting
<1>3. CapacityAccounted'
  BY DEF Capacity, CapacityAccounted, OnLane
<1>4. WorkConserving'
  BY DEF Capacity, WorkConserving
<1> QED BY <1>2, <1>3, <1>4 DEF Capacity

LEMMA ClaimKeeps ==
    ASSUME PermitInv, NEW t \in Turns, Claim(t)
    PROVE  PermitInv'
<1>1. PermitTypeOK'
  BY SMTT(20) DEF PermitInv, PermitTypeOK, Claim, Moved, Phases, Active
<1>2. /\ UNCHANGED <<activeRequestPermits, activeExecutionSlots, waiters, requestPermitHeld,
                     executionSlotHeld, pool, approvedRequestCap, admissionStopped>>
      /\ \A u \in Turns :
           \/ phase'[u] = phase[u]
           \/ phase'[u] \notin {"idle", "claimed", "queued"} /\ phase[u] # "queued"
           \/ phase'[u] = "claimed" /\ phase[u] = "idle"
  BY DEF PermitInv, PermitTypeOK, Claim, Moved, Phases, Active
<1>3. Capacity'
  BY <1>2, CapacityUntouched DEF PermitInv
<1>4. InFlightHoldsPermit'
  BY SMTT(20)
     DEF PermitInv, TurnsInStep, PermitTypeOK, InFlightHoldsPermit, PairsInStep, Claim,
     Moved, Phases, Active
<1>5. PairsInStep'
  BY SMTT(20)
     DEF PermitInv, TurnsInStep, PermitTypeOK, PairsInStep, At, Claim, Moved, Phases,
     Active
<1>6. CondemnedFlagged'
  BY SMTT(20)
     DEF PermitInv, TurnsInStep, PermitTypeOK, CondemnedFlagged, InFlightHoldsPermit,
     Claim, Moved, Phases, Active
<1> QED BY <1>1, <1>3, <1>4, <1>5, <1>6 DEF PermitInv, TurnsInStep

LEMMA ActivateKeeps ==
    ASSUME PermitInv, NEW t \in Turns, Activate(t)
    PROVE  PermitInv'
<1>1. PermitTypeOK'
  BY SMTT(20) DEF PermitInv, PermitTypeOK, Activate, Moved, Phases, Active
<1>2. /\ UNCHANGED <<activeRequestPermits, activeExecutionSlots, waiters, requestPermitHeld,
                     executionSlotHeld, pool, approvedRequestCap, admissionStopped>>
      /\ \A u \in Turns :
           \/ phase'[u] = phase[u]
           \/ phase'[u] \notin {"idle", "claimed", "queued"} /\ phase[u] # "queued"
           \/ phase'[u] = "claimed" /\ phase[u] = "idle"
  BY DEF PermitInv, PermitTypeOK, Activate, Moved, Phases, Active
<1>3. Capacity'
  BY <1>2, CapacityUntouched DEF PermitInv
<1>4. InFlightHoldsPermit'
  BY SMTT(20)
     DEF PermitInv, TurnsInStep, PermitTypeOK, InFlightHoldsPermit, PairsInStep,
     Activate, Moved, Phases, Active
<1>5. PairsInStep'
  BY SMTT(20)
     DEF PermitInv, TurnsInStep, PermitTypeOK, PairsInStep, At, Activate, Moved, Phases,
     Active
<1>6. CondemnedFlagged'
  BY SMTT(20)
     DEF PermitInv, TurnsInStep, PermitTypeOK, CondemnedFlagged, InFlightHoldsPermit,
     Activate, Moved, Phases, Active
<1> QED BY <1>1, <1>3, <1>4, <1>5, <1>6 DEF PermitInv, TurnsInStep

LEMMA BeginCommitsKeeps ==
    ASSUME PermitInv, NEW t \in Turns, BeginCommits(t)
    PROVE  PermitInv'
<1>1. PermitTypeOK'
  BY SMTT(20) DEF PermitInv, PermitTypeOK, BeginCommits, Refused, coordinator
<1>2. /\ UNCHANGED <<activeRequestPermits, activeExecutionSlots, waiters, requestPermitHeld,
                     executionSlotHeld, pool, approvedRequestCap, admissionStopped>>
      /\ \A u \in Turns :
           \/ phase'[u] = phase[u]
           \/ phase'[u] \notin {"idle", "claimed", "queued"} /\ phase[u] # "queued"
           \/ phase'[u] = "claimed" /\ phase[u] = "idle"
  BY DEF PermitInv, PermitTypeOK, BeginCommits, Refused, coordinator
<1>3. Capacity'
  BY <1>2, CapacityUntouched DEF PermitInv
<1>4. InFlightHoldsPermit'
  BY SMTT(20)
     DEF PermitInv, TurnsInStep, PermitTypeOK, InFlightHoldsPermit, PairsInStep,
     BeginCommits, Refused, coordinator
<1>5. PairsInStep'
  BY SMTT(20)
     DEF PermitInv, TurnsInStep, PermitTypeOK, PairsInStep, At, BeginCommits, Refused,
     coordinator
<1>6. CondemnedFlagged'
  BY SMTT(20)
     DEF PermitInv, TurnsInStep, PermitTypeOK, CondemnedFlagged, InFlightHoldsPermit,
     BeginCommits, Refused, coordinator
<1> QED BY <1>1, <1>3, <1>4, <1>5, <1>6 DEF PermitInv, TurnsInStep

LEMMA CallKeeps ==
    ASSUME PermitInv, NEW t \in Turns, Call(t)
    PROVE  PermitInv'
<1>1. PermitTypeOK'
  BY SMTT(20) DEF PermitInv, PermitTypeOK, Call, Moved, Phases, Active, LeaseStates
<1>2. /\ UNCHANGED <<activeRequestPermits, activeExecutionSlots, waiters, requestPermitHeld,
                     executionSlotHeld, pool, approvedRequestCap, admissionStopped>>
      /\ \A u \in Turns :
           \/ phase'[u] = phase[u]
           \/ phase'[u] \notin {"idle", "claimed", "queued"} /\ phase[u] # "queued"
           \/ phase'[u] = "claimed" /\ phase[u] = "idle"
  BY DEF PermitInv, PermitTypeOK, Call, Moved, Phases, Active, LeaseStates
<1>3. Capacity'
  BY <1>2, CapacityUntouched DEF PermitInv
<1>4. InFlightHoldsPermit'
  BY SMTT(20)
     DEF PermitInv, TurnsInStep, PermitTypeOK, InFlightHoldsPermit, PairsInStep, Call,
     Moved, Phases, Active, LeaseStates
<1>5. PairsInStep'
  BY SMTT(20)
     DEF PermitInv, TurnsInStep, PermitTypeOK, PairsInStep, At, Call, Moved, Phases,
     Active, LeaseStates
<1>6. CondemnedFlagged'
  BY SMTT(20)
     DEF PermitInv, TurnsInStep, PermitTypeOK, CondemnedFlagged, InFlightHoldsPermit,
     Call, Moved, Phases, Active, LeaseStates
<1> QED BY <1>1, <1>3, <1>4, <1>5, <1>6 DEF PermitInv, TurnsInStep

LEMMA TerminalizeCommitsKeeps ==
    ASSUME PermitInv, NEW t \in Turns, NEW b \in BOOLEAN, TerminalizeCommits(t, b)
    PROVE  PermitInv'
<1>1. PermitTypeOK'
  <2>1. ProfileOfTurn(t) \in Profiles
    BY PermitAssumption DEF ProfileOfTurn
  <2>2. phase' \in [Turns -> Phases]
    BY DEF PermitInv, PermitTypeOK, TerminalizeCommits, Moved, Phases, Active
  <2>3. blocked' \subseteq Profiles /\ stale' \subseteq Turns
    BY <2>1 DEF PermitInv, PermitTypeOK, TerminalizeCommits
  <2>4. attempt' \in [Turns -> {"none", "in_flight", "terminal"}]
    BY DEF PermitInv, PermitTypeOK, TerminalizeCommits
  <2> QED BY <2>2, <2>3, <2>4 DEF PermitInv, PermitTypeOK, TerminalizeCommits
<1>2. /\ UNCHANGED <<activeRequestPermits, activeExecutionSlots, waiters, requestPermitHeld,
                     executionSlotHeld, pool, approvedRequestCap, admissionStopped>>
      /\ \A u \in Turns :
           \/ phase'[u] = phase[u]
           \/ phase'[u] \notin {"idle", "claimed", "queued"} /\ phase[u] # "queued"
           \/ phase'[u] = "claimed" /\ phase[u] = "idle"
  BY DEF PermitInv, PermitTypeOK, TerminalizeCommits, Moved, Phases, Active
<1>3. Capacity'
  BY <1>2, CapacityUntouched DEF PermitInv
<1>4. InFlightHoldsPermit'
  BY SMTT(20)
     DEF PermitInv, TurnsInStep, PermitTypeOK, InFlightHoldsPermit, PairsInStep,
     TerminalizeCommits, Moved, Phases, Active
<1>5. PairsInStep'
  BY SMTT(20)
     DEF PermitInv, TurnsInStep, PermitTypeOK, PairsInStep, At, TerminalizeCommits,
     Moved, Phases, Active
<1>6. CondemnedFlagged'
  BY SMTT(20)
     DEF PermitInv, TurnsInStep, PermitTypeOK, CondemnedFlagged, InFlightHoldsPermit,
     TerminalizeCommits, Moved, Phases, Active
<1> QED BY <1>1, <1>3, <1>4, <1>5, <1>6 DEF PermitInv, TurnsInStep

LEMMA RequestPauseKeeps ==
    ASSUME PermitInv, NEW t \in Turns, RequestPause(t)
    PROVE  PermitInv'
<1>1. PermitTypeOK'
  BY SMTT(20) DEF PermitInv, PermitTypeOK, RequestPause, coordinator
<1>2. /\ UNCHANGED <<activeRequestPermits, activeExecutionSlots, waiters, requestPermitHeld,
                     executionSlotHeld, pool, approvedRequestCap, admissionStopped>>
      /\ \A u \in Turns :
           \/ phase'[u] = phase[u]
           \/ phase'[u] \notin {"idle", "claimed", "queued"} /\ phase[u] # "queued"
           \/ phase'[u] = "claimed" /\ phase[u] = "idle"
  BY DEF PermitInv, PermitTypeOK, RequestPause, coordinator
<1>3. Capacity'
  BY <1>2, CapacityUntouched DEF PermitInv
<1>4. InFlightHoldsPermit'
  BY SMTT(20)
     DEF PermitInv, TurnsInStep, PermitTypeOK, InFlightHoldsPermit, PairsInStep,
     RequestPause, coordinator
<1>5. PairsInStep'
  BY SMTT(20)
     DEF PermitInv, TurnsInStep, PermitTypeOK, PairsInStep, At, RequestPause,
     coordinator
<1>6. CondemnedFlagged'
  BY SMTT(20)
     DEF PermitInv, TurnsInStep, PermitTypeOK, CondemnedFlagged, InFlightHoldsPermit,
     RequestPause, coordinator
<1> QED BY <1>1, <1>3, <1>4, <1>5, <1>6 DEF PermitInv, TurnsInStep

LEMMA RecoverKeeps ==
    ASSUME PermitInv, NEW p \in Profiles, Recover(p)
    PROVE  PermitInv'
<1>1. PermitTypeOK'
  BY SMTT(20) DEF PermitInv, PermitTypeOK, Recover, coordinator
<1>2. /\ UNCHANGED <<activeRequestPermits, activeExecutionSlots, waiters, requestPermitHeld,
                     executionSlotHeld, pool, approvedRequestCap, admissionStopped>>
      /\ \A u \in Turns :
           \/ phase'[u] = phase[u]
           \/ phase'[u] \notin {"idle", "claimed", "queued"} /\ phase[u] # "queued"
           \/ phase'[u] = "claimed" /\ phase[u] = "idle"
  BY DEF PermitInv, PermitTypeOK, Recover, coordinator
<1>3. Capacity'
  BY <1>2, CapacityUntouched DEF PermitInv
<1>4. InFlightHoldsPermit'
  BY SMTT(20)
     DEF PermitInv, TurnsInStep, PermitTypeOK, InFlightHoldsPermit, PairsInStep,
     Recover, coordinator
<1>5. PairsInStep'
  BY SMTT(20)
     DEF PermitInv, TurnsInStep, PermitTypeOK, PairsInStep, At, Recover, coordinator
<1>6. CondemnedFlagged'
  BY SMTT(20)
     DEF PermitInv, TurnsInStep, PermitTypeOK, CondemnedFlagged, InFlightHoldsPermit,
     Recover, coordinator
<1> QED BY <1>1, <1>3, <1>4, <1>5, <1>6 DEF PermitInv, TurnsInStep

\* The same under the invariant, when the caps stay as they are.
LEMMA SettlingKeeps ==
    ASSUME PermitInv, UNCHANGED <<pool, approvedRequestCap>>, admissionStopped' \in BOOLEAN,
           NEW w, NEW req, NEW slot, NEW ph,
           Settleable(w, req, slot, ph), Settle(w, req, slot, ph)
    PROVE  Settled(w, req, slot, ph)
<1>1. approvedRequestCap' \in [Lanes -> Nat] /\ PermitTypeOK /\ CapacityAccounted
  BY DEF PermitInv, Capacity, PermitTypeOK
<1>2. \A l \in Lanes : activeRequestPermits[l] <= approvedRequestCap'[l]
  BY DEF PermitInv, Capacity, CapacityAccounted
<1> QED BY <1>1, <1>2, Settling

LEMMA CapacityRefusedKeeps ==
    ASSUME PermitInv, NEW t \in Turns, CapacityRefused(t)
    PROVE  PermitInv'
<1> DEFINE w == <<>>
           req == {}
           slot == {}
           ph == Moved(At("queued") \cup (IF phase[t] = "claimed" THEN {t} ELSE {}), "idle")
<1>1. Queue(w) /\ Waiting(w) = {u \in Turns : ph[u] = "queued"}
  BY EmptyQueue, SMTT(20) DEF PermitInv, PermitTypeOK, At, Moved, CapacityRefused
<1>2. ph \in [Turns -> Phases]
  BY DEF PermitInv, PermitTypeOK, Moved, Phases, Active
<1>3. /\ \A u \in Turns : ph[u] \in {"idle", "claimed", "queued"} =>
                            u \notin executionSlotHeld \ slot
      /\ slot \cap requestPermitHeld \subseteq req
  BY SMTT(20)
     DEF PermitInv, PermitTypeOK, Capacity, CapacityAccounted, TurnsInStep, PairsInStep,
     At, Moved, CapacityRefused, Forget
<1>4. /\ UNCHANGED <<pool, approvedRequestCap>> /\ admissionStopped' \in BOOLEAN
      /\ Settle(w, req, slot, ph)
  BY DEF PermitInv, PermitTypeOK, CapacityRefused, Forget
<1>5. \A u \in Turns :
        ph[u] = IF u \in At("queued") \cup (IF phase[t] = "claimed" THEN {t} ELSE {})
                THEN "idle" ELSE phase[u]
  BY DEF PermitInv, PermitTypeOK, Moved, Phases, Active
<1> HIDE DEF w, req, slot, ph
<1>6. Settled(w, req, slot, ph)
  BY <1>1, <1>2, <1>3, <1>4, SettlingKeeps DEF Settleable
<1>7. PICK g \in SUBSET Turns :
           /\ \A u \in g : ph[u] = "queued"
           /\ admissionStopped' => g = {}
           /\ requestPermitHeld' = (requestPermitHeld \ req) \cup g
           /\ executionSlotHeld' = (executionSlotHeld \ slot) \cup g
           /\ \A u \in Turns : phase'[u] = IF u \in g THEN "granted" ELSE ph[u]
  BY <1>6 DEF Settled
<1>8. PermitTypeOK'
  BY <1>6, SMTT(20)
     DEF PermitInv, PermitTypeOK, Settled, LeaseStates, CapacityRefused, Forget
<1>9. InFlightHoldsPermit'
  BY <1>5, <1>7, SMTT(20)
     DEF PermitInv, TurnsInStep, PermitTypeOK, InFlightHoldsPermit, PairsInStep, At,
     req, CapacityRefused, Forget
<1>10. PairsInStep'
  BY <1>5, <1>7, SMTT(20)
     DEF PermitInv, TurnsInStep, PermitTypeOK, PairsInStep, InFlightHoldsPermit, At,
     req, slot, CapacityRefused, Forget
<1>11. CondemnedFlagged'
  BY <1>5, <1>7, SMTT(20)
     DEF PermitInv, TurnsInStep, PermitTypeOK, CondemnedFlagged, InFlightHoldsPermit,
     At, CapacityRefused, Forget
<1> QED BY <1>6, <1>8, <1>9, <1>10, <1>11 DEF PermitInv, Capacity, TurnsInStep, Settled

LEMMA AcquireRefusedKeeps ==
    ASSUME PermitInv, NEW t \in Turns, Acquire(t), admissionStopped
    PROVE  PermitInv'
<1> DEFINE w == waiters
           req == {}
           slot == {}
           ph == Moved({t}, "idle")
<1>1. Queue(w) /\ Waiting(w) = {u \in Turns : ph[u] = "queued"}
  BY SMTT(20) DEF PermitInv, PermitTypeOK, Capacity, QueueInStep, At, Moved, Acquire
<1>2. ph \in [Turns -> Phases]
  BY DEF PermitInv, PermitTypeOK, Moved, Phases, Active
<1>3. /\ \A u \in Turns : ph[u] \in {"idle", "claimed", "queued"} =>
                            u \notin executionSlotHeld \ slot
      /\ slot \cap requestPermitHeld \subseteq req
  BY SMTT(20)
     DEF PermitInv, PermitTypeOK, Capacity, CapacityAccounted, TurnsInStep, PairsInStep,
     At, Moved, Acquire, Forget
<1>4. /\ UNCHANGED <<pool, approvedRequestCap>> /\ admissionStopped' \in BOOLEAN
      /\ Settle(w, req, slot, ph)
  BY DEF PermitInv, PermitTypeOK, Acquire, Forget
<1>5. \A u \in Turns : ph[u] = IF u \in {t} THEN "idle" ELSE phase[u]
  BY DEF PermitInv, PermitTypeOK, Moved, Phases, Active
<1> HIDE DEF w, req, slot, ph
<1>6. Settled(w, req, slot, ph)
  BY <1>1, <1>2, <1>3, <1>4, SettlingKeeps DEF Settleable
<1>7. PICK g \in SUBSET Turns :
           /\ \A u \in g : ph[u] = "queued"
           /\ admissionStopped' => g = {}
           /\ requestPermitHeld' = (requestPermitHeld \ req) \cup g
           /\ executionSlotHeld' = (executionSlotHeld \ slot) \cup g
           /\ \A u \in Turns : phase'[u] = IF u \in g THEN "granted" ELSE ph[u]
  BY <1>6 DEF Settled
<1>8. PermitTypeOK'
  BY <1>6, SMTT(20) DEF PermitInv, PermitTypeOK, Settled, LeaseStates, Acquire, Forget
<1>9. InFlightHoldsPermit'
  BY <1>5, <1>7, SMTT(20)
     DEF PermitInv, TurnsInStep, PermitTypeOK, InFlightHoldsPermit, PairsInStep, At,
     req, Acquire, Forget
<1>10. PairsInStep'
  BY <1>5, <1>7, SMTT(20)
     DEF PermitInv, TurnsInStep, PermitTypeOK, PairsInStep, InFlightHoldsPermit, At,
     req, slot, Acquire, Forget
<1>11. CondemnedFlagged'
  BY <1>5, <1>7, SMTT(20)
     DEF PermitInv, TurnsInStep, PermitTypeOK, CondemnedFlagged, InFlightHoldsPermit,
     At, Acquire, Forget
<1> QED BY <1>6, <1>8, <1>9, <1>10, <1>11 DEF PermitInv, Capacity, TurnsInStep, Settled

LEMMA AcquireQueuesKeeps ==
    ASSUME PermitInv, NEW t \in Turns, Acquire(t), ~admissionStopped
    PROVE  PermitInv'
<1> DEFINE w == Append(waiters, t)
           req == {}
           slot == {}
           ph == Moved({t}, "queued")
<1>1. Queue(w) /\ Waiting(w) = {u \in Turns : ph[u] = "queued"}
  <2>1. Queue(waiters) /\ Waiting(waiters) = At("queued") /\ t \notin At("queued")
    BY DEF PermitInv, Capacity, QueueInStep, Acquire, At
  <2>2. Queue(w) /\ Waiting(w) = At("queued") \cup {t}
    BY <2>1, JoinQueue
  <2> QED BY <2>2 DEF PermitInv, PermitTypeOK, At, Moved
<1>2. ph \in [Turns -> Phases]
  BY DEF PermitInv, PermitTypeOK, Moved, Phases, Active
<1>3. /\ \A u \in Turns : ph[u] \in {"idle", "claimed", "queued"} =>
                            u \notin executionSlotHeld \ slot
      /\ slot \cap requestPermitHeld \subseteq req
  BY SMTT(20)
     DEF PermitInv, PermitTypeOK, Capacity, CapacityAccounted, TurnsInStep, PairsInStep,
     At, Moved, Acquire
<1>4. /\ UNCHANGED <<pool, approvedRequestCap>> /\ admissionStopped' \in BOOLEAN
      /\ Settle(w, req, slot, ph)
  BY DEF PermitInv, PermitTypeOK, Acquire
<1>5. \A u \in Turns : ph[u] = IF u \in {t} THEN "queued" ELSE phase[u]
  BY DEF PermitInv, PermitTypeOK, Moved, Phases, Active
<1> HIDE DEF w, req, slot, ph
<1>6. Settled(w, req, slot, ph)
  BY <1>1, <1>2, <1>3, <1>4, SettlingKeeps DEF Settleable
<1>7. PICK g \in SUBSET Turns :
           /\ \A u \in g : ph[u] = "queued"
           /\ admissionStopped' => g = {}
           /\ requestPermitHeld' = (requestPermitHeld \ req) \cup g
           /\ executionSlotHeld' = (executionSlotHeld \ slot) \cup g
           /\ \A u \in Turns : phase'[u] = IF u \in g THEN "granted" ELSE ph[u]
  BY <1>6 DEF Settled
<1>8. PermitTypeOK'
  BY <1>6, SMTT(20) DEF PermitInv, PermitTypeOK, Settled, LeaseStates, Acquire
<1>9. InFlightHoldsPermit'
  BY <1>5, <1>7, SMTT(20)
     DEF PermitInv, TurnsInStep, PermitTypeOK, InFlightHoldsPermit, PairsInStep, At,
     req, Acquire
<1>10. PairsInStep'
  BY <1>5, <1>7, SMTT(20)
     DEF PermitInv, TurnsInStep, PermitTypeOK, PairsInStep, InFlightHoldsPermit, At,
     req, slot, Acquire
<1>11. CondemnedFlagged'
  BY <1>5, <1>7, SMTT(20)
     DEF PermitInv, TurnsInStep, PermitTypeOK, CondemnedFlagged, InFlightHoldsPermit,
     At, Acquire
<1> QED BY <1>6, <1>8, <1>9, <1>10, <1>11 DEF PermitInv, Capacity, TurnsInStep, Settled

LEMMA AdmissionWriteFailsKeeps ==
    ASSUME PermitInv, NEW t \in Turns, AdmissionWriteFails(t)
    PROVE  PermitInv'
<1> DEFINE w == Without(waiters, {t})
           req == {t}
           slot == {t}
           ph == Moved({t}, "idle")
<1>1. Queue(w) /\ Waiting(w) = {u \in Turns : ph[u] = "queued"}
  <2>1. Queue(waiters) /\ Waiting(waiters) = At("queued")
    BY DEF PermitInv, Capacity, QueueInStep
  <2>2. Queue(w) /\ Waiting(w) = At("queued") \ {t}
    BY <2>1, WithoutQueue
  <2> QED BY <2>2 DEF PermitInv, PermitTypeOK, At, Moved
<1>2. ph \in [Turns -> Phases]
  BY DEF PermitInv, PermitTypeOK, Moved, Phases, Active
<1>3. /\ \A u \in Turns : ph[u] \in {"idle", "claimed", "queued"} =>
                            u \notin executionSlotHeld \ slot
      /\ slot \cap requestPermitHeld \subseteq req
  BY SMTT(20)
     DEF PermitInv, PermitTypeOK, Capacity, CapacityAccounted, TurnsInStep, PairsInStep,
     At, Moved, AdmissionWriteFails, Forget
<1>4. /\ UNCHANGED <<pool, approvedRequestCap>> /\ admissionStopped' \in BOOLEAN
      /\ Settle(w, req, slot, ph)
  BY DEF PermitInv, PermitTypeOK, AdmissionWriteFails, Forget
<1>5. \A u \in Turns : ph[u] = IF u \in {t} THEN "idle" ELSE phase[u]
  BY DEF PermitInv, PermitTypeOK, Moved, Phases, Active
<1> HIDE DEF w, req, slot, ph
<1>6. Settled(w, req, slot, ph)
  BY <1>1, <1>2, <1>3, <1>4, SettlingKeeps DEF Settleable
<1>7. PICK g \in SUBSET Turns :
           /\ \A u \in g : ph[u] = "queued"
           /\ admissionStopped' => g = {}
           /\ requestPermitHeld' = (requestPermitHeld \ req) \cup g
           /\ executionSlotHeld' = (executionSlotHeld \ slot) \cup g
           /\ \A u \in Turns : phase'[u] = IF u \in g THEN "granted" ELSE ph[u]
  BY <1>6 DEF Settled
<1>8. PermitTypeOK'
  BY <1>6, SMTT(20)
     DEF PermitInv, PermitTypeOK, Settled, LeaseStates, AdmissionWriteFails, Forget
<1>9. InFlightHoldsPermit'
  BY <1>5, <1>7, SMTT(20)
     DEF PermitInv, TurnsInStep, PermitTypeOK, InFlightHoldsPermit, PairsInStep, At,
     req, AdmissionWriteFails, Forget
<1>10. PairsInStep'
  BY <1>5, <1>7, SMTT(20)
     DEF PermitInv, TurnsInStep, PermitTypeOK, PairsInStep, InFlightHoldsPermit, At,
     req, slot, AdmissionWriteFails, Forget
<1>11. CondemnedFlagged'
  BY <1>5, <1>7, SMTT(20)
     DEF PermitInv, TurnsInStep, PermitTypeOK, CondemnedFlagged, InFlightHoldsPermit,
     At, AdmissionWriteFails, Forget
<1> QED BY <1>6, <1>8, <1>9, <1>10, <1>11 DEF PermitInv, Capacity, TurnsInStep, Settled

LEMMA IssueRefusedKeeps ==
    ASSUME PermitInv, NEW t \in Turns, IssueLease(t), fenced
    PROVE  PermitInv'
<1> DEFINE w == waiters
           req == {t}
           slot == {t}
           ph == Moved({t}, "idle")
<1>1. Queue(w) /\ Waiting(w) = {u \in Turns : ph[u] = "queued"}
  BY SMTT(20) DEF PermitInv, PermitTypeOK, Capacity, QueueInStep, At, Moved, IssueLease
<1>2. ph \in [Turns -> Phases]
  BY DEF PermitInv, PermitTypeOK, Moved, Phases, Active
<1>3. /\ \A u \in Turns : ph[u] \in {"idle", "claimed", "queued"} =>
                            u \notin executionSlotHeld \ slot
      /\ slot \cap requestPermitHeld \subseteq req
  BY SMTT(20)
     DEF PermitInv, PermitTypeOK, Capacity, CapacityAccounted, TurnsInStep, PairsInStep,
     At, Moved, IssueLease, Forget
<1>4. /\ UNCHANGED <<pool, approvedRequestCap>> /\ admissionStopped' \in BOOLEAN
      /\ Settle(w, req, slot, ph)
  BY DEF PermitInv, PermitTypeOK, IssueLease, Forget
<1>5. \A u \in Turns : ph[u] = IF u \in {t} THEN "idle" ELSE phase[u]
  BY DEF PermitInv, PermitTypeOK, Moved, Phases, Active
<1> HIDE DEF w, req, slot, ph
<1>6. Settled(w, req, slot, ph)
  BY <1>1, <1>2, <1>3, <1>4, SettlingKeeps DEF Settleable
<1>7. PICK g \in SUBSET Turns :
           /\ \A u \in g : ph[u] = "queued"
           /\ admissionStopped' => g = {}
           /\ requestPermitHeld' = (requestPermitHeld \ req) \cup g
           /\ executionSlotHeld' = (executionSlotHeld \ slot) \cup g
           /\ \A u \in Turns : phase'[u] = IF u \in g THEN "granted" ELSE ph[u]
  BY <1>6 DEF Settled
<1>8. PermitTypeOK'
  BY <1>6, SMTT(20)
     DEF PermitInv, PermitTypeOK, Settled, LeaseStates, IssueLease, Forget
<1>9. InFlightHoldsPermit'
  BY <1>5, <1>7, SMTT(20)
     DEF PermitInv, TurnsInStep, PermitTypeOK, InFlightHoldsPermit, PairsInStep, At,
     req, IssueLease, Forget
<1>10. PairsInStep'
  BY <1>5, <1>7, SMTT(20)
     DEF PermitInv, TurnsInStep, PermitTypeOK, PairsInStep, InFlightHoldsPermit, At,
     req, slot, IssueLease, Forget
<1>11. CondemnedFlagged'
  BY <1>5, <1>7, SMTT(20)
     DEF PermitInv, TurnsInStep, PermitTypeOK, CondemnedFlagged, InFlightHoldsPermit,
     At, IssueLease, Forget
<1> QED BY <1>6, <1>8, <1>9, <1>10, <1>11 DEF PermitInv, Capacity, TurnsInStep, Settled

LEMMA IssueLeaseKeeps ==
    ASSUME PermitInv, NEW t \in Turns, IssueLease(t), ~fenced
    PROVE  PermitInv'
<1> DEFINE w == waiters
           req == {}
           slot == {}
           ph == Moved({t}, "leased")
<1>1. Queue(w) /\ Waiting(w) = {u \in Turns : ph[u] = "queued"}
  BY SMTT(20) DEF PermitInv, PermitTypeOK, Capacity, QueueInStep, At, Moved, IssueLease
<1>2. ph \in [Turns -> Phases]
  BY DEF PermitInv, PermitTypeOK, Moved, Phases, Active
<1>3. /\ \A u \in Turns : ph[u] \in {"idle", "claimed", "queued"} =>
                            u \notin executionSlotHeld \ slot
      /\ slot \cap requestPermitHeld \subseteq req
  BY SMTT(20)
     DEF PermitInv, PermitTypeOK, Capacity, CapacityAccounted, TurnsInStep, PairsInStep,
     At, Moved, IssueLease
<1>4. /\ UNCHANGED <<pool, approvedRequestCap>> /\ admissionStopped' \in BOOLEAN
      /\ Settle(w, req, slot, ph)
  BY DEF PermitInv, PermitTypeOK, IssueLease
<1>5. \A u \in Turns : ph[u] = IF u \in {t} THEN "leased" ELSE phase[u]
  BY DEF PermitInv, PermitTypeOK, Moved, Phases, Active
<1> HIDE DEF w, req, slot, ph
<1>6. Settled(w, req, slot, ph)
  BY <1>1, <1>2, <1>3, <1>4, SettlingKeeps DEF Settleable
<1>7. PICK g \in SUBSET Turns :
           /\ \A u \in g : ph[u] = "queued"
           /\ admissionStopped' => g = {}
           /\ requestPermitHeld' = (requestPermitHeld \ req) \cup g
           /\ executionSlotHeld' = (executionSlotHeld \ slot) \cup g
           /\ \A u \in Turns : phase'[u] = IF u \in g THEN "granted" ELSE ph[u]
  BY <1>6 DEF Settled
<1>8. PermitTypeOK'
  <2>1. lease' \in [Turns -> LeaseStates] /\ attempt' \in [Turns -> {"none", "in_flight", "terminal"}]
    BY DEF PermitInv, PermitTypeOK, LeaseStates, IssueLease
  <2>2. /\ activeRequestPermits' \in [Lanes -> Nat] /\ activeExecutionSlots' \in Nat
        /\ phase' \in [Turns -> Phases] /\ waiters' \in Seq(Turns)
        /\ requestPermitHeld' \subseteq Turns /\ executionSlotHeld' \subseteq Turns
    BY <1>6 DEF Settled
  <2> QED BY <2>1, <2>2 DEF PermitInv, PermitTypeOK, IssueLease
<1>9. InFlightHoldsPermit'
  BY <1>5, <1>7, SMTT(20)
     DEF PermitInv, TurnsInStep, PermitTypeOK, InFlightHoldsPermit, PairsInStep, At,
     req, IssueLease
<1>10. PairsInStep'
  BY <1>5, <1>7, SMTT(20)
     DEF PermitInv, TurnsInStep, PermitTypeOK, PairsInStep, InFlightHoldsPermit, At,
     req, slot, IssueLease
<1>11. CondemnedFlagged'
  BY <1>5, <1>7, SMTT(20)
     DEF PermitInv, TurnsInStep, PermitTypeOK, CondemnedFlagged, InFlightHoldsPermit,
     At, IssueLease
<1> QED BY <1>6, <1>8, <1>9, <1>10, <1>11 DEF PermitInv, Capacity, TurnsInStep, Settled

LEMMA RejectUnstartedKeeps ==
    ASSUME PermitInv, NEW t \in Turns, RejectUnstarted(t)
    PROVE  PermitInv'
<1> DEFINE w == waiters
           req == {t}
           slot == {}
           ph == Moved({t}, "captured")
<1>1. Queue(w) /\ Waiting(w) = {u \in Turns : ph[u] = "queued"}
  BY SMTT(20)
     DEF PermitInv, PermitTypeOK, Capacity, QueueInStep, At, Moved, RejectUnstarted
<1>2. ph \in [Turns -> Phases]
  BY DEF PermitInv, PermitTypeOK, Moved, Phases, Active
<1>3. /\ \A u \in Turns : ph[u] \in {"idle", "claimed", "queued"} =>
                            u \notin executionSlotHeld \ slot
      /\ slot \cap requestPermitHeld \subseteq req
  BY SMTT(20)
     DEF PermitInv, PermitTypeOK, Capacity, CapacityAccounted, TurnsInStep, PairsInStep,
     At, Moved, RejectUnstarted
<1>4. /\ UNCHANGED <<pool, approvedRequestCap>> /\ admissionStopped' \in BOOLEAN
      /\ Settle(w, req, slot, ph)
  BY DEF PermitInv, PermitTypeOK, RejectUnstarted
<1>5. \A u \in Turns : ph[u] = IF u \in {t} THEN "captured" ELSE phase[u]
  BY DEF PermitInv, PermitTypeOK, Moved, Phases, Active
<1> HIDE DEF w, req, slot, ph
<1>6. Settled(w, req, slot, ph)
  BY <1>1, <1>2, <1>3, <1>4, SettlingKeeps DEF Settleable
<1>7. PICK g \in SUBSET Turns :
           /\ \A u \in g : ph[u] = "queued"
           /\ admissionStopped' => g = {}
           /\ requestPermitHeld' = (requestPermitHeld \ req) \cup g
           /\ executionSlotHeld' = (executionSlotHeld \ slot) \cup g
           /\ \A u \in Turns : phase'[u] = IF u \in g THEN "granted" ELSE ph[u]
  BY <1>6 DEF Settled
<1>8. PermitTypeOK'
  <2>1. lease' \in [Turns -> LeaseStates] /\ attempt' \in [Turns -> {"none", "in_flight", "terminal"}]
    BY DEF PermitInv, PermitTypeOK, LeaseStates, RejectUnstarted
  <2>2. /\ activeRequestPermits' \in [Lanes -> Nat] /\ activeExecutionSlots' \in Nat
        /\ phase' \in [Turns -> Phases] /\ waiters' \in Seq(Turns)
        /\ requestPermitHeld' \subseteq Turns /\ executionSlotHeld' \subseteq Turns
    BY <1>6 DEF Settled
  <2> QED BY <2>1, <2>2 DEF PermitInv, PermitTypeOK, RejectUnstarted
<1>9. InFlightHoldsPermit'
  BY <1>5, <1>7, SMTT(20)
     DEF PermitInv, TurnsInStep, PermitTypeOK, InFlightHoldsPermit, PairsInStep, At,
     req, RejectUnstarted
<1>10. PairsInStep'
  BY <1>5, <1>7, SMTT(20)
     DEF PermitInv, TurnsInStep, PermitTypeOK, PairsInStep, InFlightHoldsPermit, At,
     req, slot, RejectUnstarted
<1>11. CondemnedFlagged'
  BY <1>5, <1>7, SMTT(20)
     DEF PermitInv, TurnsInStep, PermitTypeOK, CondemnedFlagged, InFlightHoldsPermit,
     At, RejectUnstarted
<1> QED BY <1>6, <1>8, <1>9, <1>10, <1>11 DEF PermitInv, Capacity, TurnsInStep, Settled

LEMMA CancelBeforeCallKeeps ==
    ASSUME PermitInv, NEW t \in Turns, CancelBeforeCall(t)
    PROVE  PermitInv'
<1> DEFINE w == waiters
           req == {t}
           slot == {}
           ph == Moved({t}, "captured")
<1>1. Queue(w) /\ Waiting(w) = {u \in Turns : ph[u] = "queued"}
  BY SMTT(20)
     DEF PermitInv, PermitTypeOK, Capacity, QueueInStep, At, Moved, CancelBeforeCall
<1>2. ph \in [Turns -> Phases]
  BY DEF PermitInv, PermitTypeOK, Moved, Phases, Active
<1>3. /\ \A u \in Turns : ph[u] \in {"idle", "claimed", "queued"} =>
                            u \notin executionSlotHeld \ slot
      /\ slot \cap requestPermitHeld \subseteq req
  BY SMTT(20)
     DEF PermitInv, PermitTypeOK, Capacity, CapacityAccounted, TurnsInStep, PairsInStep,
     At, Moved, CancelBeforeCall
<1>4. /\ UNCHANGED <<pool, approvedRequestCap>> /\ admissionStopped' \in BOOLEAN
      /\ Settle(w, req, slot, ph)
  BY DEF PermitInv, PermitTypeOK, CancelBeforeCall
<1>5. \A u \in Turns : ph[u] = IF u \in {t} THEN "captured" ELSE phase[u]
  BY DEF PermitInv, PermitTypeOK, Moved, Phases, Active
<1> HIDE DEF w, req, slot, ph
<1>6. Settled(w, req, slot, ph)
  BY <1>1, <1>2, <1>3, <1>4, SettlingKeeps DEF Settleable
<1>7. PICK g \in SUBSET Turns :
           /\ \A u \in g : ph[u] = "queued"
           /\ admissionStopped' => g = {}
           /\ requestPermitHeld' = (requestPermitHeld \ req) \cup g
           /\ executionSlotHeld' = (executionSlotHeld \ slot) \cup g
           /\ \A u \in Turns : phase'[u] = IF u \in g THEN "granted" ELSE ph[u]
  BY <1>6 DEF Settled
<1>8. PermitTypeOK'
  <2>1. lease' \in [Turns -> LeaseStates] /\ attempt' \in [Turns -> {"none", "in_flight", "terminal"}]
    BY DEF PermitInv, PermitTypeOK, LeaseStates, CancelBeforeCall
  <2>2. /\ activeRequestPermits' \in [Lanes -> Nat] /\ activeExecutionSlots' \in Nat
        /\ phase' \in [Turns -> Phases] /\ waiters' \in Seq(Turns)
        /\ requestPermitHeld' \subseteq Turns /\ executionSlotHeld' \subseteq Turns
    BY <1>6 DEF Settled
  <2> QED BY <2>1, <2>2 DEF PermitInv, PermitTypeOK, CancelBeforeCall
<1>9. InFlightHoldsPermit'
  BY <1>5, <1>7, SMTT(20)
     DEF PermitInv, TurnsInStep, PermitTypeOK, InFlightHoldsPermit, PairsInStep, At,
     req, CancelBeforeCall
<1>10. PairsInStep'
  BY <1>5, <1>7, SMTT(20)
     DEF PermitInv, TurnsInStep, PermitTypeOK, PairsInStep, InFlightHoldsPermit, At,
     req, slot, CancelBeforeCall
<1>11. CondemnedFlagged'
  BY <1>5, <1>7, SMTT(20)
     DEF PermitInv, TurnsInStep, PermitTypeOK, CondemnedFlagged, InFlightHoldsPermit,
     At, CancelBeforeCall
<1> QED BY <1>6, <1>8, <1>9, <1>10, <1>11 DEF PermitInv, Capacity, TurnsInStep, Settled

LEMMA BeginFenceKeeps ==
    ASSUME PermitInv, BeginFence
    PROVE  PermitInv'
<1> DEFINE w == <<>>
           req == Turns \ At("granted")
           slot == Turns \ At("granted")
           ph == Moved(At("queued"), "idle")
<1>1. Queue(w) /\ Waiting(w) = {u \in Turns : ph[u] = "queued"}
  BY EmptyQueue, SMTT(20) DEF PermitInv, PermitTypeOK, At, Moved, BeginFence
<1>2. ph \in [Turns -> Phases]
  BY DEF PermitInv, PermitTypeOK, Moved, Phases, Active
<1>3. /\ \A u \in Turns : ph[u] \in {"idle", "claimed", "queued"} =>
                            u \notin executionSlotHeld \ slot
      /\ slot \cap requestPermitHeld \subseteq req
  BY SMTT(20)
     DEF PermitInv, PermitTypeOK, Capacity, CapacityAccounted, TurnsInStep, PairsInStep,
     At, Moved, BeginFence, Active
<1>4. /\ UNCHANGED <<pool, approvedRequestCap>> /\ admissionStopped' \in BOOLEAN
      /\ Settle(w, req, slot, ph)
  BY DEF PermitInv, PermitTypeOK, BeginFence, Active
<1>5. \A u \in Turns : ph[u] = IF u \in At("queued") THEN "idle" ELSE phase[u]
  BY DEF PermitInv, PermitTypeOK, Moved, Phases, Active
<1> HIDE DEF w, req, slot, ph
<1>6. Settled(w, req, slot, ph)
  BY <1>1, <1>2, <1>3, <1>4, SettlingKeeps DEF Settleable
<1>7. PICK g \in SUBSET Turns :
           /\ \A u \in g : ph[u] = "queued"
           /\ admissionStopped' => g = {}
           /\ requestPermitHeld' = (requestPermitHeld \ req) \cup g
           /\ executionSlotHeld' = (executionSlotHeld \ slot) \cup g
           /\ \A u \in Turns : phase'[u] = IF u \in g THEN "granted" ELSE ph[u]
  BY <1>6 DEF Settled
<1>8. PermitTypeOK'
  BY <1>6, SMTT(20)
     DEF PermitInv, PermitTypeOK, Settled, LeaseStates, BeginFence, Active
<1>9. InFlightHoldsPermit'
  BY <1>5, <1>7, SMTT(20)
     DEF PermitInv, TurnsInStep, PermitTypeOK, InFlightHoldsPermit, PairsInStep, At,
     req, BeginFence, Active
<1>10. PairsInStep'
  BY <1>5, <1>7, SMTT(20)
     DEF PermitInv, TurnsInStep, PermitTypeOK, PairsInStep, InFlightHoldsPermit, At,
     req, slot, BeginFence, Active
<1>11. CondemnedFlagged'
  BY <1>5, <1>7, SMTT(20)
     DEF PermitInv, TurnsInStep, PermitTypeOK, CondemnedFlagged, InFlightHoldsPermit,
     At, BeginFence, Active
<1> QED BY <1>6, <1>8, <1>9, <1>10, <1>11 DEF PermitInv, Capacity, TurnsInStep, Settled

LEMMA FencedTurnEndsKeeps ==
    ASSUME PermitInv, NEW t \in Turns, FencedTurnEnds(t)
    PROVE  PermitInv'
<1> DEFINE w == waiters
           req == {}
           slot == {}
           ph == Moved({t}, "idle")
<1>1. Queue(w) /\ Waiting(w) = {u \in Turns : ph[u] = "queued"}
  BY SMTT(20)
     DEF PermitInv, PermitTypeOK, Capacity, QueueInStep, At, Moved, FencedTurnEnds,
     Active
<1>2. ph \in [Turns -> Phases]
  BY DEF PermitInv, PermitTypeOK, Moved, Phases, Active
<1>3. /\ \A u \in Turns : ph[u] \in {"idle", "claimed", "queued"} =>
                            u \notin executionSlotHeld \ slot
      /\ slot \cap requestPermitHeld \subseteq req
  BY SMTT(20)
     DEF PermitInv, PermitTypeOK, Capacity, CapacityAccounted, TurnsInStep, PairsInStep,
     At, Moved, FencedTurnEnds, Forget, Active
<1>4. /\ UNCHANGED <<pool, approvedRequestCap>> /\ admissionStopped' \in BOOLEAN
      /\ Settle(w, req, slot, ph)
  BY DEF PermitInv, PermitTypeOK, FencedTurnEnds, Forget, Active
<1>5. \A u \in Turns : ph[u] = IF u \in {t} THEN "idle" ELSE phase[u]
  BY DEF PermitInv, PermitTypeOK, Moved, Phases, Active
<1> HIDE DEF w, req, slot, ph
<1>6. Settled(w, req, slot, ph)
  BY <1>1, <1>2, <1>3, <1>4, SettlingKeeps DEF Settleable
<1>7. PICK g \in SUBSET Turns :
           /\ \A u \in g : ph[u] = "queued"
           /\ admissionStopped' => g = {}
           /\ requestPermitHeld' = (requestPermitHeld \ req) \cup g
           /\ executionSlotHeld' = (executionSlotHeld \ slot) \cup g
           /\ \A u \in Turns : phase'[u] = IF u \in g THEN "granted" ELSE ph[u]
  BY <1>6 DEF Settled
<1>8. PermitTypeOK'
  BY <1>6, SMTT(20)
     DEF PermitInv, PermitTypeOK, Settled, LeaseStates, FencedTurnEnds, Forget, Active
<1>9. InFlightHoldsPermit'
  BY <1>5, <1>7, SMTT(20)
     DEF PermitInv, TurnsInStep, PermitTypeOK, InFlightHoldsPermit, PairsInStep, At,
     req, FencedTurnEnds, Forget, Active
<1>10. PairsInStep'
  BY <1>5, <1>7, SMTT(20)
     DEF PermitInv, TurnsInStep, PermitTypeOK, PairsInStep, InFlightHoldsPermit, At,
     req, slot, FencedTurnEnds, Forget, Active
<1>11. CondemnedFlagged'
  BY <1>5, <1>7, SMTT(20)
     DEF PermitInv, TurnsInStep, PermitTypeOK, CondemnedFlagged, InFlightHoldsPermit,
     At, FencedTurnEnds, Forget, Active
<1> QED BY <1>6, <1>8, <1>9, <1>10, <1>11 DEF PermitInv, Capacity, TurnsInStep, Settled

LEMMA StopKeeps ==
    ASSUME PermitInv, Stop
    PROVE  PermitInv'
<1> DEFINE w == <<>>
           req == {}
           slot == {}
           ph == Moved(At("queued"), "idle")
<1>1. Queue(w) /\ Waiting(w) = {u \in Turns : ph[u] = "queued"}
  BY EmptyQueue, SMTT(20) DEF PermitInv, PermitTypeOK, At, Moved, Stop
<1>2. ph \in [Turns -> Phases]
  BY DEF PermitInv, PermitTypeOK, Moved, Phases, Active
<1>3. /\ \A u \in Turns : ph[u] \in {"idle", "claimed", "queued"} =>
                            u \notin executionSlotHeld \ slot
      /\ slot \cap requestPermitHeld \subseteq req
  BY SMTT(20)
     DEF PermitInv, PermitTypeOK, Capacity, CapacityAccounted, TurnsInStep, PairsInStep,
     At, Moved, Stop, Forget
<1>4. /\ UNCHANGED <<pool, approvedRequestCap>> /\ admissionStopped' \in BOOLEAN
      /\ Settle(w, req, slot, ph)
  BY DEF PermitInv, PermitTypeOK, Stop, Forget
<1>5. \A u \in Turns : ph[u] = IF u \in At("queued") THEN "idle" ELSE phase[u]
  BY DEF PermitInv, PermitTypeOK, Moved, Phases, Active
<1> HIDE DEF w, req, slot, ph
<1>6. Settled(w, req, slot, ph)
  BY <1>1, <1>2, <1>3, <1>4, SettlingKeeps DEF Settleable
<1>7. PICK g \in SUBSET Turns :
           /\ \A u \in g : ph[u] = "queued"
           /\ admissionStopped' => g = {}
           /\ requestPermitHeld' = (requestPermitHeld \ req) \cup g
           /\ executionSlotHeld' = (executionSlotHeld \ slot) \cup g
           /\ \A u \in Turns : phase'[u] = IF u \in g THEN "granted" ELSE ph[u]
  BY <1>6 DEF Settled
<1>8. PermitTypeOK'
  BY <1>6, SMTT(20) DEF PermitInv, PermitTypeOK, Settled, LeaseStates, Stop, Forget
<1>9. InFlightHoldsPermit'
  BY <1>5, <1>7, SMTT(20)
     DEF PermitInv, TurnsInStep, PermitTypeOK, InFlightHoldsPermit, PairsInStep, At,
     req, Stop, Forget
<1>10. PairsInStep'
  BY <1>5, <1>7, SMTT(20)
     DEF PermitInv, TurnsInStep, PermitTypeOK, PairsInStep, InFlightHoldsPermit, At,
     req, slot, Stop, Forget
<1>11. CondemnedFlagged'
  BY <1>5, <1>7, SMTT(20)
     DEF PermitInv, TurnsInStep, PermitTypeOK, CondemnedFlagged, InFlightHoldsPermit,
     At, Stop, Forget
<1> QED BY <1>6, <1>8, <1>9, <1>10, <1>11 DEF PermitInv, Capacity, TurnsInStep, Settled

LEMMA TerminalizeAckedKeeps ==
    ASSUME PermitInv, NEW t \in Turns, TerminalizeAcked(t), phase[t] # "blocking"
    PROVE  PermitInv'
<1> DEFINE w == waiters
           req == {t}
           slot == {}
           ph == Moved({t}, "captured")
<1>1. Queue(w) /\ Waiting(w) = {u \in Turns : ph[u] = "queued"}
  BY SMTT(20)
     DEF PermitInv, PermitTypeOK, Capacity, QueueInStep, At, Moved, TerminalizeAcked
<1>2. ph \in [Turns -> Phases]
  BY DEF PermitInv, PermitTypeOK, Moved, Phases, Active
<1>3. /\ \A u \in Turns : ph[u] \in {"idle", "claimed", "queued"} =>
                            u \notin executionSlotHeld \ slot
      /\ slot \cap requestPermitHeld \subseteq req
  BY SMTT(20)
     DEF PermitInv, PermitTypeOK, Capacity, CapacityAccounted, TurnsInStep, PairsInStep,
     At, Moved, TerminalizeAcked
<1>4. /\ UNCHANGED <<pool, approvedRequestCap>> /\ admissionStopped' \in BOOLEAN
      /\ Settle(w, req, slot, ph)
  BY DEF PermitInv, PermitTypeOK, TerminalizeAcked
<1>5. \A u \in Turns : ph[u] = IF u \in {t} THEN "captured" ELSE phase[u]
  BY DEF PermitInv, PermitTypeOK, Moved, Phases, Active
<1> HIDE DEF w, req, slot, ph
<1>6. Settled(w, req, slot, ph)
  BY <1>1, <1>2, <1>3, <1>4, SettlingKeeps DEF Settleable
<1>7. PICK g \in SUBSET Turns :
           /\ \A u \in g : ph[u] = "queued"
           /\ admissionStopped' => g = {}
           /\ requestPermitHeld' = (requestPermitHeld \ req) \cup g
           /\ executionSlotHeld' = (executionSlotHeld \ slot) \cup g
           /\ \A u \in Turns : phase'[u] = IF u \in g THEN "granted" ELSE ph[u]
  BY <1>6 DEF Settled
<1>8. PermitTypeOK'
  BY <1>6, SMTT(20) DEF PermitInv, PermitTypeOK, Settled, LeaseStates, TerminalizeAcked
<1>9. InFlightHoldsPermit'
  BY <1>5, <1>7, SMTT(20)
     DEF PermitInv, TurnsInStep, PermitTypeOK, InFlightHoldsPermit, PairsInStep, At,
     req, TerminalizeAcked
<1>10. PairsInStep'
  BY <1>5, <1>7, SMTT(20)
     DEF PermitInv, TurnsInStep, PermitTypeOK, PairsInStep, InFlightHoldsPermit, At,
     req, slot, TerminalizeAcked
<1>11. CondemnedFlagged'
  BY <1>5, <1>7, SMTT(20)
     DEF PermitInv, TurnsInStep, PermitTypeOK, CondemnedFlagged, InFlightHoldsPermit,
     At, TerminalizeAcked
<1> QED BY <1>6, <1>8, <1>9, <1>10, <1>11 DEF PermitInv, Capacity, TurnsInStep, Settled

LEMMA BlockingAckedKeeps ==
    ASSUME PermitInv, NEW t \in Turns, TerminalizeAcked(t), phase[t] = "blocking"
    PROVE  PermitInv'
<1> DEFINE queued == {u \in At("queued") : ProfileOfTurn(u) = ProfileOfTurn(t)}
           w == Without(waiters, queued)
           req == {t}
           slot == {}
           ph == [Moved(queued, "idle") EXCEPT ![t] = "captured"]
<1>1. Queue(w) /\ Waiting(w) = {u \in Turns : ph[u] = "queued"}
  <2>1. Queue(waiters) /\ Waiting(waiters) = At("queued")
    BY DEF PermitInv, Capacity, QueueInStep
  <2>2. Queue(w) /\ Waiting(w) = At("queued") \ queued
    BY <2>1, WithoutQueue
  <2> QED BY <2>2 DEF PermitInv, PermitTypeOK, At, Moved
<1>2. ph \in [Turns -> Phases]
  BY DEF PermitInv, PermitTypeOK, Moved, Phases, Active
<1>3. /\ \A u \in Turns : ph[u] \in {"idle", "claimed", "queued"} =>
                            u \notin executionSlotHeld \ slot
      /\ slot \cap requestPermitHeld \subseteq req
  BY SMTT(20)
     DEF PermitInv, PermitTypeOK, Capacity, CapacityAccounted, TurnsInStep, PairsInStep,
     At, Moved, TerminalizeAcked, AbortProfile, Active, queued
<1>4. /\ UNCHANGED <<pool, approvedRequestCap>> /\ admissionStopped' \in BOOLEAN
      /\ Settle(w, req, slot, ph)
  BY DEF PermitInv, PermitTypeOK, TerminalizeAcked, AbortProfile, Active, queued
<1>5. \A u \in Turns : ph[u] = IF u = t THEN "captured" ELSE IF u \in queued THEN "idle" ELSE phase[u]
  BY DEF PermitInv, PermitTypeOK, Moved, Phases, Active
<1> HIDE DEF w, req, slot, ph
<1>6. Settled(w, req, slot, ph)
  BY <1>1, <1>2, <1>3, <1>4, SettlingKeeps DEF Settleable
<1>7. PICK g \in SUBSET Turns :
           /\ \A u \in g : ph[u] = "queued"
           /\ admissionStopped' => g = {}
           /\ requestPermitHeld' = (requestPermitHeld \ req) \cup g
           /\ executionSlotHeld' = (executionSlotHeld \ slot) \cup g
           /\ \A u \in Turns : phase'[u] = IF u \in g THEN "granted" ELSE ph[u]
  BY <1>6 DEF Settled
<1>8. PermitTypeOK'
  BY <1>6, SMTT(20)
     DEF PermitInv, PermitTypeOK, Settled, LeaseStates, TerminalizeAcked, AbortProfile,
     Active, queued
<1>9. InFlightHoldsPermit'
  BY <1>5, <1>7, SMTT(20)
     DEF PermitInv, TurnsInStep, PermitTypeOK, InFlightHoldsPermit, PairsInStep, At,
     req, TerminalizeAcked, AbortProfile, Active, queued
<1>10. PairsInStep'
  BY <1>5, <1>7, SMTT(20)
     DEF PermitInv, TurnsInStep, PermitTypeOK, PairsInStep, InFlightHoldsPermit, At,
     req, slot, TerminalizeAcked, AbortProfile, Active, queued
<1>11. CondemnedFlagged'
  BY <1>5, <1>7, SMTT(20)
     DEF PermitInv, TurnsInStep, PermitTypeOK, CondemnedFlagged, InFlightHoldsPermit,
     At, TerminalizeAcked, AbortProfile, Active, queued
<1> QED BY <1>6, <1>8, <1>9, <1>10, <1>11 DEF PermitInv, Capacity, TurnsInStep, Settled

LEMMA FinishTurnKeeps ==
    ASSUME PermitInv, NEW t \in Turns, FinishTurn(t)
    PROVE  PermitInv'
<1> DEFINE w == waiters
           req == {}
           slot == {t}
           ph == Moved({t}, "idle")
<1>1. Queue(w) /\ Waiting(w) = {u \in Turns : ph[u] = "queued"}
  BY SMTT(20) DEF PermitInv, PermitTypeOK, Capacity, QueueInStep, At, Moved, FinishTurn
<1>2. ph \in [Turns -> Phases]
  BY DEF PermitInv, PermitTypeOK, Moved, Phases, Active
<1>3. /\ \A u \in Turns : ph[u] \in {"idle", "claimed", "queued"} =>
                            u \notin executionSlotHeld \ slot
      /\ slot \cap requestPermitHeld \subseteq req
  BY SMTT(20)
     DEF PermitInv, PermitTypeOK, Capacity, CapacityAccounted, TurnsInStep, PairsInStep,
     At, Moved, FinishTurn, Forget
<1>4. /\ UNCHANGED <<pool, approvedRequestCap>> /\ admissionStopped' \in BOOLEAN
      /\ Settle(w, req, slot, ph)
  BY DEF PermitInv, PermitTypeOK, FinishTurn, Forget
<1>5. \A u \in Turns : ph[u] = IF u \in {t} THEN "idle" ELSE phase[u]
  BY DEF PermitInv, PermitTypeOK, Moved, Phases, Active
<1> HIDE DEF w, req, slot, ph
<1>6. Settled(w, req, slot, ph)
  BY <1>1, <1>2, <1>3, <1>4, SettlingKeeps DEF Settleable
<1>7. PICK g \in SUBSET Turns :
           /\ \A u \in g : ph[u] = "queued"
           /\ admissionStopped' => g = {}
           /\ requestPermitHeld' = (requestPermitHeld \ req) \cup g
           /\ executionSlotHeld' = (executionSlotHeld \ slot) \cup g
           /\ \A u \in Turns : phase'[u] = IF u \in g THEN "granted" ELSE ph[u]
  BY <1>6 DEF Settled
<1>8. PermitTypeOK'
  BY <1>6, SMTT(20)
     DEF PermitInv, PermitTypeOK, Settled, LeaseStates, FinishTurn, Forget
<1>9. InFlightHoldsPermit'
  BY <1>5, <1>7, SMTT(20)
     DEF PermitInv, TurnsInStep, PermitTypeOK, InFlightHoldsPermit, PairsInStep, At,
     req, FinishTurn, Forget
<1>10. PairsInStep'
  BY <1>5, <1>7, SMTT(20)
     DEF PermitInv, TurnsInStep, PermitTypeOK, PairsInStep, InFlightHoldsPermit, At,
     req, slot, FinishTurn, Forget
<1>11. CondemnedFlagged'
  BY <1>5, <1>7, SMTT(20)
     DEF PermitInv, TurnsInStep, PermitTypeOK, CondemnedFlagged, InFlightHoldsPermit,
     At, FinishTurn, Forget
<1> QED BY <1>6, <1>8, <1>9, <1>10, <1>11 DEF PermitInv, Capacity, TurnsInStep, Settled

LEMMA ReleaseUnusedLeaseKeeps ==
    ASSUME PermitInv, NEW t \in Turns, ReleaseUnusedLease(t)
    PROVE  PermitInv'
<1> DEFINE w == waiters
           req == {t}
           slot == {t}
           ph == Moved({t}, "idle")
<1>1. Queue(w) /\ Waiting(w) = {u \in Turns : ph[u] = "queued"}
  BY SMTT(20) DEF PermitInv, PermitTypeOK, Capacity, QueueInStep, At, Moved, ReleaseUnusedLease
<1>2. ph \in [Turns -> Phases]
  BY DEF PermitInv, PermitTypeOK, Moved, Phases, Active
<1>3. /\ \A u \in Turns : ph[u] \in {"idle", "claimed", "queued"} =>
                            u \notin executionSlotHeld \ slot
      /\ slot \cap requestPermitHeld \subseteq req
  BY SMTT(20)
     DEF PermitInv, PermitTypeOK, Capacity, CapacityAccounted, TurnsInStep, PairsInStep,
     At, Moved, ReleaseUnusedLease, Forget
<1>4. /\ UNCHANGED <<pool, approvedRequestCap>> /\ admissionStopped' \in BOOLEAN
      /\ Settle(w, req, slot, ph)
  BY DEF PermitInv, PermitTypeOK, ReleaseUnusedLease, Forget
<1>5. \A u \in Turns : ph[u] = IF u \in {t} THEN "idle" ELSE phase[u]
  BY DEF PermitInv, PermitTypeOK, Moved, Phases, Active
<1> HIDE DEF w, req, slot, ph
<1>6. Settled(w, req, slot, ph)
  BY <1>1, <1>2, <1>3, <1>4, SettlingKeeps DEF Settleable
<1>7. PICK g \in SUBSET Turns :
           /\ \A u \in g : ph[u] = "queued"
           /\ admissionStopped' => g = {}
           /\ requestPermitHeld' = (requestPermitHeld \ req) \cup g
           /\ executionSlotHeld' = (executionSlotHeld \ slot) \cup g
           /\ \A u \in Turns : phase'[u] = IF u \in g THEN "granted" ELSE ph[u]
  BY <1>6 DEF Settled
<1>8. PermitTypeOK'
  BY <1>6, SMTT(20)
     DEF PermitInv, PermitTypeOK, Settled, LeaseStates, ReleaseUnusedLease, Forget
<1>9. InFlightHoldsPermit'
  BY <1>5, <1>7, SMTT(20)
     DEF PermitInv, TurnsInStep, PermitTypeOK, InFlightHoldsPermit, PairsInStep, At,
     req, ReleaseUnusedLease, Forget
<1>10. PairsInStep'
  BY <1>5, <1>7, SMTT(20)
     DEF PermitInv, TurnsInStep, PermitTypeOK, PairsInStep, InFlightHoldsPermit, At,
     req, slot, ReleaseUnusedLease, Forget
<1>11. CondemnedFlagged'
  BY <1>5, <1>7, SMTT(20)
     DEF PermitInv, TurnsInStep, PermitTypeOK, CondemnedFlagged, InFlightHoldsPermit,
     At, ReleaseUnusedLease, Forget
<1> QED BY <1>6, <1>8, <1>9, <1>10, <1>11 DEF PermitInv, Capacity, TurnsInStep, Settled

LEMMA ConfigureRequestPermitLaneKeeps ==
    ASSUME PermitInv, NEW l \in Lanes, NEW c \in 1 .. pool.cap[l], ConfigureRequestPermitLane(l, c)
    PROVE  PermitInv'
<1>1. pool \in [slots : Nat \ {0}, cap : [Lanes -> Nat \ {0}]]
  BY PermitAssumption DEF PermitInv, PermitTypeOK
<1>2. c \in Nat /\ c <= pool.cap[l]
  BY <1>1
<1>3. /\ approvedRequestCap' \in [Lanes -> Nat]
      /\ \A k \in Lanes : approvedRequestCap'[k] = IF k = l THEN c ELSE approvedRequestCap[k]
  BY <1>2 DEF PermitInv, PermitTypeOK, ConfigureRequestPermitLane
<1>4. \A k \in Lanes : activeRequestPermits[k] <= approvedRequestCap'[k]
  <2>1. activeRequestPermits[l] = 0
    BY DEF PermitInv, PermitTypeOK, Capacity, CapacityAccounted,
       ConfigureRequestPermitLane
  <2> QED BY <1>2, <1>3, <2>1 DEF PermitInv, Capacity, CapacityAccounted
<1>5. Settleable(waiters, {}, {}, phase)
  BY DEF PermitInv, PermitTypeOK, Capacity, CapacityAccounted, QueueInStep, At,
     Settleable
<1>6. Settled(waiters, {}, {}, phase)
  BY <1>3, <1>4, <1>5, Settling
     DEF PermitInv, PermitTypeOK, Capacity, ConfigureRequestPermitLane
<1>7. PICK g \in SUBSET Turns :
           /\ \A u \in g : phase[u] = "queued"
           /\ admissionStopped' => g = {}
           /\ requestPermitHeld' = (requestPermitHeld \ {}) \cup g
           /\ executionSlotHeld' = (executionSlotHeld \ {}) \cup g
           /\ \A u \in Turns : phase'[u] = IF u \in g THEN "granted" ELSE phase[u]
  BY <1>6 DEF Settled
<1>8. PermitTypeOK'
  <2>1. \A k \in Lanes : approvedRequestCap'[k] <= pool.cap[k]
    BY <1>2, <1>3 DEF PermitInv, PermitTypeOK
  <2> QED BY <1>3, <1>6, <2>1
             DEF PermitInv, PermitTypeOK, Settled, ConfigureRequestPermitLane
<1>9. InFlightHoldsPermit'
  BY <1>7 DEF PermitInv, TurnsInStep, InFlightHoldsPermit, ConfigureRequestPermitLane
<1>10. PairsInStep'
  BY <1>7 DEF PermitInv, TurnsInStep, PairsInStep, At, ConfigureRequestPermitLane
<1>11. CondemnedFlagged'
  BY <1>7
     DEF PermitInv, PermitTypeOK, TurnsInStep, CondemnedFlagged,
     ConfigureRequestPermitLane
<1> QED BY <1>6, <1>8, <1>9, <1>10, <1>11 DEF PermitInv, Capacity, TurnsInStep, Settled

-----------------------------------------------------------------------------
(* The theorems.                                                           *)

LEMMA PermitInvInitial == Init => PermitInv
<1> SUFFICES ASSUME Init PROVE PermitInv
  OBVIOUS
<1>1. PermitTypeOK
  <2>1. pool \in [slots : Nat \ {0}, cap : [Lanes -> Nat \ {0}]]
    BY PermitAssumption DEF Init
  <2>2. \A l \in Lanes : pool.cap[l] \in Nat
    BY <2>1
  <2>3. approvedRequestCap \in [Lanes -> Nat] /\ \A l \in Lanes : approvedRequestCap[l] <= pool.cap[l]
    BY <2>2 DEF Init
  <2>4. phase \in [Turns -> Phases] /\ lease \in [Turns -> LeaseStates] /\ waiters \in Seq(Turns)
    BY DEF Init, Phases, LeaseStates
  <2> QED BY <2>3, <2>4 DEF Init, PermitTypeOK
<1>2. CapacityAccounted
  <2>1. \A l \in Lanes : OnLane({}, l) = {}
    BY DEF OnLane
  <2>2. pool.slots \in Nat /\ Cardinality({}) = 0
    BY <1>1, PermitAssumption, FS_EmptySet DEF PermitTypeOK
  <2>3. /\ requestPermitHeld = {} /\ executionSlotHeld = {} /\ activeExecutionSlots = 0
        /\ \A l \in Lanes : activeRequestPermits[l] = 0 /\ approvedRequestCap[l] = 0
    BY DEF Init
  <2>4. \A l \in Lanes : /\ activeRequestPermits[l] = Cardinality(OnLane(requestPermitHeld, l))
                          /\ activeRequestPermits[l] <= approvedRequestCap[l]
    BY <2>1, <2>2, <2>3
  <2>5. activeExecutionSlots = Cardinality(executionSlotHeld) /\ activeExecutionSlots <= pool.slots
    BY <2>2, <2>3
  <2> QED BY <2>3, <2>4, <2>5 DEF CapacityAccounted
<1>3. QueueInStep
  BY EmptyQueue DEF Init, QueueInStep, At
<1>4. WorkConserving
  BY DEF Init, WorkConserving
<1>5. TurnsInStep
  BY DEF Init, TurnsInStep, InFlightHoldsPermit, PairsInStep, CondemnedFlagged, At
<1> QED BY <1>1, <1>2, <1>3, <1>4, <1>5 DEF PermitInv, Capacity

LEMMA PermitInvStep == PermitInv /\ [Next]_vars => PermitInv'
<1> SUFFICES ASSUME PermitInv, [Next]_vars PROVE PermitInv'
  OBVIOUS
<1>1. CASE UNCHANGED vars
  <2>1. Capacity'
    BY <1>1, CapacityUntouched DEF vars, coordinator, PermitInv
  <2>2. PermitTypeOK'
    BY <1>1 DEF vars, coordinator, PermitInv, PermitTypeOK
  <2>3. TurnsInStep'
    BY <1>1
       DEF vars, coordinator, PermitInv, TurnsInStep, InFlightHoldsPermit, PairsInStep,
       CondemnedFlagged, At
  <2> QED BY <2>1, <2>2, <2>3 DEF PermitInv
<1>2. ASSUME NEW l \in Lanes, NEW c \in 1 .. pool.cap[l], ConfigureRequestPermitLane(l, c)
      PROVE  PermitInv'
  BY <1>2, ConfigureRequestPermitLaneKeeps
<1>3. ASSUME NEW t \in Turns, Claim(t) PROVE PermitInv'
  BY <1>3, ClaimKeeps
<1>4. ASSUME NEW t \in Turns, CapacityRefused(t) PROVE PermitInv'
  BY <1>4, CapacityRefusedKeeps
<1>5. ASSUME NEW t \in Turns, AdmissionWriteFails(t) PROVE PermitInv'
  BY <1>5, AdmissionWriteFailsKeeps
<1>6. ASSUME NEW t \in Turns, RejectUnstarted(t) PROVE PermitInv'
  BY <1>6, RejectUnstartedKeeps
<1>7. ASSUME NEW t \in Turns, AbandonUncertain(t) \/ StaleBegin(t) PROVE PermitInv'
  BY <1>7, BeginFenceKeeps DEF AbandonUncertain, StaleBegin
<1>8. ASSUME NEW t \in Turns, RequestPause(t) PROVE PermitInv'
  BY <1>8, RequestPauseKeeps
<1>9. ASSUME NEW t \in Turns, Acquire(t) PROVE PermitInv'
  BY <1>9, AcquireRefusedKeeps, AcquireQueuesKeeps
<1>10. ASSUME NEW t \in Turns, IssueLease(t) PROVE PermitInv'
  BY <1>10, IssueRefusedKeeps, IssueLeaseKeeps
<1>11. ASSUME NEW t \in Turns, Activate(t) PROVE PermitInv'
  BY <1>11, ActivateKeeps
<1>12. ASSUME NEW t \in Turns, BeginCommits(t) PROVE PermitInv'
  BY <1>12, BeginCommitsKeeps
<1>13. ASSUME NEW t \in Turns, Call(t) PROVE PermitInv'
  BY <1>13, CallKeeps
<1>14. ASSUME NEW t \in Turns, CancelBeforeCall(t) PROVE PermitInv'
  BY <1>14, CancelBeforeCallKeeps
<1>15. ASSUME NEW t \in Turns, NEW b \in BOOLEAN, TerminalizeCommits(t, b) PROVE PermitInv'
  BY <1>15, TerminalizeCommitsKeeps
<1>16. ASSUME NEW t \in Turns, TerminalizeAcked(t) PROVE PermitInv'
  BY <1>16, TerminalizeAckedKeeps, BlockingAckedKeeps
<1>17. ASSUME NEW t \in Turns, FinishTurn(t) PROVE PermitInv'
  BY <1>17, FinishTurnKeeps
<1>18. ASSUME NEW t \in Turns, FencedTurnEnds(t) PROVE PermitInv'
  BY <1>18, FencedTurnEndsKeeps
<1>19. CASE OwnershipLost
  BY <1>19, BeginFenceKeeps DEF OwnershipLost
<1>20. CASE Stop
  BY <1>20, StopKeeps
<1>21. ASSUME NEW p \in Profiles, Recover(p) PROVE PermitInv'
  BY <1>21, RecoverKeeps
<1>22. ASSUME NEW t \in Turns, ReleaseUnusedLease(t) PROVE PermitInv'
  BY <1>22, ReleaseUnusedLeaseKeeps
<1> QED BY <1>1, <1>2, <1>3, <1>4, <1>5, <1>6, <1>7, <1>8, <1>9, <1>10, <1>11, <1>12,
           <1>13, <1>14, <1>15, <1>16, <1>17, <1>18, <1>19, <1>20, <1>21, <1>22
        DEF Next, TurnStep

\* The permit invariant with the queue and the turns in step is inductive.
THEOREM PermitInvAlways == Spec => []PermitInv
<1> QED BY PermitInvInitial, PermitInvStep, PTL DEF Spec

\* Capacity is accounted for, bounds the requests in flight and is never idle
\* while a turn that could use it waits, whatever is released, cancelled or
\* fenced in whichever order (connection-permit-coordinator.ts).
THEOREM PermitInvariantAlways == Spec => []PermitInvariant
<1>1. PermitInv => PermitInvariant
  BY DEF PermitInv, Capacity, TurnsInStep, PermitInvariant
<1> QED BY <1>1, PermitInvAlways, PTL


\* Of all steps only the call itself takes a turn from begin to its request.
LEMMA SettlePhase ==
    ASSUME NEW w, NEW req, NEW slot, NEW ph, Settle(w, req, slot, ph), NEW t \in Turns
    PROVE  phase'[t] \in {"granted", ph[t]}
<1> QED BY DEF Settle

LEMMA OnlyCallCalls ==
    ASSUME Next, PermitTypeOK, NEW t \in Turns,
           phase[t] = "begin_pending", phase'[t] = "request_active"
    PROVE  Call(t)
<1>1. ASSUME NEW l \in Lanes, NEW c \in 1 .. pool.cap[l], ConfigureRequestPermitLane(l, c) PROVE FALSE
  <2>1. phase'[t] \in {"granted", phase[t]}
    BY <1>1, SettlePhase DEF ConfigureRequestPermitLane
  <2> QED BY <2>1
<1>2. ASSUME NEW u \in Turns, Claim(u) \/ Activate(u) \/ BeginCommits(u) \/ RequestPause(u) PROVE FALSE
  BY <1>2 DEF Claim, Activate, BeginCommits, RequestPause, Moved, coordinator
<1>3. ASSUME NEW u \in Turns, NEW b \in BOOLEAN, TerminalizeCommits(u, b) PROVE FALSE
  BY <1>3 DEF TerminalizeCommits, Moved
<1>4. ASSUME NEW S, NEW p \in {"idle", "queued", "leased", "captured"}, NEW w, NEW req, NEW slot,
             Settle(w, req, slot, Moved(S, p))
      PROVE  FALSE
  <2>1. phase'[t] \in {"granted", Moved(S, p)[t]}
    BY <1>4, SettlePhase
  <2> QED BY <2>1 DEF Moved
<1>5. ASSUME NEW u \in Turns, CapacityRefused(u) PROVE FALSE
  BY <1>4, <1>5 DEF CapacityRefused
<1>6. ASSUME NEW u \in Turns, Acquire(u) PROVE FALSE
  BY <1>4, <1>6 DEF Acquire
<1>7. ASSUME NEW u \in Turns, AdmissionWriteFails(u) PROVE FALSE
  BY <1>4, <1>7 DEF AdmissionWriteFails
<1>8. ASSUME NEW u \in Turns, IssueLease(u) PROVE FALSE
  BY <1>4, <1>8 DEF IssueLease
<1>9. ASSUME NEW u \in Turns, RejectUnstarted(u) PROVE FALSE
  BY <1>4, <1>9 DEF RejectUnstarted
<1>10. ASSUME NEW u \in Turns, CancelBeforeCall(u) PROVE FALSE
  BY <1>4, <1>10 DEF CancelBeforeCall
<1>11. ASSUME NEW u \in Turns, FencedTurnEnds(u) PROVE FALSE
  BY <1>4, <1>11 DEF FencedTurnEnds
<1>12. ASSUME NEW u \in Turns, TerminalizeAcked(u) PROVE FALSE
  <2> DEFINE queued == {v \in At("queued") : ProfileOfTurn(v) = ProfileOfTurn(u)}
             ph == [Moved(queued, "idle") EXCEPT ![u] = "captured"]
  <2>1. CASE phase[u] = "blocking"
    <3>1. Settle(Without(waiters, queued), {u}, {}, ph)
      BY <1>12, <2>1 DEF TerminalizeAcked
    <3>2. phase'[t] \in {"granted", ph[t]}
      BY <3>1, SettlePhase
    <3> QED BY <3>2 DEF Moved
  <2>2. CASE phase[u] # "blocking"
    BY <1>4, <1>12, <2>2 DEF TerminalizeAcked
  <2> QED BY <2>1, <2>2
<1>13. ASSUME NEW u \in Turns, FinishTurn(u) PROVE FALSE
  BY <1>4, <1>13 DEF FinishTurn
<1>14. ASSUME BeginFence PROVE FALSE
  BY <1>4, <1>14 DEF BeginFence
<1>15. ASSUME Stop PROVE FALSE
  BY <1>4, <1>15 DEF Stop
<1>16. ASSUME NEW p \in Profiles, Recover(p) PROVE FALSE
  BY <1>16 DEF Recover, coordinator
<1>17. ASSUME NEW u \in Turns, Call(u) PROVE u = t
  BY <1>17 DEF Call, Moved
<1>18. ASSUME NEW u \in Turns, AbandonUncertain(u) \/ StaleBegin(u) PROVE FALSE
  BY <1>14, <1>18 DEF AbandonUncertain, StaleBegin
<1>19. ASSUME OwnershipLost PROVE FALSE
  BY <1>14, <1>19 DEF OwnershipLost
<1>20. ASSUME NEW u \in Turns, ReleaseUnusedLease(u) PROVE FALSE
  BY <1>4, <1>20 DEF ReleaseUnusedLease
<1> QED BY <1>1, <1>2, <1>3, <1>5, <1>6, <1>7, <1>8, <1>9, <1>10, <1>11, <1>12, <1>13,
           <1>14, <1>15, <1>16, <1>17, <1>18, <1>19, <1>20 DEF Next, TurnStep

\* No turn claimed before a blocking failure calls upstream once its profile
\* was aborted (#abortProfile and the fences begin checks).
THEOREM NoCallAfterAbortAlways == Spec => NoCallAfterAbort
<1> DEFINE NoCall == \A t \in Turns : phase[t] = "begin_pending" /\ phase'[t] = "request_active"
                                        => t \notin condemned
<1>1. ASSUME PermitInv, [Next]_vars PROVE [NoCall]_vars
  <2> SUFFICES ASSUME NEW t \in Turns, phase[t] = "begin_pending", phase'[t] = "request_active"
               PROVE  t \notin condemned
    OBVIOUS
  <2>1. Call(t)
    <3>1. ~UNCHANGED vars
      BY DEF vars, coordinator
    <3> QED BY <1>1, <3>1, OnlyCallCalls DEF PermitInv
  <2> QED BY <1>1, <2>1 DEF PermitInv, TurnsInStep, CondemnedFlagged, Call
<1> QED BY <1>1, PermitInvAlways, PTL DEF Spec, NoCallAfterAbort
=============================================================================
