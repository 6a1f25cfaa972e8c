--------------------------- MODULE TimerListProofs ---------------------------
(***************************************************************************)
(* Proofs about the sorted list of timer/lst_timer.h.  The argument keeps  *)
(* an order beside the pointers: an injection o from 1 .. n to the nodes.  *)
(* Each call does to the order what it does to the list (a node more, one  *)
(* less, one moved, the first s gone); the lemmas show that the pointer    *)
(* assignments link the new order, and the invariant says that some order  *)
(* is linked.  The traversals are recursive functions: what they visit is  *)
(* shown by the least position at which it could be something else.        *)
(***************************************************************************)
EXTENDS TimerList, FiniteSetTheorems, TLAPS

N == Cardinality(Timers)

\* The node at position i of the order o of n nodes, NULL beyond its ends.
Node(n, o, i) == IF i \in 1 .. n THEN o[i] ELSE NULL

Nodes(n, o) == {o[i] : i \in 1 .. n}

Order(n, o) ==
  /\ n \in Nat /\ o \in [1 .. n -> Timers]
  /\ \A i, j \in 1 .. n : o[i] = o[j] => i = j

\* The pointers of L link the nodes in the order o.
Links(L, n, o) ==
  /\ L.head = Node(n, o, 1)
  /\ n > 0 => L.tail = o[n]
  /\ \A i \in 1 .. n : /\ L.next[o[i]] = Node(n, o, i + 1)
                       /\ L.prev[o[i]] = Node(n, o, i - 1)

Lists == [head : Pointers, tail : Pointers,
          next : [Timers -> Pointers], prev : [Timers -> Pointers]]

Sorted(ex, n, o) == \A i, j \in 1 .. n : i <= j => ex[o[i]] <= ex[o[j]]

\* L links exactly the nodes of S, in the order o, and every other node has
\* null links, as its constructor left them.
Chain(L, n, o, S) ==
  /\ L \in Lists /\ Order(n, o) /\ Links(L, n, o) /\ Nodes(n, o) = S
  /\ \A t \in Timers \ S : L.next[t] = NULL /\ L.prev[t] = NULL
-----------------------------------------------------------------------------
(* Numbers.                                                                *)

LEMMA NatMinimum ==
  ASSUME NEW T, T \subseteq Nat, T # {}
  PROVE  \E n \in T : \A m \in T : n <= m
<1>1. \E x \in T : \A y \in T : ~(<<y, x>> \in OpToRel(<, Nat))
  BY NatLessThanWellFounded, WFMin, Zenon
<1>2. PICK x \in T : \A y \in T : ~(<<y, x>> \in {ss \in Nat \X Nat : ss[1] < ss[2]})
  BY <1>1, Zenon DEF OpToRel
<1>3. ASSUME NEW y \in T PROVE x <= y
  <2>1. x \in Nat /\ y \in Nat
    OBVIOUS
  <2>2. <<y, x>> \in Nat \X Nat /\ <<y, x>>[1] = y /\ <<y, x>>[2] = x
    BY <2>1
  <2>3. ~(<<y, x>>[1] < <<y, x>>[2])
    BY <1>2, <2>2, Zenon
  <2> QED
    BY <2>1, <2>2, <2>3
<1> QED
  BY <1>3

LEMMA MinIs ==
  ASSUME NEW S, S \subseteq Nat, S # {}
  PROVE  Min(S) \in S /\ \A m \in S : Min(S) <= m
  BY NatMinimum DEF Min

\* A finite set of naturals has a greatest element: by the least cardinality
\* of a set that has none.
LEMMA MaxIs ==
  ASSUME NEW S, S \subseteq Nat, IsFiniteSet(S), S # {}
  PROVE  Max(S) \in S /\ \A m \in S : Max(S) >= m
<1> DEFINE HasMax(T) == \E x \in T : \A m \in T : x >= m
           Bad == {k \in Nat : \E T \in SUBSET Nat : /\ T # {} /\ IsFiniteSet(T)
                                                     /\ Cardinality(T) = k /\ ~HasMax(T)}
<1>1. Bad = {}
  <2> SUFFICES ASSUME Bad # {} PROVE FALSE
    OBVIOUS
  <2>1. PICK k \in Bad : \A m \in Bad : k <= m
    BY NatMinimum
  <2>2. PICK T \in SUBSET Nat : T # {} /\ IsFiniteSet(T) /\ Cardinality(T) = k /\ ~HasMax(T)
    BY <2>1
  <2>3. PICK x : x \in T
    BY <2>2
  <2>4. IsFiniteSet(T \ {x}) /\ Cardinality(T \ {x}) \in Nat /\ ~(k <= Cardinality(T \ {x}))
    <3>1. IsFiniteSet(T \ {x}) /\ Cardinality(T \ {x}) = Cardinality(T) - 1
      BY <2>2, <2>3, FS_RemoveElement, Zenon
    <3>2. Cardinality(T) = k /\ k \in Nat /\ Cardinality(T \ {x}) \in Nat
      BY <2>2, <3>1, FS_CardinalityType, Zenon
    <3> QED
      BY <3>1, <3>2
  <2>5. CASE T \ {x} = {}
    BY <2>2, <2>3, <2>5
  <2>6. CASE T \ {x} # {}
    <3>1. HasMax(T \ {x})
      <4>1. Cardinality(T \ {x}) \notin Bad
        BY <2>1, <2>4
      <4> HIDE DEF HasMax
      <4> QED
        BY <4>1, <2>4, <2>6, T \ {x} \in SUBSET Nat
    <3>2. PICK y \in T \ {x} : \A m \in T \ {x} : y >= m
      BY <3>1
    <3>3. x \in Nat /\ y \in Nat
      BY <2>3
    <3>4. HasMax(T)
      <4>1. CASE x >= y
        <5>1. \A m \in T : x >= m
          BY <3>2, <3>3, <4>1
        <5> QED
          BY <2>3, <5>1
      <4>2. CASE y >= x
        BY <3>2, <4>2
      <4> QED
        BY <3>3, <4>1, <4>2
    <3> QED
      BY <2>2, <3>4
  <2> QED
    BY <2>5, <2>6
<1>2. Cardinality(S) \in Nat
  BY FS_CardinalityType
<1>3. HasMax(S)
  BY <1>1, <1>2
<1> QED
  BY <1>3 DEF Max

LEMMA DelayMax ==
  Max(Delays) \in Nat /\ Max(Delays) \in Delays /\ \A d \in Delays : d \in Nat /\ d <= Max(Delays)
  BY TimerListAssumption, MaxIs

LEMMA NIsNat == N \in Nat
  BY TimerListAssumption, FS_CardinalityType DEF N
-----------------------------------------------------------------------------
(* The walk.                                                               *)

LEMMA OrderIsShort ==
  ASSUME NEW n, NEW o, Order(n, o)
  PROVE  n <= N
<1>1. o \in Injection(1 .. n, Timers)
  BY DEF Order, Injection, IsInjective
<1>2. Cardinality(1 .. n) <= N
  BY <1>1, TimerListAssumption, FS_Injection DEF N
<1> QED
  BY <1>2, FS_Interval DEF Order

\* Following next from position k visits the positions from k on.
LEMMA WalkIs ==
  ASSUME NEW L, NEW n, NEW o, Order(n, o), Links(L, n, o), NEW k \in 1 .. n + 1
  PROVE  Walk(L, Node(n, o, k)) = [i \in 0 .. N + 1 |-> Node(n, o, k + i)]
<1> DEFINE x    == Node(n, o, k)
           D    == 0 .. N + 1
           G(v) == [i \in D |-> IF i = 0 THEN x ELSE IF v[i - 1] = NULL THEN NULL ELSE L.next[v[i - 1]]]
           g    == [i \in D |-> Node(n, o, k + i)]
           w    == CHOOSE v : v = G(v)
<1>0. n \in Nat /\ k \in Nat /\ N \in Nat
  BY NIsNat DEF Order
<1>1. ASSUME NEW i \in D, i # 0
      PROVE  /\ i - 1 \in D
             /\ Node(n, o, k + i) = IF Node(n, o, k + (i - 1)) = NULL THEN NULL
                                    ELSE L.next[Node(n, o, k + (i - 1))]
  <2>1. i - 1 \in D /\ k + (i - 1) \in Nat /\ (k + (i - 1)) + 1 = k + i /\ k + (i - 1) >= 1
    BY <1>0, <1>1
  <2>2. CASE k + (i - 1) \in 1 .. n
    BY <2>1, <2>2, TimerListAssumption DEF Order, Links, Node
  <2>3. CASE k + (i - 1) \notin 1 .. n
    BY <1>0, <2>1, <2>3 DEF Node
  <2> QED
    BY <2>1, <2>2, <2>3
<1>2. g = G(g)
  <2>1. \A i \in D : g[i] = G(g)[i]
    BY <1>0, <1>1
  <2> QED
    BY <2>1
<1>3. w = G(w)
  BY <1>2
<1>4. ASSUME NEW v, v = G(v)
      PROVE  /\ v = [i \in D |-> v[i]]
             /\ v[0] = x
             /\ \A i \in D : i # 0 => v[i] = IF v[i - 1] = NULL THEN NULL ELSE L.next[v[i - 1]]
  <2> HIDE DEF x
  <2>1. 0 \in D
    BY <1>0
  <2> QED
    BY <2>1, <1>4
<1>5. w = [i \in D |-> w[i]] /\ g = [i \in D |-> g[i]]
  <2> HIDE DEF w, g, G
  <2> QED
    BY <1>2, <1>3, <1>4
<1>6. D \subseteq Nat /\ \A i \in D : i # 0 => i - 1 \in D /\ ~(i <= i - 1)
  BY <1>0
<1>7. w = g
  <2> HIDE DEF w, g, G, D, x
  <2>0. /\ w[0] = g[0]
        /\ \A i \in D : i # 0 => /\ w[i] = IF w[i - 1] = NULL THEN NULL ELSE L.next[w[i - 1]]
                                /\ g[i] = IF g[i - 1] = NULL THEN NULL ELSE L.next[g[i - 1]]
    BY <1>2, <1>3, <1>4
  <2> DEFINE Bad == {i \in D : w[i] # g[i]}
  <2>1. Bad \subseteq Nat
    BY <1>6
  <2>2. Bad = {}
    <3> SUFFICES ASSUME Bad # {} PROVE FALSE
      OBVIOUS
    <3>1. PICK i \in Bad : \A m \in Bad : i <= m
      BY <2>1, NatMinimum
    <3>2. i \in D /\ w[i] # g[i]
      OBVIOUS
    <3>3. i # 0
      BY <2>0, <3>2
    <3>4. i - 1 \in D /\ ~(i <= i - 1)
      BY <1>6, <3>2, <3>3
    <3>5. w[i - 1] = g[i - 1]
      BY <3>1, <3>4
    <3> QED
      BY <2>0, <3>2, <3>3, <3>5
  <2>3. \A i \in D : w[i] = g[i]
    BY <2>2
  <2>4. [i \in D |-> w[i]] = [i \in D |-> g[i]]
    BY <2>3
  <2> QED
    BY <1>5, <2>4
<1> QED
  BY <1>7 DEF Walk, N
-----------------------------------------------------------------------------
(* Orders: with a node more, with one less, without the first s.           *)

Ins(n, o, q, t) == [i \in 1 .. n + 1 |-> IF i < q THEN o[i] ELSE IF i = q THEN t ELSE o[i - 1]]

Cut(n, o, r) == [i \in 1 .. n - 1 |-> IF i < r THEN o[i] ELSE o[i + 1]]

Shift(n, o, s) == [i \in 1 .. n - s |-> o[i + s]]

LEMMA InsertOrder ==
  ASSUME NEW n, NEW o, Order(n, o), NEW q \in 1 .. n + 1, NEW t \in Timers \ Nodes(n, o)
  PROVE  Order(n + 1, Ins(n, o, q, t)) /\ Nodes(n + 1, Ins(n, o, q, t)) = Nodes(n, o) \cup {t}
<1> DEFINE p == Ins(n, o, q, t)
<1>0. n \in Nat /\ q \in Nat /\ q >= 1 /\ q <= n + 1 /\ \A i \in 1 .. n : o[i] \in Timers /\ o[i] # t
  BY DEF Order, Nodes
<1>1. ASSUME NEW i \in 1 .. n + 1
      PROVE  p[i] = IF i < q THEN o[i] ELSE IF i = q THEN t ELSE o[i - 1]
  BY DEF Ins
<1>2. ASSUME NEW i \in 1 .. n + 1
      PROVE  (i < q /\ i \in 1 .. n) \/ i = q \/ (i > q /\ i - 1 \in 1 .. n)
  <2>1. n \in Nat /\ i \in Nat /\ i >= 1 /\ i <= n + 1
    BY <1>0
  <2>2. i < q => i \in 1 .. n
    BY <1>0, <2>1
  <2>3. i > q => i - 1 \in 1 .. n
    BY <1>0, <2>1
  <2> QED
    BY <1>0, <2>1, <2>2, <2>3
<1>3. p \in [1 .. n + 1 -> Timers]
  <2>1. \A i \in 1 .. n + 1 : p[i] \in Timers
    BY <1>0, <1>1, <1>2
  <2> QED
    BY <2>1 DEF Ins
<1>4. ASSUME NEW i \in 1 .. n + 1, NEW j \in 1 .. n + 1, p[i] = p[j]
      PROVE  i = j
  BY <1>0, <1>1, <1>2, <1>4 DEF Order
<1>5. Nodes(n + 1, p) \subseteq Nodes(n, o) \cup {t}
  BY <1>0, <1>1, <1>2 DEF Nodes
<1>6. t \in Nodes(n + 1, p)
  BY <1>0, <1>1 DEF Nodes
<1>7. ASSUME NEW j \in 1 .. n PROVE o[j] \in Nodes(n + 1, p)
  <2>1. CASE j < q
    <3>1. j \in 1 .. n + 1 /\ p[j] = o[j]
      BY <1>0, <1>1, <2>1
    <3> QED
      BY <3>1 DEF Nodes
  <2>2. CASE ~(j < q)
    <3>1. j + 1 \in 1 .. n + 1 /\ p[j + 1] = o[j]
      <4>1. j + 1 \in 1 .. n + 1 /\ ~(j + 1 < q) /\ j + 1 # q /\ (j + 1) - 1 = j
        BY <1>0, <2>2
      <4> QED
        BY <1>1, <4>1
    <3> QED
      BY <3>1 DEF Nodes
  <2> QED
    BY <2>1, <2>2
<1>8. Nodes(n, o) \cup {t} \subseteq Nodes(n + 1, p)
  BY <1>6, <1>7 DEF Nodes
<1> QED
  BY <1>0, <1>3, <1>4, <1>5, <1>8 DEF Order

LEMMA CutOrder ==
  ASSUME NEW n, NEW o, Order(n, o), NEW r \in 1 .. n
  PROVE  Order(n - 1, Cut(n, o, r)) /\ Nodes(n - 1, Cut(n, o, r)) = Nodes(n, o) \ {o[r]}
<1> DEFINE p == Cut(n, o, r)
<1>0. n \in Nat /\ n - 1 \in Nat /\ r \in Nat /\ r >= 1 /\ r <= n /\ \A i \in 1 .. n : o[i] \in Timers
  BY DEF Order
<1>1. ASSUME NEW i \in 1 .. n - 1
      PROVE  p[i] = IF i < r THEN o[i] ELSE o[i + 1]
  BY DEF Cut
<1>2. ASSUME NEW i \in 1 .. n - 1 PROVE i \in 1 .. n /\ i + 1 \in 1 .. n
  BY <1>0
<1>3. p \in [1 .. n - 1 -> Timers]
  <2>1. \A i \in 1 .. n - 1 : p[i] \in Timers
    BY <1>0, <1>1, <1>2
  <2> QED
    BY <2>1 DEF Cut
<1>4. ASSUME NEW i \in 1 .. n - 1, NEW j \in 1 .. n - 1, p[i] = p[j]
      PROVE  i = j
  BY <1>0, <1>1, <1>2, <1>4 DEF Order
<1>5. ASSUME NEW i \in 1 .. n - 1 PROVE p[i] \in Nodes(n, o) /\ p[i] # o[r]
  <2>1. CASE i < r
    BY <1>0, <1>1, <1>2, <2>1 DEF Order, Nodes
  <2>2. CASE ~(i < r)
    <3>1. p[i] = o[i + 1] /\ i + 1 \in 1 .. n /\ i + 1 # r
      BY <1>0, <1>1, <1>2, <2>2
    <3> QED
      BY <3>1 DEF Order, Nodes
  <2> QED
    BY <2>1, <2>2
<1>6. ASSUME NEW j \in 1 .. n, j # r PROVE o[j] \in Nodes(n - 1, p)
  <2>1. CASE j < r
    <3>1. j \in 1 .. n - 1 /\ p[j] = o[j]
      BY <1>0, <1>1, <2>1
    <3> QED
      BY <3>1 DEF Nodes
  <2>2. CASE ~(j < r)
    <3>1. j - 1 \in 1 .. n - 1 /\ ~(j - 1 < r) /\ (j - 1) + 1 = j
      BY <1>0, <1>6, <2>2
    <3>2. p[j - 1] = o[j]
      BY <1>1, <3>1
    <3> QED
      BY <3>1, <3>2 DEF Nodes
  <2> QED
    BY <2>1, <2>2
<1>7. Nodes(n - 1, p) = Nodes(n, o) \ {o[r]}
  <2>1. Nodes(n - 1, p) \subseteq Nodes(n, o) \ {o[r]}
    BY <1>5 DEF Nodes
  <2>2. Nodes(n, o) \ {o[r]} \subseteq Nodes(n - 1, p)
    BY <1>6 DEF Nodes
  <2> QED
    BY <2>1, <2>2
<1> QED
  BY <1>0, <1>3, <1>4, <1>7 DEF Order

LEMMA ShiftOrder ==
  ASSUME NEW n, NEW o, Order(n, o), NEW s \in 0 .. n
  PROVE  /\ Order(n - s, Shift(n, o, s))
         /\ Nodes(n - s, Shift(n, o, s)) = Nodes(n, o) \ {o[i] : i \in 1 .. s}
<1> DEFINE p == Shift(n, o, s)
<1>0. n \in Nat /\ n - s \in Nat /\ s \in Nat /\ s <= n /\ \A i \in 1 .. n : o[i] \in Timers
  BY DEF Order
<1>1. ASSUME NEW i \in 1 .. n - s
      PROVE  p[i] = o[i + s] /\ i + s \in 1 .. n /\ i + s \notin 1 .. s
  BY <1>0 DEF Shift
<1>2. p \in [1 .. n - s -> Timers]
  BY <1>0, <1>1 DEF Shift
<1>3. ASSUME NEW i \in 1 .. n - s, NEW j \in 1 .. n - s, p[i] = p[j]
      PROVE  i = j
  <2>1. i + s = j + s
    BY <1>1, <1>3 DEF Order
  <2> QED
    BY <1>0, <2>1
<1>4. ASSUME NEW i \in 1 .. n - s PROVE p[i] \in Nodes(n, o) \ {o[j] : j \in 1 .. s}
  <2>1. ASSUME NEW j \in 1 .. s PROVE o[j] # o[i + s]
    <3>1. j \in 1 .. n /\ j # i + s
      BY <1>0, <1>1
    <3> QED
      BY <1>1, <3>1 DEF Order
  <2> QED
    BY <1>1, <2>1 DEF Nodes
<1>5. ASSUME NEW j \in 1 .. n, j \notin 1 .. s PROVE o[j] \in Nodes(n - s, p)
  <2>1. j - s \in 1 .. n - s /\ (j - s) + s = j
    BY <1>0, <1>5
  <2>2. p[j - s] = o[j]
    BY <1>1, <2>1
  <2> QED
    BY <2>1, <2>2 DEF Nodes
<1>6. Nodes(n - s, p) = Nodes(n, o) \ {o[i] : i \in 1 .. s}
  <2>1. Nodes(n - s, p) \subseteq Nodes(n, o) \ {o[i] : i \in 1 .. s}
    BY <1>4 DEF Nodes
  <2>2. Nodes(n, o) \ {o[i] : i \in 1 .. s} \subseteq Nodes(n - s, p)
    BY <1>5 DEF Nodes
  <2> QED
    BY <2>1, <2>2
<1> QED
  BY <1>0, <1>2, <1>3, <1>6 DEF Order
-----------------------------------------------------------------------------
(* What the pointer assignments of each operation do to a linked order.    *)

LEMMA NodeInOrder ==
  ASSUME NEW n, NEW o, Order(n, o)
  PROVE  /\ \A i \in 1 .. n : o[i] \in Timers /\ o[i] # NULL /\ Node(n, o, i) = o[i]
         /\ \A i : i \notin 1 .. n => Node(n, o, i) = NULL
         /\ \A i, j \in 1 .. n : o[i] = o[j] => i = j
         /\ Nodes(n, o) \subseteq Timers
  BY TimerListAssumption DEF Order, Node, Nodes

LEMMA InsertLinks ==
  ASSUME NEW n, NEW o, Order(n, o), NEW q \in 1 .. n + 1, NEW t \in Timers \ Nodes(n, o),
         NEW L, Links(L, n, o), NEW M,
         M.head = IF q = 1 THEN t ELSE L.head,
         M.tail = IF q = n + 1 THEN t ELSE L.tail,
         M.next[t] = Node(n, o, q), M.prev[t] = Node(n, o, q - 1),
         \A i \in 1 .. n : /\ M.next[o[i]] = IF i = q - 1 THEN t ELSE L.next[o[i]]
                           /\ M.prev[o[i]] = IF i = q THEN t ELSE L.prev[o[i]]
  PROVE  Links(M, n + 1, Ins(n, o, q, t))
<1> DEFINE p == Ins(n, o, q, t)
<1>0. n \in Nat /\ q \in Nat /\ q >= 1 /\ q <= n + 1
  BY DEF Order
<1>1. /\ \A i \in 1 .. n + 1 : p[i] = IF i < q THEN o[i] ELSE IF i = q THEN t ELSE o[i - 1]
      /\ \A i : Node(n + 1, p, i) = IF i \in 1 .. n + 1 THEN p[i] ELSE NULL
  BY DEF Ins, Node
<1> HIDE DEF p
<1>2. M.head = Node(n + 1, p, 1)
  <2>1. 1 \in 1 .. n + 1 /\ Node(n + 1, p, 1) = p[1]
    BY <1>0, <1>1
  <2>2. CASE q = 1
    BY <1>0, <1>1, <2>1, <2>2
  <2>3. CASE q # 1
    <3>1. 1 < q /\ 1 \in 1 .. n
      BY <1>0, <2>3
    <3> QED
      BY <1>1, <2>1, <2>3, <3>1 DEF Links, Node
  <2> QED
    BY <2>2, <2>3
<1>3. M.tail = p[n + 1]
  <2>1. n + 1 \in 1 .. n + 1 /\ (n + 1) - 1 = n
    BY <1>0
  <2>2. CASE q = n + 1
    BY <1>0, <1>1, <2>1, <2>2
  <2>3. CASE q # n + 1
    <3>1. ~(n + 1 < q) /\ n > 0
      BY <1>0, <2>3
    <3> QED
      BY <1>1, <2>1, <2>3, <3>1 DEF Links
  <2> QED
    BY <2>2, <2>3
<1>4. ASSUME NEW i \in 1 .. n + 1
      PROVE  M.next[p[i]] = Node(n + 1, p, i + 1) /\ M.prev[p[i]] = Node(n + 1, p, i - 1)
  <2>0. i \in Nat /\ i >= 1 /\ i <= n + 1
    BY <1>0
  <2>1. CASE i < q
    <3>1. i \in 1 .. n /\ p[i] = o[i] /\ i # q
      BY <1>0, <1>1, <2>0, <2>1
    <3>2. M.next[o[i]] = (IF i = q - 1 THEN t ELSE Node(n, o, i + 1)) /\ M.prev[o[i]] = Node(n, o, i - 1)
      BY <3>1 DEF Links
    <3>3. Node(n + 1, p, i - 1) = Node(n, o, i - 1)
      <4>1. i - 1 \in 1 .. n + 1 <=> i - 1 \in 1 .. n
        BY <1>0, <2>0, <2>1
      <4>2. i - 1 < q
        BY <1>0, <2>0, <2>1
      <4> QED
        BY <1>1, <4>1, <4>2 DEF Node
    <3>4. Node(n + 1, p, i + 1) = IF i = q - 1 THEN t ELSE Node(n, o, i + 1)
      <4>1. i + 1 \in 1 .. n + 1 /\ (i = q - 1 => i + 1 = q) /\ (i # q - 1 => i + 1 < q /\ i + 1 \in 1 .. n)
        BY <1>0, <2>0, <2>1
      <4>2. CASE i = q - 1
        <5>1. ~(q < q) /\ i + 1 = q
          BY <1>0, <4>1, <4>2
        <5> QED
          BY <1>1, <4>1, <4>2, <5>1
      <4>3. CASE i # q - 1
        BY <1>1, <4>1, <4>3 DEF Node
      <4> QED
        BY <4>2, <4>3
    <3> QED
      BY <3>1, <3>2, <3>3, <3>4
  <2>2. CASE i = q
    <3>1. p[i] = t /\ ~(i < q)
      BY <1>0, <1>1, <2>2
    <3>2. Node(n + 1, p, i + 1) = Node(n, o, q)
      <4>1. (i + 1 \in 1 .. n + 1 <=> q \in 1 .. n) /\ ~(i + 1 < q) /\ i + 1 # q /\ (i + 1) - 1 = q
        BY <1>0, <2>2
      <4> QED
        BY <1>1, <4>1 DEF Node
    <3>3. Node(n + 1, p, i - 1) = Node(n, o, q - 1)
      <4>1. (i - 1 \in 1 .. n + 1 <=> q - 1 \in 1 .. n) /\ i - 1 < q /\ i - 1 = q - 1
        BY <1>0, <2>2
      <4> QED
        BY <1>1, <4>1 DEF Node
    <3> QED
      BY <3>1, <3>2, <3>3
  <2>3. CASE i > q
    <3>0. i - 1 \in 1 .. n /\ ~(i < q) /\ i # q /\ i - 1 # q - 1
      BY <1>0, <2>0, <2>3
    <3>1. p[i] = o[i - 1]
      BY <1>1, <3>0
    <3>2. /\ M.next[o[i - 1]] = Node(n, o, (i - 1) + 1)
          /\ M.prev[o[i - 1]] = IF i - 1 = q THEN t ELSE Node(n, o, (i - 1) - 1)
      BY <3>0 DEF Links
    <3>3. Node(n + 1, p, i + 1) = Node(n, o, (i - 1) + 1)
      <4>1. /\ i + 1 \in 1 .. n + 1 <=> (i - 1) + 1 \in 1 .. n
            /\ ~(i + 1 < q) /\ i + 1 # q /\ (i + 1) - 1 = (i - 1) + 1
        BY <1>0, <2>0, <2>3
      <4> QED
        BY <1>1, <4>1 DEF Node
    <3>4. Node(n + 1, p, i - 1) = IF i - 1 = q THEN t ELSE Node(n, o, (i - 1) - 1)
      <4>1. i - 1 \in 1 .. n + 1 /\ ~(i - 1 < q)
        BY <1>0, <2>0, <2>3
      <4>2. CASE i - 1 = q
        BY <1>1, <4>1, <4>2
      <4>3. CASE i - 1 # q
        <5>1. (i - 1) - 1 \in 1 .. n
          BY <1>0, <2>0, <2>3, <4>3
        <5> QED
          BY <1>1, <4>1, <4>3, <5>1 DEF Node
      <4> QED
        BY <4>2, <4>3
    <3> QED
      BY <3>1, <3>2, <3>3, <3>4
  <2> QED
    BY <1>0, <2>0, <2>1, <2>2, <2>3
<1> QED
  BY <1>2, <1>3, <1>4 DEF Links, p

LEMMA CutLinks ==
  ASSUME NEW n, NEW o, Order(n, o), NEW r \in 1 .. n, NEW L, Links(L, n, o), NEW M,
         M.head = IF r = 1 THEN Node(n, o, 2) ELSE L.head,
         n > 1 => M.tail = IF r = n THEN o[n - 1] ELSE L.tail,
         \A i \in 1 .. n : i # r => 
           /\ M.next[o[i]] = IF i = r - 1 THEN Node(n, o, r + 1) ELSE L.next[o[i]]
           /\ M.prev[o[i]] = IF i = r + 1 THEN Node(n, o, r - 1) ELSE L.prev[o[i]]
  PROVE  Links(M, n - 1, Cut(n, o, r))
<1> DEFINE p == Cut(n, o, r)
<1>0. n \in Nat /\ r \in Nat /\ r >= 1 /\ r <= n
  BY DEF Order
<1>1. /\ \A i \in 1 .. n - 1 : p[i] = IF i < r THEN o[i] ELSE o[i + 1]
      /\ \A i : Node(n - 1, p, i) = IF i \in 1 .. n - 1 THEN p[i] ELSE NULL
  BY DEF Cut, Node
<1> HIDE DEF p
<1>2. ASSUME NEW i \in Nat, i < r PROVE Node(n - 1, p, i) = Node(n, o, i)
  <2>1. i \in 1 .. n - 1 <=> i \in 1 .. n
    BY <1>0, <1>2
  <2> QED
    BY <1>1, <1>2, <2>1 DEF Node
<1>3. ASSUME NEW i \in Nat, ~(i < r) PROVE Node(n - 1, p, i) = Node(n, o, i + 1)
  <2>1. i \in 1 .. n - 1 <=> i + 1 \in 1 .. n
    BY <1>0, <1>3
  <2> QED
    BY <1>1, <1>3, <2>1 DEF Node
<1>4. M.head = Node(n - 1, p, 1)
  <2>1. CASE r = 1
    BY <1>0, <1>3, <2>1
  <2>2. CASE r # 1
    <3>1. 1 < r
      BY <1>0, <2>2
    <3> QED
      BY <1>2, <2>2, <3>1 DEF Links
  <2> QED
    BY <2>1, <2>2
<1>5. ASSUME n - 1 > 0 PROVE M.tail = p[n - 1]
  <2>0. n - 1 \in 1 .. n - 1 /\ n > 1 /\ n > 0 /\ (n - 1) + 1 = n
    BY <1>0, <1>5
  <2>1. CASE r = n
    <3>1. n - 1 < r
      BY <1>0, <2>1
    <3> QED
      BY <1>1, <2>0, <2>1, <3>1
  <2>2. CASE r # n
    <3>1. ~(n - 1 < r)
      BY <1>0, <2>2
    <3> QED
      BY <1>1, <2>0, <2>2, <3>1 DEF Links
  <2> QED
    BY <2>1, <2>2
<1>6. ASSUME NEW i \in 1 .. n - 1
      PROVE  M.next[p[i]] = Node(n - 1, p, i + 1) /\ M.prev[p[i]] = Node(n - 1, p, i - 1)
  <2>0. i \in Nat /\ i >= 1 /\ i <= n - 1 /\ i \in 1 .. n /\ i + 1 \in 1 .. n /\ i - 1 \in Nat /\ i + 1 \in Nat
    BY <1>0
  <2>1. CASE i < r
    <3>1. p[i] = o[i] /\ i # r /\ i # r + 1 /\ i - 1 < r
      BY <1>0, <1>1, <2>0, <2>1
    <3>2. M.prev[o[i]] = Node(n, o, i - 1)
      BY <2>0, <3>1 DEF Links
    <3>3. M.next[o[i]] = IF i = r - 1 THEN Node(n, o, r + 1) ELSE Node(n, o, i + 1)
      BY <2>0, <3>1 DEF Links
    <3>4. CASE i = r - 1
      <4>1. i + 1 = r /\ ~(i + 1 < r)
        BY <1>0, <3>4
      <4> QED
        BY <1>2, <1>3, <2>0, <3>1, <3>2, <3>3, <3>4, <4>1
    <3>5. CASE i # r - 1
      <4>1. i + 1 < r
        BY <1>0, <2>0, <2>1, <3>5
      <4> QED
        BY <1>2, <2>0, <3>1, <3>2, <3>3, <3>5, <4>1
    <3> QED
      BY <3>4, <3>5
  <2>2. CASE ~(i < r)
    <3>1. p[i] = o[i + 1] /\ i + 1 # r /\ i + 1 # r - 1 /\ ~(i + 1 < r) /\ (i + 1) - 1 = i
      BY <1>0, <1>1, <2>0, <2>2
    <3>2. M.next[o[i + 1]] = Node(n, o, (i + 1) + 1)
      BY <2>0, <3>1 DEF Links
    <3>3. M.prev[o[i + 1]] = IF i + 1 = r + 1 THEN Node(n, o, r - 1) ELSE Node(n, o, i)
      BY <2>0, <3>1 DEF Links
    <3>4. Node(n - 1, p, i + 1) = Node(n, o, (i + 1) + 1)
      BY <1>3, <2>0, <3>1
    <3>5. CASE i = r
      <4>1. i + 1 = r + 1 /\ i - 1 = r - 1 /\ i - 1 < r
        BY <1>0, <3>5
      <4> QED
        BY <1>2, <2>0, <3>1, <3>2, <3>3, <3>4, <4>1
    <3>6. CASE i # r
      <4>1. i + 1 # r + 1 /\ ~(i - 1 < r) /\ (i - 1) + 1 = i
        BY <1>0, <2>0, <2>2, <3>6
      <4> QED
        BY <1>3, <2>0, <3>1, <3>2, <3>3, <3>4, <4>1
    <3> QED
      BY <3>5, <3>6
  <2> QED
    BY <2>1, <2>2
<1> QED
  BY <1>4, <1>5, <1>6 DEF Links, p

LEMMA ShiftLinks ==
  ASSUME NEW n, NEW o, Order(n, o), NEW s \in 0 .. n, NEW L, Links(L, n, o), NEW M,
         M.head = Node(n, o, s + 1), M.tail = L.tail,
         \A i \in s + 1 .. n : /\ M.next[o[i]] = L.next[o[i]]
                               /\ M.prev[o[i]] = IF i = s + 1 THEN NULL ELSE L.prev[o[i]]
  PROVE  Links(M, n - s, Shift(n, o, s))
<1> DEFINE p == Shift(n, o, s)
<1>0. n \in Nat /\ s \in Nat /\ s <= n
  BY DEF Order
<1>1. /\ \A i \in 1 .. n - s : p[i] = o[i + s]
      /\ \A i : Node(n - s, p, i) = IF i \in 1 .. n - s THEN p[i] ELSE NULL
  BY DEF Shift, Node
<1> HIDE DEF p
<1>2. ASSUME NEW i \in Nat, i >= 1 PROVE Node(n - s, p, i) = Node(n, o, i + s)
  <2>1. i \in 1 .. n - s <=> i + s \in 1 .. n
    BY <1>0, <1>2
  <2> QED
    BY <1>1, <2>1 DEF Node
<1>3. M.head = Node(n - s, p, 1)
  BY <1>0, <1>2
<1>4. ASSUME n - s > 0 PROVE M.tail = p[n - s]
  <2>1. n - s \in 1 .. n - s /\ (n - s) + s = n /\ n > 0
    BY <1>0, <1>4
  <2> QED
    BY <1>1, <2>1 DEF Links
<1>5. ASSUME NEW i \in 1 .. n - s
      PROVE  M.next[p[i]] = Node(n - s, p, i + 1) /\ M.prev[p[i]] = Node(n - s, p, i - 1)
  <2>0. /\ i \in Nat /\ i >= 1 /\ i <= n - s /\ i + s \in 1 .. n /\ i + s \in s + 1 .. n
        /\ (i + 1) + s = (i + s) + 1 /\ (i - 1) + s = (i + s) - 1
    BY <1>0
  <2>1. p[i] = o[i + s]
    BY <1>1
  <2>2. M.next[p[i]] = Node(n - s, p, i + 1)
    <3>1. M.next[o[i + s]] = Node(n, o, (i + s) + 1)
      BY <2>0 DEF Links
    <3> QED
      BY <1>2, <2>0, <2>1, <3>1
  <2>3. M.prev[p[i]] = Node(n - s, p, i - 1)
    <3>1. M.prev[o[i + s]] = IF i + s = s + 1 THEN NULL ELSE Node(n, o, (i + s) - 1)
      BY <2>0 DEF Links
    <3>2. CASE i = 1
      <4>1. i - 1 \notin 1 .. n - s /\ i + s = s + 1
        BY <1>0, <3>2
      <4> QED
        BY <1>1, <2>1, <3>1, <4>1
    <3>3. CASE i # 1
      <4>1. i - 1 \in Nat /\ i - 1 >= 1 /\ i + s # s + 1
        BY <1>0, <2>0, <3>3
      <4> QED
        BY <1>2, <2>0, <2>1, <3>1, <4>1
    <3> QED
      BY <3>2, <3>3
  <2> QED
    BY <2>2, <2>3
<1> QED
  BY <1>3, <1>4, <1>5 DEF Links, p
-----------------------------------------------------------------------------
(* The calls.                                                              *)

\* What the private add_timer stops at when it starts at the node o[k].
StopsAt(L, n, o, k, ex, t, q) ==
  /\ q - k = Place(L, ex, o[k], t)
  /\ Walk(L, o[k])[q - k - 1] = o[q - 1]
  /\ Walk(L, o[k])[q - k] = Node(n, o, q)

\* t belongs between what stands behind o[k] and before q, and o[q].
Fits(n, o, k, ex, t, q) ==
  /\ q <= n => ex[t] < ex[o[q]]
  /\ \A i \in k + 1 .. q - 1 : ~(ex[t] < ex[o[i]])

LEMMA PlaceIs ==
  ASSUME NEW L, NEW n, NEW o, Order(n, o), Links(L, n, o), NEW k \in 1 .. n, NEW ex, NEW t
  PROVE  \E q \in k + 1 .. n + 1 : StopsAt(L, n, o, k, ex, t, q) /\ Fits(n, o, k, ex, t, q)
<1> DEFINE w == Walk(L, o[k])
           T == {i \in 1 .. N + 1 : w[i] = NULL \/ ex[t] < ex[w[i]]}
           m == Min(T)
<1>0. /\ n \in Nat /\ k \in Nat /\ k >= 1 /\ k <= n /\ N \in Nat /\ n <= N
      /\ Node(n, o, k) = o[k] /\ k \in 1 .. n + 1
  <2>1. n \in Nat /\ N \in Nat
    BY NIsNat DEF Order
  <2> QED
    BY <2>1, OrderIsShort DEF Node
<1>1. \A i \in 0 .. N + 1 : w[i] = Node(n, o, k + i)
  BY <1>0, WalkIs
<1> HIDE DEF w
<1>2. n + 1 - k \in T
  <2>1. n + 1 - k \in 1 .. N + 1 /\ n + 1 - k \in 0 .. N + 1 /\ k + (n + 1 - k) \notin 1 .. n
    BY <1>0
  <2> QED
    BY <1>1, <2>1 DEF Node
<1>3. T \subseteq Nat
  BY <1>0
<1>4. m \in T /\ \A i \in T : m <= i
  BY <1>2, <1>3, MinIs
<1>5. m \in Nat /\ m >= 1 /\ m <= n + 1 - k /\ m <= N + 1
  BY <1>0, <1>2, <1>3, <1>4
<1>6. k + m \in k + 1 .. n + 1 /\ (k + m) - k = m /\ (k + m) - k - 1 = m - 1
  BY <1>0, <1>5
<1>7. w[m - 1] = o[k + m - 1]
  <2>1. m - 1 \in 0 .. N + 1 /\ k + (m - 1) \in 1 .. n /\ k + (m - 1) = k + m - 1
    BY <1>0, <1>5
  <2> QED
    BY <1>1, <2>1 DEF Node
<1>8. w[m] = Node(n, o, k + m)
  BY <1>0, <1>1, <1>5
<1>9. ASSUME k + m <= n PROVE ex[t] < ex[o[k + m]]
  <2>1. k + m \in 1 .. n
    BY <1>0, <1>5, <1>9
  <2>2. w[m] = o[k + m] /\ w[m] # NULL
    BY <1>8, <2>1, NodeInOrder
  <2> QED
    BY <1>4, <2>2
<1>10. ASSUME NEW i \in k + 1 .. (k + m) - 1 PROVE ~(ex[t] < ex[o[i]])
  <2>1. /\ i - k \in 1 .. N + 1 /\ i - k \in 0 .. N + 1 /\ ~(m <= i - k)
        /\ k + (i - k) = i /\ i \in 1 .. n
    BY <1>0, <1>5
  <2>2. w[i - k] = o[i]
    BY <1>1, <2>1 DEF Node
  <2>3. i - k \notin T
    BY <1>4, <2>1
  <2> QED
    BY <2>1, <2>2, <2>3
<1>11. m = Place(L, ex, o[k], t)
  BY DEF Place, w, N
<1> HIDE DEF m, T
<1> QED
  BY <1>6, <1>7, <1>8, <1>9, <1>10, <1>11 DEF w, StopsAt, Fits

LEMMA InsertAfterIs ==
  ASSUME NEW L \in Lists, NEW n, NEW o, Order(n, o), Links(L, n, o), NEW k \in 1 .. n,
         NEW ex, NEW t \in Timers \ Nodes(n, o)
  PROVE  \E q \in k + 1 .. n + 1 :
           /\ Links(InsertAfter(L, ex, o[k], t), n + 1, Ins(n, o, q, t))
           /\ InsertAfter(L, ex, o[k], t) \in Lists
           /\ \A u \in Timers \ (Nodes(n, o) \cup {t}) :
                /\ InsertAfter(L, ex, o[k], t).next[u] = L.next[u]
                /\ InsertAfter(L, ex, o[k], t).prev[u] = L.prev[u]
           /\ Fits(n, o, k, ex, t, q)
<1>1. PICK q \in k + 1 .. n + 1 : StopsAt(L, n, o, k, ex, t, q) /\ Fits(n, o, k, ex, t, q)
  BY PlaceIs, Zenon
<1>2. /\ n \in Nat /\ q \in 1 .. n + 1 /\ q - 1 \in 1 .. n /\ q # 1
      /\ (q = n + 1 \/ q \in 1 .. n) /\ (q = n + 1 => q \notin 1 .. n)
  BY DEF Order
<1> DEFINE M    == InsertAfter(L, ex, o[k], t)
           prev == o[q - 1]
           tmp  == Node(n, o, q)
<1>3. M = IF tmp # NULL
            THEN [L EXCEPT !.next[prev] = t, !.next[t] = tmp, !.prev[tmp] = t, !.prev[t] = prev]
            ELSE [L EXCEPT !.next[prev] = t, !.prev[t] = prev, !.next[t] = NULL, !.tail = t]
  BY <1>1 DEF InsertAfter, StopsAt
<1>4. /\ prev \in Nodes(n, o) /\ prev \in Timers /\ t \in Timers /\ prev # t /\ tmp # t
      /\ tmp # NULL => tmp \in Nodes(n, o) /\ tmp \in Timers
      /\ tmp = NULL <=> q = n + 1
      /\ Node(n, o, q - 1) = prev
  BY <1>2, NodeInOrder, TimerListAssumption DEF Nodes, Node
<1> HIDE DEF M
<1>5. /\ M.head = L.head
      /\ M.tail = IF q = n + 1 THEN t ELSE L.tail
      /\ \A u \in Timers : /\ M.next[u] = IF u = t THEN tmp ELSE IF u = prev THEN t ELSE L.next[u]
                           /\ M.prev[u] = IF u = t THEN prev ELSE IF u = tmp THEN t ELSE L.prev[u]
  <2>1. CASE tmp # NULL
    <3> HIDE DEF tmp, prev
    <3> QED
      BY <1>2, <1>3, <1>4, <2>1 DEF Lists
  <2>2. CASE tmp = NULL
    <3> HIDE DEF tmp, prev
    <3> QED
      BY <1>2, <1>3, <1>4, <2>2, TimerListAssumption DEF Lists
  <2> QED
    BY <2>1, <2>2
<1>6. M \in Lists
  <2> HIDE DEF tmp, prev
  <2>1. prev \in Pointers /\ t \in Pointers /\ (tmp # NULL => tmp \in Pointers) /\ NULL \in Pointers
    BY <1>4 DEF Pointers
  <2> QED
    BY <1>3, <1>4, <2>1 DEF Lists
<1>7. Links(M, n + 1, Ins(n, o, q, t))
  <2>1. ASSUME NEW i \in 1 .. n
        PROVE  /\ M.next[o[i]] = IF i = q - 1 THEN t ELSE L.next[o[i]]
               /\ M.prev[o[i]] = IF i = q THEN t ELSE L.prev[o[i]]
    <3>1. o[i] \in Timers /\ o[i] # t /\ o[i] # NULL
      BY NodeInOrder DEF Nodes
    <3>2. o[i] = prev <=> i = q - 1
      BY <1>2 DEF Order
    <3>3. o[i] = tmp <=> i = q
      BY <1>2, <3>1 DEF Order, Node
    <3> QED
      BY <1>5, <3>1, <3>2, <3>3
  <2>2. M.next[t] = Node(n, o, q) /\ M.prev[t] = Node(n, o, q - 1)
    BY <1>4, <1>5
  <2>3. M.head = (IF q = 1 THEN t ELSE L.head) /\ M.tail = (IF q = n + 1 THEN t ELSE L.tail)
    BY <1>2, <1>5
  <2> HIDE DEF tmp, prev
  <2> QED
    BY <1>2, <2>1, <2>2, <2>3, InsertLinks
<1>8. ASSUME NEW u \in Timers \ (Nodes(n, o) \cup {t})
      PROVE  M.next[u] = L.next[u] /\ M.prev[u] = L.prev[u]
  <2>1. u # t /\ u # prev /\ u # tmp
    BY <1>4, TimerListAssumption
  <2> QED
    BY <1>5, <2>1
<1> QED
  BY <1>1, <1>6, <1>7, <1>8 DEF M

\* The public add_timer puts t into the list, where it fits.
LEMMA InsertIs ==
  ASSUME NEW L, NEW n, NEW o, NEW S, Chain(L, n, o, S), NEW ex, NEW t \in Timers \ S
  PROVE  \E q \in 1 .. n + 1 : /\ Chain(Insert(L, ex, t), n + 1, Ins(n, o, q, t), S \cup {t})
                               /\ Fits(n, o, 0, ex, t, q)
<1>0. /\ L \in Lists /\ Order(n, o) /\ Links(L, n, o) /\ Nodes(n, o) = S /\ n \in Nat
      /\ \A u \in Timers \ S : L.next[u] = NULL /\ L.prev[u] = NULL
      /\ S \subseteq Timers /\ t \in Timers \ Nodes(n, o) /\ t # NULL /\ t \in Pointers /\ NULL \in Pointers
  BY NodeInOrder, TimerListAssumption DEF Chain, Order, Pointers
<1> DEFINE M == Insert(L, ex, t)
<1>1. CASE L.head = NULL
  <2>1. n = 0
    <3> SUFFICES ASSUME n # 0 PROVE FALSE
      OBVIOUS
    <3>1. 1 \in 1 .. n
      BY <1>0
    <3> QED
      BY <1>0, <1>1, <3>1, NodeInOrder DEF Links
  <2>2. M = [L EXCEPT !.head = t, !.tail = t]
    BY <1>1 DEF Insert
  <2>3. M \in Lists /\ M.head = t /\ M.tail = t /\ M.next = L.next /\ M.prev = L.prev
    BY <1>0, <2>2 DEF Lists
  <2>4. 1 \in 1 .. n + 1 /\ Node(n, o, 1) = NULL /\ Node(n, o, 1 - 1) = NULL
    BY <2>1, NodeInOrder DEF Node
  <2>5. Links(M, n + 1, Ins(n, o, 1, t))
    <3> HIDE DEF M
    <3>1. M.next[t] = NULL /\ M.prev[t] = NULL
      BY <1>0, <2>3
    <3>2. 1 .. n = {} /\ 1 = n + 1
      BY <2>1
    <3> QED
      BY <1>0, <2>3, <2>4, <3>1, <3>2, InsertLinks
  <2>6. Fits(n, o, 0, ex, t, 1)
    BY <2>1 DEF Fits
  <2>7. Order(n + 1, Ins(n, o, 1, t)) /\ Nodes(n + 1, Ins(n, o, 1, t)) = S \cup {t}
    BY <1>0, <2>4, InsertOrder
  <2> HIDE DEF M
  <2>8. Chain(M, n + 1, Ins(n, o, 1, t), S \cup {t})
    BY <1>0, <2>3, <2>5, <2>7 DEF Chain
  <2> QED
    BY <2>4, <2>6, <2>8 DEF M
<1>2. ASSUME L.head # NULL
      PROVE  n >= 1 /\ 1 \in 1 .. n /\ 1 \in 1 .. n + 1 /\ L.head = o[1] /\ L.head \in Timers /\ L.head # t
  <2>1. 1 \in 1 .. n
    BY <1>0, <1>2 DEF Links, Node
  <2> QED
    BY <1>0, <2>1, NodeInOrder DEF Links, Nodes
<1>3. CASE L.head # NULL /\ ex[t] < ex[L.head]
  <2>1. M = [L EXCEPT !.next[t] = L.head, !.prev[L.head] = t, !.head = t]
    BY <1>3 DEF Insert
  <2>2. /\ M \in Lists /\ M.head = t /\ M.tail = L.tail
        /\ \A u \in Timers : /\ M.next[u] = IF u = t THEN L.head ELSE L.next[u]
                             /\ M.prev[u] = IF u = L.head THEN t ELSE L.prev[u]
    <3> DEFINE h == L.head
    <3>1. h \in Timers /\ h \in Pointers /\ M = [L EXCEPT !.next[t] = h, !.prev[h] = t, !.head = t]
      BY <1>2, <1>3, <2>1 DEF Pointers
    <3> HIDE DEF h, M
    <3>2. /\ M \in Lists /\ M.head = t /\ M.tail = L.tail
          /\ \A u \in Timers : /\ M.next[u] = IF u = t THEN h ELSE L.next[u]
                               /\ M.prev[u] = IF u = h THEN t ELSE L.prev[u]
      BY <1>0, <3>1 DEF Lists
    <3> QED
      BY <3>2 DEF h
  <2> HIDE DEF M
  <2>3. Links(M, n + 1, Ins(n, o, 1, t))
    <3>1. ASSUME NEW i \in 1 .. n
          PROVE  /\ M.next[o[i]] = IF i = 1 - 1 THEN t ELSE L.next[o[i]]
                 /\ M.prev[o[i]] = IF i = 1 THEN t ELSE L.prev[o[i]]
      <4>1. o[i] \in Timers /\ o[i] # t /\ i # 1 - 1 /\ (o[i] = L.head <=> i = 1)
        BY <1>0, <1>2, <1>3, NodeInOrder DEF Nodes
      <4> QED
        BY <2>2, <4>1
    <3>2. M.next[t] = Node(n, o, 1) /\ M.prev[t] = Node(n, o, 1 - 1)
      BY <1>0, <1>2, <1>3, <2>2 DEF Node
    <3>3. 1 # n + 1
      BY <1>0, <1>2, <1>3
    <3> QED
      BY <1>0, <1>2, <1>3, <2>2, <3>1, <3>2, <3>3, InsertLinks
  <2>4. Order(n + 1, Ins(n, o, 1, t)) /\ Nodes(n + 1, Ins(n, o, 1, t)) = S \cup {t}
    BY <1>0, <1>2, <1>3, InsertOrder
  <2>5. \A u \in Timers \ (S \cup {t}) : M.next[u] = NULL /\ M.prev[u] = NULL
    BY <1>0, <1>2, <1>3, <2>2 DEF Nodes
  <2>6. Chain(M, n + 1, Ins(n, o, 1, t), S \cup {t})
    BY <2>2, <2>3, <2>4, <2>5 DEF Chain
  <2>7. Fits(n, o, 0, ex, t, 1)
    BY <1>2, <1>3 DEF Fits
  <2> QED
    BY <1>2, <1>3, <2>6, <2>7 DEF M
<1>4. CASE L.head # NULL /\ ~(ex[t] < ex[L.head])
  <2>1. M = InsertAfter(L, ex, o[1], t)
    BY <1>2, <1>4 DEF Insert
  <2> HIDE DEF M
  <2>2. PICK q \in 1 + 1 .. n + 1 :
           /\ Links(M, n + 1, Ins(n, o, q, t)) /\ M \in Lists
           /\ \A u \in Timers \ (Nodes(n, o) \cup {t}) : M.next[u] = L.next[u] /\ M.prev[u] = L.prev[u]
           /\ Fits(n, o, 1, ex, t, q)
    BY <1>0, <1>2, <1>4, <2>1, InsertAfterIs
  <2>3. q \in 1 .. n + 1
    BY <1>0
  <2>4. Fits(n, o, 0, ex, t, q)
    <3>1. ASSUME NEW i \in 0 + 1 .. q - 1 PROVE ~(ex[t] < ex[o[i]])
      <4>1. i = 1 \/ i \in 1 + 1 .. q - 1
        BY <1>0
      <4> QED
        BY <1>2, <1>4, <2>2, <4>1 DEF Fits
    <3> QED
      BY <2>2, <3>1 DEF Fits
  <2>5. Order(n + 1, Ins(n, o, q, t)) /\ Nodes(n + 1, Ins(n, o, q, t)) = S \cup {t}
    BY <1>0, <2>3, InsertOrder
  <2>6. Chain(M, n + 1, Ins(n, o, q, t), S \cup {t})
    BY <1>0, <2>2, <2>5 DEF Chain
  <2> QED
    BY <2>3, <2>4, <2>6 DEF M
<1> QED
  BY <1>1, <1>3, <1>4

LEMMA UnlinkIs ==
  ASSUME NEW L, NEW n, NEW o, NEW S, Chain(L, n, o, S), NEW r \in 1 .. n
  PROVE  Chain(Unlink(L, o[r]), n - 1, Cut(n, o, r), S \ {o[r]})
<1> DEFINE t == o[r]
           M == CASE t = L.head /\ t = L.tail -> [L EXCEPT !.head = NULL, !.tail = NULL]
                  [] t = L.head /\ t # L.tail -> [L EXCEPT !.head = L.next[t], !.prev[L.next[t]] = NULL]
                  [] t # L.head /\ t = L.tail -> [L EXCEPT !.tail = L.prev[t], !.next[L.prev[t]] = NULL]
                  [] OTHER -> [L EXCEPT !.next[L.prev[t]] = L.next[t], !.prev[L.next[t]] = L.prev[t]]
           K == [M EXCEPT !.next[t] = NULL, !.prev[t] = NULL]
<1>0. /\ L \in Lists /\ Order(n, o) /\ Links(L, n, o) /\ Nodes(n, o) = S /\ n \in Nat
      /\ \A u \in Timers \ S : L.next[u] = NULL /\ L.prev[u] = NULL
      /\ \A i \in 1 .. n : o[i] \in Timers /\ o[i] # NULL
      /\ \A i, j \in 1 .. n : o[i] = o[j] => i = j
  BY NodeInOrder DEF Chain, Order
<1>1. /\ r \in Nat /\ r >= 1 /\ r <= n /\ 1 \in 1 .. n /\ n \in 1 .. n
      /\ t \in Timers /\ t # NULL /\ t \in S
      /\ t = L.head <=> r = 1
      /\ t = L.tail <=> r = n
      /\ L.next[t] = Node(n, o, r + 1) /\ L.prev[t] = Node(n, o, r - 1)
  <2>1. r \in Nat /\ r >= 1 /\ r <= n /\ 1 \in 1 .. n /\ n \in 1 .. n /\ n > 0
    BY <1>0
  <2>2. L.head = o[1] /\ L.tail = o[n]
    BY <1>0, <2>1 DEF Links, Node
  <2>3. t \in S
    BY <1>0 DEF Nodes
  <2> QED
    BY <1>0, <2>1, <2>2, <2>3 DEF Links
<1>2. /\ r # n => r + 1 \in 1 .. n /\ L.next[t] = o[r + 1] /\ L.next[t] \in Timers /\ L.next[t] # t
      /\ r = n => L.next[t] = NULL
      /\ r # 1 => r - 1 \in 1 .. n /\ L.prev[t] = o[r - 1] /\ L.prev[t] \in Timers /\ L.prev[t] # t
      /\ r = 1 => L.prev[t] = NULL
  <2>1. (r # n => r + 1 \in 1 .. n /\ r + 1 # r) /\ (r = n => r + 1 \notin 1 .. n)
    BY <1>0, <1>1
  <2>2. (r # 1 => r - 1 \in 1 .. n /\ r - 1 # r) /\ (r = 1 => r - 1 \notin 1 .. n)
    BY <1>0, <1>1
  <2> QED
    BY <1>0, <1>1, <2>1, <2>2 DEF Node
<1> DEFINE nx == L.next[t]
           pv == L.prev[t]
<1>3. /\ M \in Lists
      /\ M.head = IF r = 1 THEN nx ELSE L.head
      /\ n > 1 => M.tail = IF r = n THEN pv ELSE L.tail
      /\ \A u \in Timers : /\ M.next[u] = IF r # 1 /\ u = pv THEN nx ELSE L.next[u]
                           /\ M.prev[u] = IF r # n /\ u = nx THEN pv ELSE L.prev[u]
  <2>0. NULL \in Pointers /\ Timers \subseteq Pointers /\ nx \in Pointers /\ pv \in Pointers
    BY <1>0, <1>1 DEF Lists, Pointers
  <2>1. CASE r = 1 /\ r = n
    <3>1. M = [L EXCEPT !.head = NULL, !.tail = NULL]
      BY <1>1, <2>1
    <3> HIDE DEF M, t
    <3> QED
      BY <1>0, <1>2, <2>0, <2>1, <3>1 DEF Lists
  <2>2. CASE r = 1 /\ r # n
    <3>1. M = [L EXCEPT !.head = nx, !.prev[nx] = NULL]
      BY <1>1, <2>2
    <3> HIDE DEF M, t, nx, pv
    <3> QED
      BY <1>0, <1>2, <2>0, <2>2, <3>1 DEF Lists, nx, pv
  <2>3. CASE r # 1 /\ r = n
    <3>1. M = [L EXCEPT !.tail = pv, !.next[pv] = NULL]
      BY <1>1, <2>3
    <3> HIDE DEF M, t, nx, pv
    <3> QED
      BY <1>0, <1>2, <2>0, <2>3, <3>1 DEF Lists, nx, pv
  <2>4. CASE r # 1 /\ r # n
    <3>1. M = [L EXCEPT !.next[pv] = nx, !.prev[nx] = pv]
      BY <1>1, <2>4
    <3> HIDE DEF M, t, nx, pv
    <3> QED
      BY <1>0, <1>2, <2>0, <2>4, <3>1 DEF Lists, nx, pv
  <2> QED
    BY <2>1, <2>2, <2>3, <2>4
<1> HIDE DEF M
<1>4. /\ K \in Lists /\ K.head = M.head /\ K.tail = M.tail
      /\ \A u \in Timers : /\ K.next[u] = IF u = t THEN NULL ELSE M.next[u]
                           /\ K.prev[u] = IF u = t THEN NULL ELSE M.prev[u]
  <2> HIDE DEF t
  <2> QED
    BY <1>1, <1>3 DEF Lists, Pointers
<1> HIDE DEF K
<1>5. Links(K, n - 1, Cut(n, o, r))
  <2>1. ASSUME NEW i \in 1 .. n, i # r
        PROVE  /\ K.next[o[i]] = IF i = r - 1 THEN Node(n, o, r + 1) ELSE L.next[o[i]]
               /\ K.prev[o[i]] = IF i = r + 1 THEN Node(n, o, r - 1) ELSE L.prev[o[i]]
    <3>1. o[i] \in Timers /\ o[i] # t /\ o[i] # NULL
      BY <1>0, <2>1
    <3>2. r # 1 /\ o[i] = pv <=> i = r - 1
      BY <1>0, <1>1, <1>2, <3>1
    <3>3. r # n /\ o[i] = nx <=> i = r + 1
      BY <1>0, <1>1, <1>2, <3>1
    <3> HIDE DEF pv, nx, t
    <3> QED
      BY <1>1, <1>3, <1>4, <3>1, <3>2, <3>3 DEF pv, nx
  <2>2. K.head = IF r = 1 THEN Node(n, o, 2) ELSE L.head
    <3>1. r = 1 => r + 1 = 2
      BY <1>1
    <3> QED
      BY <1>1, <1>3, <1>4, <3>1
  <2>3. n > 1 => K.tail = IF r = n THEN o[n - 1] ELSE L.tail
    <3>1. r = n /\ n > 1 => pv = o[n - 1]
      BY <1>1, <1>2
    <3> QED
      BY <1>3, <1>4, <3>1
  <2> HIDE DEF pv, nx, t
  <2> QED
    BY <1>0, <2>1, <2>2, <2>3, CutLinks
<1>6. \A u \in Timers \ (S \ {t}) : K.next[u] = NULL /\ K.prev[u] = NULL
  <2>1. ASSUME NEW u \in Timers \ S PROVE K.next[u] = NULL /\ K.prev[u] = NULL
    <3>1. u # t /\ (r # 1 => u # pv) /\ (r # n => u # nx)
      BY <1>0, <1>1, <1>2 DEF Nodes
    <3> QED
      BY <1>0, <1>3, <1>4, <3>1
  <2> QED
    BY <1>1, <1>4, <2>1
<1>7. K = Unlink(L, t)
  BY DEF K, M, Unlink
<1> QED
  BY <1>0, <1>4, <1>5, <1>6, <1>7, CutOrder DEF Chain

\* adjust_timer leaves the list as it is when t still fits, else it moves t
\* to where it fits behind its successor.
LEMMA RepositionIs ==
  ASSUME NEW L, NEW n, NEW o, NEW S, Chain(L, n, o, S), NEW r \in 1 .. n, NEW ex
  PROVE  \/ Reposition(L, ex, o[r]) = L /\ (r = n \/ ex[o[r]] < ex[o[r + 1]])
         \/ /\ r # n /\ ~(ex[o[r]] < ex[o[r + 1]])
            /\ \E q \in r + 1 .. n :
                 /\ Chain(Reposition(L, ex, o[r]), n, Ins(n - 1, Cut(n, o, r), q, o[r]), S)
                 /\ Fits(n - 1, Cut(n, o, r), r, ex, o[r], q)
<1> DEFINE t   == o[r]
           tmp == L.next[t]
           pv  == L.prev[t]
           p   == Cut(n, o, r)
           M   == IF t = L.head
                    THEN [L EXCEPT !.head = tmp, !.prev[tmp] = NULL, !.next[t] = NULL]
                    ELSE [L EXCEPT !.next[pv] = tmp, !.prev[tmp] = pv]
<1>0. /\ L \in Lists /\ Order(n, o) /\ Links(L, n, o) /\ Nodes(n, o) = S /\ n \in Nat
      /\ \A u \in Timers \ S : L.next[u] = NULL /\ L.prev[u] = NULL
      /\ \A i \in 1 .. n : o[i] \in Timers /\ o[i] # NULL
      /\ \A i, j \in 1 .. n : o[i] = o[j] => i = j
      /\ S \subseteq Timers
  BY NodeInOrder DEF Chain, Order
<1>1. /\ r \in Nat /\ r >= 1 /\ r <= n /\ 1 \in 1 .. n
      /\ t \in Timers /\ t # NULL /\ t \in S
      /\ t = L.head <=> r = 1
      /\ tmp = Node(n, o, r + 1) /\ pv = Node(n, o, r - 1)
  <2>1. r \in Nat /\ r >= 1 /\ r <= n /\ 1 \in 1 .. n
    BY <1>0
  <2>2. L.head = o[1]
    BY <1>0, <2>1 DEF Links, Node
  <2>3. t \in S
    BY <1>0 DEF Nodes
  <2> QED
    BY <1>0, <2>1, <2>2, <2>3 DEF Links
<1>2. /\ r # n => r + 1 \in 1 .. n /\ tmp = o[r + 1] /\ tmp \in Timers /\ tmp # t /\ tmp # NULL /\ tmp \in S
      /\ r = n => tmp = NULL
      /\ r # 1 => r - 1 \in 1 .. n /\ pv = o[r - 1] /\ pv \in Timers /\ pv # t /\ pv \in S
      /\ r = 1 => pv = NULL
  <2>1. (r # n => r + 1 \in 1 .. n /\ r + 1 # r) /\ (r = n => r + 1 \notin 1 .. n)
    BY <1>0, <1>1
  <2>2. (r # 1 => r - 1 \in 1 .. n /\ r - 1 # r) /\ (r = 1 => r - 1 \notin 1 .. n)
    BY <1>0, <1>1
  <2> QED
    BY <1>0, <1>1, <2>1, <2>2 DEF Node, Nodes
<1>3. CASE r = n
  BY <1>2, <1>3 DEF Reposition
<1>4. CASE r # n /\ ex[t] < ex[tmp]
  BY <1>2, <1>4 DEF Reposition
<1>5. CASE r # n /\ ~(ex[t] < ex[tmp])
  <2>1. Reposition(L, ex, t) = InsertAfter(M, ex, tmp, t)
    <3>1. CASE t = L.head
      BY <1>2, <1>5, <3>1 DEF Reposition
    <3>2. CASE t # L.head
      BY <1>2, <1>5, <3>2 DEF Reposition
    <3> QED
      BY <3>1, <3>2
  <2>2. /\ M \in Lists
        /\ M.head = (IF r = 1 THEN tmp ELSE L.head) /\ M.tail = L.tail
        /\ \A u \in Timers \ {t} : /\ M.next[u] = IF r # 1 /\ u = pv THEN tmp ELSE L.next[u]
                                   /\ M.prev[u] = IF u = tmp THEN pv ELSE L.prev[u]
    <3>0. NULL \in Pointers /\ Timers \subseteq Pointers /\ tmp \in Pointers /\ pv \in Pointers
      BY <1>0, <1>1 DEF Lists, Pointers
    <3>1. CASE r = 1
      <4>1. M = [L EXCEPT !.head = tmp, !.prev[tmp] = NULL, !.next[t] = NULL]
        BY <1>1, <3>1
      <4> HIDE DEF M, t, tmp, pv
      <4> QED
        BY <1>0, <1>1, <1>2, <1>5, <3>0, <3>1, <4>1 DEF Lists
    <3>2. CASE r # 1
      <4>1. M = [L EXCEPT !.next[pv] = tmp, !.prev[tmp] = pv]
        BY <1>1, <3>2
      <4> HIDE DEF M, t, tmp, pv
      <4> QED
        BY <1>0, <1>2, <1>5, <3>0, <3>2, <4>1 DEF Lists
    <3> QED
      BY <3>1, <3>2
  <2> HIDE DEF M
  <2>3. Order(n - 1, p) /\ Nodes(n - 1, p) = S \ {t}
    BY <1>0, CutOrder
  <2>4. Links(M, n - 1, p)
    <3>1. ASSUME NEW i \in 1 .. n, i # r
          PROVE  /\ M.next[o[i]] = IF i = r - 1 THEN Node(n, o, r + 1) ELSE L.next[o[i]]
                 /\ M.prev[o[i]] = IF i = r + 1 THEN Node(n, o, r - 1) ELSE L.prev[o[i]]
      <4>1. o[i] \in Timers /\ o[i] # t /\ o[i] # NULL
        BY <1>0, <3>1
      <4>2. r # 1 /\ o[i] = pv <=> i = r - 1
        BY <1>0, <1>1, <1>2, <4>1
      <4>3. o[i] = tmp <=> i = r + 1
        BY <1>0, <1>1, <1>2, <1>5, <4>1
      <4> HIDE DEF pv, tmp, t
      <4> QED
        BY <1>1, <2>2, <4>1, <4>2, <4>3 DEF pv, tmp
    <3>2. M.head = IF r = 1 THEN Node(n, o, 2) ELSE L.head
      <4>1. r = 1 => r + 1 = 2
        BY <1>1
      <4> QED
        BY <1>1, <2>2, <4>1
    <3>3. n > 1 => M.tail = IF r = n THEN o[n - 1] ELSE L.tail
      BY <1>5, <2>2
    <3> HIDE DEF pv, tmp, t
    <3> QED
      BY <1>0, <3>1, <3>2, <3>3, CutLinks
  <2>5. n - 1 \in Nat /\ (n - 1) + 1 = n /\ r \in 1 .. n - 1 /\ tmp = p[r]
    <3>1. n - 1 \in Nat /\ (n - 1) + 1 = n /\ r \in 1 .. n - 1 /\ ~(r < r)
      BY <1>0, <1>1, <1>5
    <3> QED
      BY <1>2, <1>5, <3>1 DEF Cut
  <2> DEFINE K == InsertAfter(M, ex, p[r], t)
  <2>6. t \in Timers \ Nodes(n - 1, p)
    BY <1>1, <2>3
  <2>7. PICK q \in r + 1 .. (n - 1) + 1 :
           /\ Links(K, (n - 1) + 1, Ins(n - 1, p, q, t)) /\ K \in Lists
           /\ \A u \in Timers \ (Nodes(n - 1, p) \cup {t}) : K.next[u] = M.next[u] /\ K.prev[u] = M.prev[u]
           /\ Fits(n - 1, p, r, ex, t, q)
    <3> HIDE DEF p, t
    <3> QED
      BY <2>2, <2>3, <2>4, <2>5, <2>6, InsertAfterIs
  <2>8. q \in 1 .. (n - 1) + 1
    BY <1>1, <2>5
  <2>9. Order(n, Ins(n - 1, p, q, t)) /\ Nodes(n, Ins(n - 1, p, q, t)) = S
    <3>1. Order((n - 1) + 1, Ins(n - 1, p, q, t)) /\ Nodes((n - 1) + 1, Ins(n - 1, p, q, t)) = (S \ {t}) \cup {t}
      BY <2>3, <2>6, <2>8, InsertOrder
    <3> QED
      BY <1>1, <2>5, <3>1
  <2>10. \A u \in Timers \ S : K.next[u] = NULL /\ K.prev[u] = NULL
    <3>1. ASSUME NEW u \in Timers \ S PROVE K.next[u] = NULL /\ K.prev[u] = NULL
      <4>1. u # t /\ (r # 1 => u # pv) /\ u # tmp /\ u \notin Nodes(n - 1, p) \cup {t}
        BY <1>1, <1>2, <1>5, <2>3
      <4> HIDE DEF K
      <4> QED
        BY <1>0, <2>2, <2>7, <4>1
    <3> QED
      BY <3>1
  <2> HIDE DEF K
  <2>11. Chain(K, n, Ins(n - 1, p, q, t), S)
    BY <2>5, <2>7, <2>9, <2>10 DEF Chain
  <2>12. Reposition(L, ex, t) = K
    BY <2>1, <2>5 DEF K
  <2> QED
    BY <1>2, <1>5, <2>5, <2>7, <2>11, <2>12
<1> QED
  BY <1>3, <1>4, <1>5

\* tick deletes a prefix of the list: up to the first node that is not due.
LEMMA DueIs ==
  ASSUME NEW L, NEW n, NEW o, NEW S, Chain(L, n, o, S), NEW ex, NEW cur
  PROVE  \E s \in 0 .. n : /\ Due(L, ex, cur) = {o[i] : i \in 1 .. s}
                           /\ s # n => cur < ex[o[s + 1]]
                           /\ \A i \in 1 .. s : ~(cur < ex[o[i]])
<1> DEFINE w == Walk(L, L.head)
           T == {i \in 0 .. N + 1 : w[i] = NULL \/ cur < ex[w[i]]}
           s == Min(T)
<1>0. /\ Order(n, o) /\ Links(L, n, o) /\ n \in Nat /\ N \in Nat
  BY NIsNat DEF Chain, Order
<1>1. n <= N /\ L.head = Node(n, o, 1) /\ 1 \in 1 .. n + 1
  BY <1>0, OrderIsShort DEF Links
<1>2. \A i \in 0 .. N + 1 : w[i] = Node(n, o, 1 + i)
  BY <1>0, <1>1, WalkIs
<1>3. Due(L, ex, cur) = {w[i] : i \in 0 .. s - 1}
  BY DEF Due, N
<1> HIDE DEF w
<1>4. n \in T
  <2>1. n \in 0 .. N + 1 /\ 1 + n \notin 1 .. n
    BY <1>0, <1>1
  <2> QED
    BY <1>2, <2>1 DEF Node
<1>5. T \subseteq Nat
  BY <1>0
<1>6. s \in T /\ \A i \in T : s <= i
  BY <1>4, <1>5, MinIs
<1>7. s \in 0 .. n /\ s \in Nat /\ s <= n
  BY <1>0, <1>4, <1>5, <1>6
<1>8. ASSUME NEW i \in 1 .. s
      PROVE  /\ i - 1 \in 0 .. s - 1 /\ i - 1 \in 0 .. N + 1 /\ i - 1 \notin T /\ w[i - 1] = o[i]
             /\ ~(cur < ex[o[i]])
  <2>1. /\ i - 1 \in 0 .. s - 1 /\ i - 1 \in 0 .. N + 1 /\ ~(s <= i - 1)
        /\ i \in 1 .. n /\ 1 + (i - 1) = i
    BY <1>0, <1>1, <1>7
  <2>2. i - 1 \notin T
    BY <1>6, <2>1
  <2>3. w[i - 1] = o[i]
    BY <1>2, <2>1 DEF Node
  <2> QED
    BY <2>1, <2>2, <2>3
<1>9. ASSUME s # n PROVE cur < ex[o[s + 1]]
  <2>1. s + 1 \in 1 .. n /\ 1 + s = s + 1 /\ s \in 0 .. N + 1
    BY <1>0, <1>1, <1>7, <1>9
  <2>2. w[s] = o[s + 1] /\ w[s] # NULL
    BY <1>0, <1>2, <2>1, NodeInOrder DEF Node
  <2> QED
    BY <1>6, <2>2
<1>10. ASSUME NEW i \in 0 .. s - 1 PROVE i + 1 \in 1 .. s /\ (i + 1) - 1 = i
  BY <1>7
<1> HIDE DEF s, T
<1>11. Due(L, ex, cur) = {o[i] : i \in 1 .. s}
  <2>1. \A i \in 0 .. s - 1 : w[i] \in {o[j] : j \in 1 .. s}
    BY <1>8, <1>10
  <2>2. \A j \in 1 .. s : o[j] \in {w[i] : i \in 0 .. s - 1}
    BY <1>8
  <2> QED
    BY <1>3, <2>1, <2>2
<1> QED
  BY <1>7, <1>8, <1>9, <1>11

\* What tick leaves is the rest of the list.
LEMMA AfterTickIs ==
  ASSUME NEW L, NEW n, NEW o, NEW S, Chain(L, n, o, S), n # 0, NEW ex, NEW cur,
         NEW s \in 0 .. n, Due(L, ex, cur) = {o[i] : i \in 1 .. s}
  PROVE  Chain(AfterTick(L, ex, cur), n - s, Shift(n, o, s), S \ Due(L, ex, cur))
<1> DEFINE due   == {o[i] : i \in 1 .. s}
           heads == {L.head} \cup {L.next[d] : d \in due}
           first == CHOOSE p \in heads : p \notin due
           f     == Node(n, o, s + 1)
           M     == [L EXCEPT !.head = first,
                       !.next = [t \in Timers |-> IF t \in due THEN NULL ELSE L.next[t]],
                       !.prev = [t \in Timers |-> IF t \in due \/ t = first THEN NULL ELSE L.prev[t]]]
<1>0. /\ L \in Lists /\ Order(n, o) /\ Links(L, n, o) /\ Nodes(n, o) = S /\ n \in Nat
      /\ \A u \in Timers \ S : L.next[u] = NULL /\ L.prev[u] = NULL
      /\ \A i \in 1 .. n : o[i] \in Timers /\ o[i] # NULL
      /\ \A i, j \in 1 .. n : o[i] = o[j] => i = j
  BY NodeInOrder DEF Chain, Order
<1>1. s \in Nat /\ s <= n /\ 1 \in 1 .. n /\ n >= 1 /\ L.head = o[1]
  <2>1. s \in Nat /\ s <= n /\ 1 \in 1 .. n /\ n >= 1
    BY <1>0
  <2> QED
    BY <1>0, <2>1 DEF Links, Node
<1>2. AfterTick(L, ex, cur) = M
  BY DEF AfterTick
<1>3. \A i \in 1 .. n : o[i] \in due <=> i \in 1 .. s
  BY <1>0, <1>1
<1>4. f \notin due
  <2>1. s + 1 \notin 1 .. s
    BY <1>1
  <2>2. \A i \in 1 .. s : i \in 1 .. n
    BY <1>0, <1>1
  <2>3. NULL \notin due
    BY <1>0, <2>2
  <2> QED
    BY <1>3, <2>1, <2>3 DEF Node
<1>5. f \in heads
  <2>1. CASE s = 0
    BY <1>1, <2>1 DEF Node
  <2>2. CASE s # 0
    <3>1. s \in 1 .. s /\ s \in 1 .. n
      BY <1>1, <2>2
    <3> QED
      BY <1>0, <3>1 DEF Links
  <2> QED
    BY <2>1, <2>2
<1>6. ASSUME NEW p \in heads, p \notin due PROVE p = f
  <2>1. CASE p = L.head
    <3>1. 1 \notin 1 .. s
      BY <1>1, <1>3, <1>6, <2>1
    <3>2. s = 0
      BY <1>1, <3>1
    <3> QED
      BY <1>1, <2>1, <3>2 DEF Node
  <2>2. ASSUME NEW i \in 1 .. s, p = L.next[o[i]] PROVE p = f
    <3>1. i \in 1 .. n /\ p = Node(n, o, i + 1)
      BY <1>0, <1>1, <2>2 DEF Links
    <3>2. CASE i = s
      BY <3>1, <3>2
    <3>3. CASE i # s
      <4>0. n \in Nat /\ i \in Nat /\ i >= 1 /\ i <= s
        BY <1>0, <1>1
      <4>1. i + 1 \in 1 .. s /\ i + 1 \in 1 .. n
        BY <1>1, <3>3, <4>0
      <4> QED
        BY <1>6, <3>1, <4>1 DEF Node
    <3> QED
      BY <3>2, <3>3
  <2> QED
    BY <2>1, <2>2
<1>7. first = f
  <2> HIDE DEF heads, due, f
  <2> QED
    BY <1>4, <1>5, <1>6
<1>8. /\ M \in Lists /\ M.head = f /\ M.tail = L.tail
      /\ \A u \in Timers : /\ M.next[u] = IF u \in due THEN NULL ELSE L.next[u]
                           /\ M.prev[u] = IF u \in due \/ u = f THEN NULL ELSE L.prev[u]
  <2>1. f \in Pointers
    BY <1>0 DEF Node, Pointers
  <2> HIDE DEF first, f, due
  <2> QED
    BY <1>0, <1>7, <2>1 DEF Lists, Pointers
<1> HIDE DEF M
<1>9. Links(M, n - s, Shift(n, o, s))
  <2>1. ASSUME NEW i \in s + 1 .. n
        PROVE  /\ M.next[o[i]] = L.next[o[i]]
               /\ M.prev[o[i]] = IF i = s + 1 THEN NULL ELSE L.prev[o[i]]
    <3>1. i \in 1 .. n /\ i \notin 1 .. s
      BY <1>1
    <3>2. o[i] \notin due /\ o[i] \in Timers
      BY <1>0, <1>3, <3>1
    <3>3. o[i] = f <=> i = s + 1
      BY <1>0, <3>1 DEF Node
    <3> HIDE DEF due, f
    <3> QED
      BY <1>8, <3>2, <3>3
  <2> QED
    BY <1>0, <1>8, <2>1, ShiftLinks
<1>10. \A u \in Timers \ (S \ due) : M.next[u] = NULL /\ M.prev[u] = NULL
  <2> HIDE DEF due, f
  <2> QED
    BY <1>0, <1>8
<1>11. Order(n - s, Shift(n, o, s)) /\ Nodes(n - s, Shift(n, o, s)) = S \ due
  BY <1>0, ShiftOrder
<1> HIDE DEF due
<1>12. Chain(M, n - s, Shift(n, o, s), S \ due)
  BY <1>8, <1>9, <1>10, <1>11 DEF Chain
<1> QED
  BY <1>2, <1>12 DEF due
-----------------------------------------------------------------------------
(* The order of the expiry times.                                          *)

LEMMA InsertSorts ==
  ASSUME NEW n, NEW o, Order(n, o), NEW ex \in [Timers -> Int], Sorted(ex, n, o),
         NEW t \in Timers, NEW k \in 0 .. n, k # 0 => ex[o[k]] <= ex[t],
         NEW q \in k + 1 .. n + 1, Fits(n, o, k, ex, t, q)
  PROVE  Sorted(ex, n + 1, Ins(n, o, q, t))
<1> DEFINE p == Ins(n, o, q, t)
<1>0. /\ n \in Nat /\ k \in Nat /\ k <= n /\ q \in Nat /\ q >= k + 1 /\ q <= n + 1
  BY DEF Order
<1>1. /\ \A i \in 1 .. n : o[i] \in Timers /\ ex[o[i]] \in Int
      /\ ex[t] \in Int
  BY DEF Order
<1>2. \A i \in 1 .. n + 1 : p[i] = IF i < q THEN o[i] ELSE IF i = q THEN t ELSE o[i - 1]
  BY DEF Ins
<1> HIDE DEF p
<1>3. ASSUME NEW i \in 1 .. n, i < q PROVE ex[o[i]] <= ex[t]
  <2>1. CASE i > k
    <3>1. i \in k + 1 .. q - 1
      BY <1>0, <1>3, <2>1
    <3> QED
      BY <1>1, <3>1 DEF Fits
  <2>2. CASE ~(i > k)
    <3>1. k \in 1 .. n /\ k # 0 /\ i <= k
      BY <1>0, <2>2
    <3>2. ex[o[i]] <= ex[o[k]]
      BY <3>1 DEF Sorted
    <3> QED
      BY <1>1, <3>1, <3>2
  <2> QED
    BY <2>1, <2>2
<1>4. ASSUME NEW i \in 1 .. n, ~(i < q) PROVE ex[t] <= ex[o[i]]
  <2>1. q \in 1 .. n /\ q <= i /\ q <= n
    BY <1>0, <1>4
  <2>2. ex[o[q]] <= ex[o[i]]
    BY <2>1 DEF Sorted
  <2>3. ex[t] < ex[o[q]]
    BY <2>1 DEF Fits
  <2> QED
    BY <1>1, <2>1, <2>2, <2>3
<1>5. ASSUME NEW i \in 1 .. n + 1
      PROVE  /\ i \in Nat
             /\ i < q => i \in 1 .. n
             /\ i > q => i - 1 \in 1 .. n /\ ~(i - 1 < q)
  <2>1. i \in Nat /\ i >= 1 /\ i <= n + 1
    BY <1>0
  <2> QED
    BY <1>0, <2>1
<1>6. ASSUME NEW i \in 1 .. n + 1, NEW j \in 1 .. n + 1, i <= j
      PROVE  ex[p[i]] <= ex[p[j]]
  <2>0. i \in Nat /\ j \in Nat
    BY <1>5
  <2>1. CASE i < q /\ j < q
    BY <1>2, <1>5, <1>6, <2>1 DEF Sorted
  <2>2. CASE i < q /\ j = q
    <3>1. p[i] = o[i] /\ p[j] = t
      BY <1>0, <1>2, <2>2
    <3> QED
      BY <1>3, <1>5, <2>2, <3>1
  <2>3. CASE i < q /\ j > q
    <3>1. p[i] = o[i] /\ p[j] = o[j - 1] /\ i \in 1 .. n /\ j - 1 \in 1 .. n
      BY <1>0, <1>2, <1>5, <2>0, <2>3
    <3>2. ex[o[i]] <= ex[t] /\ ex[t] <= ex[o[j - 1]]
      BY <1>3, <1>4, <1>5, <2>3, <3>1
    <3> QED
      BY <1>1, <3>1, <3>2
  <2>4. CASE i = q /\ j = q
    <3>1. p[i] = t /\ p[j] = t
      BY <1>0, <1>2, <2>4
    <3> QED
      BY <1>1, <3>1
  <2>5. CASE i = q /\ j > q
    <3>1. p[i] = t /\ p[j] = o[j - 1]
      BY <1>0, <1>2, <2>0, <2>5
    <3> QED
      BY <1>4, <1>5, <2>5, <3>1
  <2>6. CASE i > q /\ j > q
    <3>1. /\ p[i] = o[i - 1] /\ p[j] = o[j - 1] /\ i - 1 \in 1 .. n /\ j - 1 \in 1 .. n
          /\ i - 1 <= j - 1
      BY <1>0, <1>2, <1>5, <1>6, <2>0, <2>6
    <3> QED
      BY <3>1 DEF Sorted
  <2> QED
    BY <1>0, <1>6, <2>0, <2>1, <2>2, <2>3, <2>4, <2>5, <2>6
<1> QED
  BY <1>6 DEF Sorted, p

\* Whatever the expiry time of the node cut out becomes.
LEMMA CutSorts ==
  ASSUME NEW n, NEW o, Order(n, o), NEW r \in 1 .. n, NEW ex, NEW ey, Sorted(ex, n, o),
         \A u \in Timers : u # o[r] => ey[u] = ex[u]
  PROVE  Sorted(ey, n - 1, Cut(n, o, r))
<1>0. n \in Nat /\ r \in Nat
  BY DEF Order
<1>1. ASSUME NEW i \in 1 .. n - 1
      PROVE  /\ i \in 1 .. n /\ i + 1 \in 1 .. n
             /\ Cut(n, o, r)[i] = IF i < r THEN o[i] ELSE o[i + 1]
             /\ i \in Nat
             /\ ey[Cut(n, o, r)[i]] = ex[Cut(n, o, r)[i]]
  <2>1. i \in 1 .. n /\ i + 1 \in 1 .. n /\ i \in Nat
    BY <1>0
  <2>2. Cut(n, o, r)[i] = IF i < r THEN o[i] ELSE o[i + 1]
    BY DEF Cut
  <2>3. Cut(n, o, r)[i] \in Timers /\ Cut(n, o, r)[i] # o[r]
    <3>1. Order(n - 1, Cut(n, o, r)) /\ Nodes(n - 1, Cut(n, o, r)) = Nodes(n, o) \ {o[r]}
      BY CutOrder
    <3> QED
      BY <3>1 DEF Order, Nodes
  <2> QED
    BY <2>1, <2>2, <2>3
<1>2. ASSUME NEW i \in 1 .. n - 1, NEW j \in 1 .. n - 1, i <= j
      PROVE  ex[Cut(n, o, r)[i]] <= ex[Cut(n, o, r)[j]]
  <2>1. i \in Nat /\ j \in Nat /\ i + 1 <= j + 1 /\ i <= j + 1
    BY <1>1, <1>2
  <2>2. CASE i < r /\ j < r
    BY <1>1, <1>2, <2>2 DEF Sorted
  <2>3. CASE i < r /\ ~(j < r)
    BY <1>1, <2>1, <2>3 DEF Sorted
  <2>4. CASE ~(i < r) /\ ~(j < r)
    BY <1>1, <2>1, <2>4 DEF Sorted
  <2> QED
    BY <1>0, <1>2, <2>1, <2>2, <2>3, <2>4
<1> QED
  BY <1>1, <1>2 DEF Sorted

LEMMA ShiftSorts ==
  ASSUME NEW n, NEW o, Order(n, o), NEW s \in 0 .. n, NEW ex, NEW ey, Sorted(ex, n, o),
         \A i \in s + 1 .. n : ey[o[i]] = ex[o[i]]
  PROVE  Sorted(ey, n - s, Shift(n, o, s))
<1>0. n \in Nat /\ s \in Nat
  BY DEF Order
<1>1. ASSUME NEW i \in 1 .. n - s, NEW j \in 1 .. n - s, i <= j
      PROVE  ey[Shift(n, o, s)[i]] <= ey[Shift(n, o, s)[j]]
  <2>1. i + s \in s + 1 .. n /\ j + s \in s + 1 .. n /\ i + s \in 1 .. n /\ j + s \in 1 .. n /\ i + s <= j + s
    BY <1>0, <1>1
  <2>2. Shift(n, o, s)[i] = o[i + s] /\ Shift(n, o, s)[j] = o[j + s]
    BY DEF Shift
  <2> QED
    BY <2>1, <2>2 DEF Sorted
<1> QED
  BY <1>1 DEF Sorted
-----------------------------------------------------------------------------
(* The inductive invariant: some order of the nodes handed to the list is  *)
(* the one its pointers describe, whatever the clock does; while the clock *)
(* is never set back, the expiry times ascend along that order and none is *)
(* farther away than the longest delay.                                    *)

Forward == ClockSteps \subseteq Nat

Ordered ==
  \E n \in 0 .. N : \E o \in [1 .. n -> Timers] :
    Chain(lst, n, o, alive) /\ (Forward => Sorted(expire, n, o))

IInv ==
  /\ TypeOK
  /\ Ordered
  /\ Forward => \A t \in alive : expire[t] <= now + Max(Delays)

LEMMA InitInv == Init => IInv
<1> SUFFICES ASSUME Init PROVE IInv
  OBVIOUS
<1> DEFINE o == [i \in 1 .. 0 |-> NULL]
<1>1. 0 \in 0 .. N /\ 1 .. 0 = {} /\ 0 \in Nat
  BY NIsNat
<1>2. o \in [1 .. 0 -> Timers] /\ Nodes(0, o) = {} /\ \A i : Node(0, o, i) = NULL
  BY <1>1 DEF Nodes, Node
<1> HIDE DEF o
<1>3. lst \in Lists /\ lst.head = NULL /\ \A t \in Timers : lst.next[t] = NULL /\ lst.prev[t] = NULL
  BY DEF Init, Lists, Pointers
<1>4. Chain(lst, 0, o, alive)
  BY <1>1, <1>2, <1>3 DEF Chain, Order, Links, Init
<1>5. Sorted(expire, 0, o)
  BY <1>1 DEF Sorted
<1>6. TypeOK
  BY <1>3, DelayMax, TimerListAssumption DEF TypeOK, Init, Lists
<1> QED
  BY <1>1, <1>2, <1>4, <1>5, <1>6 DEF IInv, Ordered, Init

LEMMA OrderOf ==
  ASSUME IInv
  PROVE  \E n \in Nat : \E o : Chain(lst, n, o, alive) /\ (Forward => Sorted(expire, n, o))
  BY DEF IInv, Ordered

LEMMA OrderNext ==
  ASSUME NEW n, NEW o, Chain(lst', n, o, alive'), Forward => Sorted(expire', n, o)
  PROVE  Ordered'
<1>1. Order(n, o) /\ n \in Nat /\ o \in [1 .. n -> Timers]
  BY DEF Chain, Order
<1>2. n \in 0 .. N
  BY <1>1, OrderIsShort, NIsNat
<1> QED
  BY <1>1, <1>2 DEF Ordered

LEMMA TypeFacts ==
  ASSUME TypeOK
  PROVE  /\ lst \in Lists /\ alive \subseteq Timers
         /\ now \in Nat /\ now <= MaxTime /\ MaxTime \in Nat
         /\ expire \in [Timers -> Nat] /\ expire \in [Timers -> Int]
         /\ \A t \in Timers : expire[t] <= MaxTime + Max(Delays)
<1>1. MaxTime \in Nat /\ Max(Delays) \in Nat
  BY DelayMax, TimerListAssumption
<1> QED
  BY <1>1 DEF TypeOK, Lists

LEMMA AddStep ==
  ASSUME IInv, NEW t \in Timers, NEW d \in Delays, Add(t, d)
  PROVE  IInv'
<1>0. TypeOK /\ d \in Nat /\ d <= Max(Delays) /\ Max(Delays) \in Nat
  BY DelayMax DEF IInv
<1>1. PICK n \in Nat : \E o : Chain(lst, n, o, alive) /\ (Forward => Sorted(expire, n, o))
  BY OrderOf
<1>2. PICK o : Chain(lst, n, o, alive) /\ (Forward => Sorted(expire, n, o))
  BY <1>1
<1>3. t \in Timers \ alive /\ lst' = Insert(lst, expire', t) /\ now' = now /\ alive' = alive \cup {t}
  BY DEF Add
<1>4. /\ expire' \in [Timers -> 0 .. MaxTime + Max(Delays)] /\ expire'[t] = now + d
      /\ expire' \in [Timers -> Int]
      /\ \A u \in Timers : u # t => expire'[u] = expire[u]
  <2>1. now + d \in 0 .. MaxTime + Max(Delays) /\ now + d \in Int
    BY <1>0, TypeFacts
  <2> QED
    BY <1>0, <2>1, TypeFacts DEF Add, TypeOK
<1>5. PICK q \in 1 .. n + 1 : /\ Chain(lst', n + 1, Ins(n, o, q, t), alive')
                              /\ Fits(n, o, 0, expire', t, q)
  BY <1>2, <1>3, InsertIs
<1>6. ASSUME Forward PROVE Sorted(expire', n + 1, Ins(n, o, q, t))
  <2>1. Order(n, o) /\ t \notin Nodes(n, o)
    BY <1>2, <1>3 DEF Chain
  <2>2. Sorted(expire', n, o)
    <3>1. \A i \in 1 .. n : expire'[o[i]] = expire[o[i]]
      BY <1>4, <2>1, NodeInOrder DEF Nodes
    <3> QED
      BY <1>2, <1>6, <3>1 DEF Sorted
  <2>3. 0 \in 0 .. n /\ q \in 0 + 1 .. n + 1
    BY <1>1
  <2> QED
    BY <1>4, <1>5, <2>1, <2>2, <2>3, InsertSorts
<1>7. TypeOK'
  <2>1. lst' \in Lists
    BY <1>5 DEF Chain
  <2> QED
    BY <1>0, <1>3, <1>4, <2>1 DEF TypeOK, Lists
<1>8. ASSUME Forward, NEW u \in alive' PROVE expire'[u] <= now' + Max(Delays)
  <2>1. u = t \/ (u # t /\ u \in alive /\ u \in Timers)
    BY <1>0, <1>3, TypeFacts
  <2>2. CASE u = t
    BY <1>0, <1>3, <1>4, <2>2, TypeFacts
  <2>3. CASE u # t /\ u \in alive /\ u \in Timers
    BY <1>3, <1>4, <1>8, <2>3 DEF IInv
  <2> QED
    BY <2>1, <2>2, <2>3
<1> QED
  BY <1>5, <1>6, <1>7, <1>8, OrderNext DEF IInv

LEMMA AdjustStep ==
  ASSUME IInv, NEW t \in Timers, Adjust(t)
  PROVE  IInv'
<1>0. TypeOK /\ Max(Delays) \in Nat
  BY DelayMax DEF IInv
<1>1. PICK n \in Nat : \E o : Chain(lst, n, o, alive) /\ (Forward => Sorted(expire, n, o))
  BY OrderOf
<1>2. PICK o : Chain(lst, n, o, alive) /\ (Forward => Sorted(expire, n, o))
  BY <1>1
<1>3. /\ t \in alive /\ lst' = Reposition(lst, expire', t) /\ now' = now /\ alive' = alive
      /\ Order(n, o) /\ Nodes(n, o) = alive
  BY <1>2 DEF Adjust, Chain
<1>4. /\ expire' \in [Timers -> 0 .. MaxTime + Max(Delays)] /\ expire'[t] = now + Max(Delays)
      /\ expire' \in [Timers -> Int]
      /\ \A u \in Timers : u # t => expire'[u] = expire[u]
  <2>1. now + Max(Delays) \in 0 .. MaxTime + Max(Delays) /\ now + Max(Delays) \in Int
    BY <1>0, TypeFacts
  <2> QED
    BY <1>0, <2>1, TypeFacts DEF Adjust, TypeOK
<1>5. PICK r \in 1 .. n : o[r] = t
  BY <1>3 DEF Nodes
<1>6. \A i \in 1 .. n : o[i] \in Timers /\ (o[i] = t <=> i = r)
  BY <1>3, <1>5 DEF Order
<1>7. \/ lst' = lst /\ (r = n \/ expire'[t] < expire'[o[r + 1]])
      \/ /\ r # n /\ ~(expire'[t] < expire'[o[r + 1]])
         /\ \E q \in r + 1 .. n :
              /\ Chain(lst', n, Ins(n - 1, Cut(n, o, r), q, t), alive)
              /\ Fits(n - 1, Cut(n, o, r), r, expire', t, q)
  BY <1>2, <1>3, <1>5, RepositionIs
<1>8. ASSUME lst' = lst, r = n \/ expire'[t] < expire'[o[r + 1]]
      PROVE  Ordered'
  <2>1. ASSUME Forward PROVE Sorted(expire', n, o)
    <3>1. expire[t] <= expire'[t]
      BY <1>3, <1>4, <2>1 DEF IInv
    <3>2. ASSUME NEW i \in 1 .. n, NEW j \in 1 .. n, i <= j
          PROVE  expire'[o[i]] <= expire'[o[j]]
      <4>0. i \in Nat /\ j \in Nat /\ r \in Nat /\ i <= n /\ j <= n
        BY <1>1
      <4>1. expire[o[i]] <= expire[o[j]]
        BY <1>2, <2>1, <3>2 DEF Sorted
      <4>2. \A k \in 1 .. n : expire[o[k]] \in Int /\ expire'[o[k]] \in Int
        BY <1>0, <1>4, <1>6, TypeFacts
      <4>3. CASE i # r
        <5>1. expire'[o[i]] = expire[o[i]] /\ expire[o[j]] <= expire'[o[j]]
          BY <1>4, <1>6, <3>1, <4>2, <4>3
        <5> QED
          BY <4>1, <4>2, <5>1
      <4>4. CASE i = r /\ j = r
        BY <4>2, <4>4
      <4>5. CASE i = r /\ j # r
        <5>1. r # n /\ r + 1 <= j /\ r + 1 \in 1 .. n
          BY <1>1, <3>2, <4>0, <4>5
        <5>2. expire[o[r + 1]] <= expire[o[j]]
          BY <1>2, <2>1, <5>1 DEF Sorted
        <5>3. expire'[o[r + 1]] = expire[o[r + 1]] /\ expire'[o[j]] = expire[o[j]]
          <6>1. r + 1 # r
            BY <4>0
          <6> QED
            BY <1>4, <1>6, <4>5, <5>1, <6>1
        <5>4. expire'[o[r]] < expire'[o[r + 1]]
          BY <1>5, <1>8, <5>1
        <5> QED
          BY <4>2, <4>5, <5>1, <5>2, <5>3, <5>4
      <4> QED
        BY <4>3, <4>4, <4>5
    <3> QED
      BY <3>2 DEF Sorted
  <2>2. Chain(lst', n, o, alive')
    BY <1>2, <1>3, <1>8
  <2> QED
    BY <2>1, <2>2, OrderNext
<1>9. ASSUME r # n, ~(expire'[t] < expire'[o[r + 1]]),
             NEW q \in r + 1 .. n,
             Chain(lst', n, Ins(n - 1, Cut(n, o, r), q, t), alive),
             Fits(n - 1, Cut(n, o, r), r, expire', t, q)
      PROVE  Ordered'
  <2> DEFINE p == Cut(n, o, r)
  <2>0. /\ n - 1 \in Nat /\ (n - 1) + 1 = n /\ r \in 0 .. n - 1 /\ r \in 1 .. n - 1 /\ ~(r < r)
        /\ r + 1 \in 1 .. n
    BY <1>1, <1>9
  <2>1. p[r] = o[r + 1]
    BY <2>0 DEF Cut
  <2>2. expire'[p[r]] <= expire'[t]
    BY <1>4, <1>6, <1>9, <2>0, <2>1
  <2>3. Order(n - 1, p)
    BY <1>3, CutOrder
  <2>4. ASSUME Forward PROVE Sorted(expire', n, Ins(n - 1, p, q, t))
    <3>1. Sorted(expire', n - 1, p)
      BY <1>2, <1>3, <1>4, <1>5, <2>4, CutSorts
    <3>2. q \in r + 1 .. (n - 1) + 1
      BY <2>0
    <3> HIDE DEF p
    <3>3. Fits(n - 1, p, r, expire', t, q)
      BY <1>9 DEF p
    <3>4. Sorted(expire', (n - 1) + 1, Ins(n - 1, p, q, t))
      BY <1>4, <2>0, <2>2, <2>3, <3>1, <3>2, <3>3, InsertSorts
    <3> QED
      BY <2>0, <3>4
  <2> QED
    BY <1>3, <1>9, <2>4, OrderNext
<1>10. Ordered'
  BY <1>7, <1>8, <1>9
<1>11. TypeOK'
  <2>1. lst' \in Lists
    BY <1>10 DEF Ordered, Chain
  <2> QED
    BY <1>0, <1>3, <1>4, <2>1 DEF TypeOK, Lists
<1>12. ASSUME Forward, NEW u \in alive' PROVE expire'[u] <= now' + Max(Delays)
  <2>1. CASE u = t
    BY <1>0, <1>3, <1>4, <2>1, TypeFacts
  <2>2. CASE u # t
    BY <1>0, <1>3, <1>4, <1>12, <2>2, TypeFacts DEF IInv
  <2> QED
    BY <2>1, <2>2
<1> QED
  BY <1>10, <1>11, <1>12 DEF IInv

LEMMA DelStep ==
  ASSUME IInv, NEW t \in Timers, Del(t)
  PROVE  IInv'
<1>0. TypeOK /\ Max(Delays) \in Nat
  BY DelayMax DEF IInv
<1>1. PICK n \in Nat : \E o : Chain(lst, n, o, alive) /\ (Forward => Sorted(expire, n, o))
  BY OrderOf
<1>2. PICK o : Chain(lst, n, o, alive) /\ (Forward => Sorted(expire, n, o))
  BY <1>1
<1>3. /\ t \in alive /\ lst' = Unlink(lst, t) /\ now' = now /\ alive' = alive \ {t}
      /\ Order(n, o) /\ Nodes(n, o) = alive
  BY <1>2 DEF Del, Chain
<1>4. PICK r \in 1 .. n : o[r] = t
  BY <1>3 DEF Nodes
<1>5. Chain(lst', n - 1, Cut(n, o, r), alive')
  BY <1>2, <1>3, <1>4, UnlinkIs
<1>6. /\ expire' \in [Timers -> 0 .. MaxTime + Max(Delays)]
      /\ \A u \in Timers : u # t => expire'[u] = expire[u]
  <2>1. 0 \in 0 .. MaxTime + Max(Delays)
    BY <1>0, TypeFacts
  <2> QED
    BY <1>0, <2>1 DEF Del, TypeOK
<1>7. Forward => Sorted(expire', n - 1, Cut(n, o, r))
  BY <1>2, <1>3, <1>4, <1>6, CutSorts
<1>8. TypeOK'
  <2>1. lst' \in Lists
    BY <1>5 DEF Chain
  <2> QED
    BY <1>0, <1>3, <1>6, <2>1 DEF TypeOK, Lists
<1>9. ASSUME Forward, NEW u \in alive' PROVE expire'[u] <= now' + Max(Delays)
  BY <1>0, <1>3, <1>6, <1>9, TypeFacts DEF IInv
<1> QED
  BY <1>5, <1>7, <1>8, <1>9, OrderNext DEF IInv

LEMMA TickStep ==
  ASSUME IInv, Tick
  PROVE  IInv'
<1>0. TypeOK /\ Max(Delays) \in Nat
  BY DelayMax DEF IInv
<1>1. PICK n \in Nat : \E o : Chain(lst, n, o, alive) /\ (Forward => Sorted(expire, n, o))
  BY OrderOf
<1>2. PICK o : Chain(lst, n, o, alive) /\ (Forward => Sorted(expire, n, o))
  BY <1>1
<1> DEFINE due == Due(lst, expire, now)
<1>3. /\ lst.head # NULL /\ lst' = AfterTick(lst, expire, now) /\ now' = now /\ alive' = alive \ due
      /\ expire' = [t \in Timers |-> IF t \in due THEN 0 ELSE expire[t]]
  BY DEF Tick
<1>4. n # 0
  BY <1>2, <1>3, NodeInOrder DEF Chain, Links, Node
<1>5. PICK s \in 0 .. n : /\ due = {o[i] : i \in 1 .. s}
                          /\ s # n => now < expire[o[s + 1]]
                          /\ \A i \in 1 .. s : ~(now < expire[o[i]])
  BY <1>2, DueIs
<1> HIDE DEF due
<1>6. Chain(lst', n - s, Shift(n, o, s), alive')
  BY <1>2, <1>3, <1>4, <1>5, AfterTickIs DEF due
<1>7. expire' \in [Timers -> 0 .. MaxTime + Max(Delays)]
  <2>1. 0 \in 0 .. MaxTime + Max(Delays)
    BY <1>0, TypeFacts
  <2> QED
    BY <1>0, <1>3, <2>1 DEF TypeOK
<1>8. ASSUME Forward PROVE Sorted(expire', n - s, Shift(n, o, s))
  <2>1. Order(n, o)
    BY <1>2 DEF Chain
  <2>2. ASSUME NEW i \in s + 1 .. n PROVE expire'[o[i]] = expire[o[i]]
    <3>1. i \in 1 .. n /\ i \notin 1 .. s /\ \A j \in 1 .. s : j \in 1 .. n
      BY <1>1
    <3>2. o[i] \in Timers /\ o[i] \notin due
      BY <1>5, <2>1, <3>1 DEF Order
    <3> QED
      BY <1>3, <3>2
  <2> QED
    BY <1>2, <1>8, <2>1, <2>2, ShiftSorts
<1>9. TypeOK'
  <2>1. lst' \in Lists
    BY <1>6 DEF Chain
  <2> QED
    BY <1>0, <1>3, <1>7, <2>1 DEF TypeOK, Lists
<1>10. ASSUME Forward, NEW u \in alive' PROVE expire'[u] <= now' + Max(Delays)
  <2>1. u \in alive /\ u \in Timers /\ u \notin due /\ now' = now
    BY <1>0, <1>3, TypeFacts
  <2> QED
    BY <1>3, <1>10, <2>1 DEF IInv
<1> QED
  BY <1>6, <1>8, <1>9, <1>10, OrderNext DEF IInv

LEMMA ClockStep ==
  ASSUME IInv, Clock
  PROVE  IInv'
<1>0. TypeOK /\ Max(Delays) \in Nat
  BY DelayMax DEF IInv
<1>1. UNCHANGED <<lst, expire, alive>> /\ now' \in 0 .. MaxTime
  BY DEF Clock
<1>2. TypeOK'
  BY <1>0, <1>1 DEF TypeOK
<1>3. Ordered'
  BY <1>1 DEF IInv, Ordered
<1>4. ASSUME Forward, NEW u \in alive' PROVE expire'[u] <= now' + Max(Delays)
  <2>1. now' \in Nat /\ now \in Nat /\ now <= now'
    <3>1. PICK s \in ClockSteps : now' = now + s
      BY DEF Clock
    <3>2. s \in Nat
      BY <1>4 DEF Forward
    <3> QED
      BY <1>0, <3>1, <3>2, TypeFacts
  <2>2. expire'[u] = expire[u] /\ expire[u] \in Nat /\ expire[u] <= now + Max(Delays)
    BY <1>0, <1>1, <1>4, TypeFacts DEF IInv
  <2> QED
    BY <1>0, <2>1, <2>2
<1> QED
  BY <1>2, <1>3, <1>4 DEF IInv

LEMMA Inductive == IInv /\ [Next]_vars => IInv'
<1> SUFFICES ASSUME IInv, [Next]_vars PROVE IInv'
  OBVIOUS
<1>1. ASSUME NEW t \in Timers, NEW d \in Delays, Add(t, d) PROVE IInv'
  BY <1>1, AddStep
<1>2. ASSUME NEW t \in Timers, Adjust(t) PROVE IInv'
  BY <1>2, AdjustStep
<1>3. ASSUME NEW t \in Timers, Del(t) PROVE IInv'
  BY <1>3, DelStep
<1>4. CASE Tick
  BY <1>4, TickStep
<1>5. CASE Clock
  BY <1>5, ClockStep
<1>6. CASE UNCHANGED vars
  <2>1. lst' = lst /\ expire' = expire /\ alive' = alive /\ now' = now
    BY <1>6 DEF vars
  <2>2. TypeOK'
    BY <2>1 DEF IInv, TypeOK
  <2> QED
    BY <2>1, <2>2 DEF IInv, Ordered
<1> QED
  BY <1>1, <1>2, <1>3, <1>4, <1>5, <1>6 DEF Next

LEMMA Invariant == Spec => []IInv
  BY InitInv, Inductive, PTL DEF Spec
-----------------------------------------------------------------------------
(* The theorems.                                                           *)

LEMMA ChainIsIntact ==
  ASSUME TypeOK, NEW n \in Nat, NEW o, Chain(lst, n, o, alive)
  PROVE  ListIntact
<1>0. /\ Order(n, o) /\ Links(lst, n, o) /\ Nodes(n, o) = alive /\ N \in Nat /\ n <= N
      /\ lst.head = Node(n, o, 1) /\ 1 \in 1 .. n + 1
  BY NIsNat, OrderIsShort DEF Chain, Links
<1>1. \A i \in 0 .. N + 1 : Walk(lst, lst.head)[i] = Node(n, o, 1 + i)
  BY <1>0, WalkIs
<1>2. Listed = alive
  <2>1. ASSUME NEW i \in 0 .. N, Walk(lst, lst.head)[i] # NULL
        PROVE  Walk(lst, lst.head)[i] \in alive
    <3>1. i \in 0 .. N + 1
      BY <1>0
    <3> QED
      BY <1>0, <1>1, <2>1, <3>1 DEF Node, Nodes
  <2>2. ASSUME NEW j \in 1 .. n
        PROVE  j - 1 \in 0 .. N /\ Walk(lst, lst.head)[j - 1] = o[j] /\ o[j] # NULL
    <3>1. j - 1 \in 0 .. N /\ j - 1 \in 0 .. N + 1 /\ 1 + (j - 1) = j
      BY <1>0
    <3> QED
      BY <1>0, <1>1, <3>1, NodeInOrder DEF Node
  <2>3. Listed \subseteq alive
    BY <2>1 DEF Listed, N
  <2>4. alive \subseteq Listed
    BY <1>0, <2>2 DEF Listed, N, Nodes
  <2> QED
    BY <2>3, <2>4
<1>3. Walk(lst, lst.head)[Cardinality(Timers)] = NULL
  <2>1. N \in 0 .. N + 1 /\ 1 + N \notin 1 .. n
    BY <1>0
  <2> QED
    BY <1>1, <2>1 DEF Node, N
<1>4. ASSUME lst.head # NULL
      PROVE  lst.prev[lst.head] = NULL /\ lst.next[lst.tail] = NULL /\ lst.tail \in alive
  <2>1. 1 \in 1 .. n /\ n \in 1 .. n /\ n > 0 /\ 1 - 1 \notin 1 .. n /\ n + 1 \notin 1 .. n
    BY <1>0, <1>4 DEF Node
  <2> QED
    BY <1>0, <2>1 DEF Links, Node, Nodes
<1>5. ASSUME NEW t \in alive, lst.next[t] # NULL PROVE lst.prev[lst.next[t]] = t
  <2>1. PICK i \in 1 .. n : t = o[i]
    BY <1>0 DEF Nodes
  <2>2. lst.next[t] = o[i + 1] /\ i + 1 \in 1 .. n
    BY <1>0, <1>5, <2>1 DEF Links, Node
  <2>3. (i + 1) - 1 = i
    BY <2>1
  <2> QED
    BY <1>0, <2>1, <2>2, <2>3 DEF Links, Node
<1> QED
  BY <1>2, <1>3, <1>4, <1>5 DEF ListIntact

(* Whatever the clock does, also when it is set back, every call of        *)
(* lst_timer.h leaves a well-formed doubly linked list of exactly the      *)
(* timers it was handed: no node is lost, no link is wrong, tail is last.  *)
THEOREM ListStaysIntact == Spec => []ListIntact
<1>1. IInv => ListIntact
  <2> SUFFICES ASSUME IInv PROVE ListIntact
    OBVIOUS
  <2>1. TypeOK
    BY DEF IInv
  <2>2. PICK n \in Nat : \E o : Chain(lst, n, o, alive)
    BY OrderOf
  <2> QED
    BY <2>1, <2>2, ChainIsIntact
<1> QED
  BY <1>1, Invariant, PTL

(* While the wall clock is never set back, the list is always in the       *)
(* ascending order tick relies on (lst_timer.h:189), although adjust_timer *)
(* only ever moves a node backwards.                                       *)
THEOREM ListStaysAscending ==
  ASSUME ClockSteps \subseteq Nat
  PROVE  Spec => []Ascending
<1>1. IInv => Ascending
  <2> SUFFICES ASSUME IInv PROVE Ascending
    OBVIOUS
  <2>1. PICK n \in Nat : \E o : Chain(lst, n, o, alive) /\ (Forward => Sorted(expire, n, o))
    BY OrderOf
  <2>2. PICK o : Chain(lst, n, o, alive) /\ Sorted(expire, n, o)
    BY <2>1 DEF Forward
  <2>3. ASSUME NEW t \in alive, lst.next[t] # NULL PROVE expire[t] <= expire[lst.next[t]]
    <3>1. PICK i \in 1 .. n : t = o[i]
      BY <2>2 DEF Chain, Nodes
    <3>2. lst.next[t] = o[i + 1] /\ i + 1 \in 1 .. n
      BY <2>2, <2>3, <3>1 DEF Chain, Links, Node
    <3>3. i <= i + 1
      OBVIOUS
    <3> QED
      BY <2>2, <3>1, <3>2, <3>3 DEF Sorted
  <2> QED
    BY <2>3 DEF Ascending
<1> QED
  BY <1>1, Invariant, PTL
-----------------------------------------------------------------------------
(* The refinement.                                                         *)

Left == [t \in Timers |-> TimeLeft(t)]

\* While the list is ascending, what tick deletes from its front are all the
\* timers that are due.
LEMMA DueIsExpired ==
  ASSUME IInv, Forward
  PROVE  Due(lst, expire, now) = {t \in alive : TimeLeft(t) = 0}
<1>0. TypeOK
  BY DEF IInv
<1>1. PICK n \in Nat : \E o : Chain(lst, n, o, alive) /\ (Forward => Sorted(expire, n, o))
  BY OrderOf
<1>2. PICK o : Chain(lst, n, o, alive) /\ Sorted(expire, n, o)
  BY <1>1
<1>3. PICK s \in 0 .. n : /\ Due(lst, expire, now) = {o[i] : i \in 1 .. s}
                          /\ s # n => now < expire[o[s + 1]]
                          /\ \A i \in 1 .. s : ~(now < expire[o[i]])
  BY <1>2, DueIs
<1>4. Order(n, o) /\ Nodes(n, o) = alive /\ alive \subseteq Timers
  BY <1>0, <1>2, TypeFacts DEF Chain
<1>5. \A t \in alive : TimeLeft(t) = 0 <=> ~(now < expire[t])
  BY <1>0, <1>4, TypeFacts DEF TimeLeft
<1>6. ASSUME NEW i \in 1 .. s PROVE o[i] \in alive /\ TimeLeft(o[i]) = 0
  <2>1. i \in 1 .. n
    OBVIOUS
  <2> QED
    BY <1>3, <1>4, <1>5, <2>1 DEF Nodes
<1>7. ASSUME NEW i \in 1 .. n, TimeLeft(o[i]) = 0 PROVE i \in 1 .. s
  <2> SUFFICES ASSUME i \notin 1 .. s PROVE FALSE
    OBVIOUS
  <2>1. s + 1 \in 1 .. n /\ s + 1 <= i /\ s # n
    OBVIOUS
  <2>2. expire[o[s + 1]] <= expire[o[i]]
    BY <1>2, <2>1 DEF Sorted
  <2>3. now < expire[o[s + 1]] /\ ~(now < expire[o[i]])
    BY <1>3, <1>4, <1>5, <1>7, <2>1 DEF Nodes
  <2>4. expire[o[s + 1]] \in Nat /\ expire[o[i]] \in Nat /\ now \in Nat
    BY <1>0, <1>4, <2>1, TypeFacts, NodeInOrder
  <2> QED
    BY <2>2, <2>3, <2>4
<1> QED
  BY <1>3, <1>4, <1>6, <1>7 DEF Nodes

LEMMA StepImplements ==
  ASSUME ClockSteps \subseteq {0, 1}, IInv, [Next]_vars
  PROVE  [Abstract!Next]_<<alive, Left>>
<1>0. /\ TypeOK /\ Forward
      /\ now \in Nat /\ alive \subseteq Timers /\ expire \in [Timers -> Nat]
      /\ \A t \in alive : expire[t] <= now + Max(Delays)
      /\ Max(Delays) \in Delays /\ Max(Delays) \in Nat /\ Delays \subseteq Nat
  BY DelayMax, TypeFacts DEF IInv, Forward
<1>1. ASSUME NEW t \in Timers, NEW d \in Delays, Add(t, d) PROVE Abstract!Next
  <2>1. /\ t \in Timers \ alive /\ alive' = alive \cup {t} /\ now' = now
        /\ expire' = [expire EXCEPT ![t] = now + d] /\ d \in Nat
    BY <1>0, <1>1 DEF Add
  <2>2. Left' = [Left EXCEPT ![t] = d]
    <3>1. TimeLeft(t)' = d
      BY <1>0, <2>1 DEF TimeLeft
    <3>2. \A u \in Timers : u # t => TimeLeft(u)' = TimeLeft(u)
      BY <1>0, <2>1 DEF TimeLeft
    <3> QED
      BY <3>1, <3>2 DEF Left
  <2>3. Abstract!Add(t, d)
    BY <2>1, <2>2 DEF Abstract!Add, Left
  <2> QED
    BY <2>1, <2>3 DEF Abstract!Next
<1>2. ASSUME NEW t \in Timers, Adjust(t) PROVE Abstract!Next
  <2>1. /\ t \in alive /\ alive' = alive /\ now' = now
        /\ expire' = [expire EXCEPT ![t] = now + Max(Delays)]
    BY <1>2 DEF Adjust
  <2>2. Left' = [Left EXCEPT ![t] = Max(Delays)]
    <3>1. TimeLeft(t)' = Max(Delays)
      BY <1>0, <2>1 DEF TimeLeft
    <3>2. \A u \in Timers : u # t => TimeLeft(u)' = TimeLeft(u)
      BY <1>0, <2>1 DEF TimeLeft
    <3> QED
      BY <3>1, <3>2 DEF Left
  <2>3. Max(Delays) >= Left[t]
    BY <1>0, <2>1 DEF Left, TimeLeft
  <2>4. Abstract!Adjust(t, Max(Delays))
    BY <2>1, <2>2, <2>3 DEF Abstract!Adjust, Left
  <2> QED
    BY <1>0, <2>1, <2>4 DEF Abstract!Next
<1>3. ASSUME NEW t \in Timers, Del(t) PROVE Abstract!Next
  <2>1. /\ t \in alive /\ alive' = alive \ {t} /\ now' = now
        /\ expire' = [expire EXCEPT ![t] = 0]
    BY <1>3 DEF Del
  <2>2. Left' = [Left EXCEPT ![t] = 0]
    <3>1. TimeLeft(t)' = 0
      BY <2>1 DEF TimeLeft
    <3>2. \A u \in Timers : u # t => TimeLeft(u)' = TimeLeft(u)
      BY <1>0, <2>1 DEF TimeLeft
    <3> QED
      BY <3>1, <3>2 DEF Left
  <2>3. Abstract!Del(t)
    BY <2>1, <2>2 DEF Abstract!Del, Left
  <2> QED
    BY <2>1, <2>3 DEF Abstract!Next
<1>4. ASSUME Tick PROVE Abstract!Next
  <2> DEFINE due == Due(lst, expire, now)
  <2>1. /\ alive' = alive \ due /\ now' = now
        /\ expire' = [t \in Timers |-> IF t \in due THEN 0 ELSE expire[t]]
    BY <1>4 DEF Tick
  <2>2. due = {t \in alive : TimeLeft(t) = 0}
    BY <1>0, DueIsExpired
  <2> HIDE DEF due
  <2>3. \A t \in Timers : TimeLeft(t)' = TimeLeft(t)
    <3>1. ASSUME NEW t \in Timers PROVE TimeLeft(t)' = TimeLeft(t)
      <4>1. CASE t \in due
        <5>1. TimeLeft(t) = 0 /\ t \notin alive'
          BY <2>1, <2>2, <4>1
        <5> QED
          BY <5>1 DEF TimeLeft
      <4>2. CASE t \notin due
        BY <2>1, <4>2 DEF TimeLeft
      <4> QED
        BY <4>1, <4>2
    <3> QED
      BY <3>1
  <2>4. Left' = Left
    BY <2>3 DEF Left
  <2>5. Abstract!Expired = due
    BY <1>0, <2>2 DEF Abstract!Expired
  <2>6. Abstract!Tick
    BY <2>1, <2>4, <2>5 DEF Abstract!Tick, Left
  <2> QED
    BY <2>6 DEF Abstract!Next
<1>5. ASSUME Clock PROVE [Abstract!Next]_<<alive, Left>>
  <2>1. PICK s \in {0, 1} : now' = now + s
    BY <1>5 DEF Clock
  <2>2. alive' = alive /\ expire' = expire
    BY <1>5 DEF Clock
  <2>3. CASE s = 0
    <3>1. now' = now
      BY <1>0, <2>1, <2>3
    <3>2. Left' = Left
      BY <2>2, <3>1 DEF Left, TimeLeft
    <3> QED
      BY <2>2, <3>2
  <2>4. CASE s = 1
    <3>1. ASSUME NEW t \in Timers
          PROVE  TimeLeft(t)' = IF TimeLeft(t) > 0 THEN TimeLeft(t) - 1 ELSE 0
      BY <1>0, <2>1, <2>2, <2>4 DEF TimeLeft
    <3>2. Left' = [t \in Timers |-> IF Left[t] > 0 THEN Left[t] - 1 ELSE 0]
      BY <3>1 DEF Left
    <3>3. Abstract!Age
      BY <2>2, <3>2 DEF Abstract!Age, Left
    <3> QED
      BY <3>3 DEF Abstract!Next
  <2> QED
    BY <2>1, <2>3, <2>4
<1>6. CASE UNCHANGED vars
  BY <1>6 DEF vars, Left, TimeLeft
<1> QED
  BY <1>1, <1>2, <1>3, <1>4, <1>5, <1>6 DEF Next

(* The sorted list implements the plain container Server keeps its timers  *)
(* in, when the clock goes forward a unit at a time: what a tick deletes   *)
(* from the front of the list is every timer that is due, and adjust_timer *)
(* always postpones.                                                       *)
THEOREM ListImplementsContainer ==
  ASSUME ClockSteps \subseteq {0, 1}
  PROVE  Spec => ImplementsActiveTimers
<1>1. Init => Abstract!Init
  <2>1. Init => Left = [t \in Timers |-> 0]
    BY DEF Init, Left, TimeLeft
  <2> QED
    BY <2>1 DEF Init, Abstract!Init, Left
<1>2. IInv /\ [Next]_vars => [Abstract!Next]_<<alive, Left>>
  BY StepImplements
<1>3. [Abstract!Next]_<<alive, Left>> => [Abstract!Next]_Abstract!timerVars
  BY DEF Abstract!timerVars, Left
<1> QED
  BY <1>1, <1>2, <1>3, Invariant, PTL DEF Spec, ImplementsActiveTimers, Abstract!Spec
=============================================================================
