---------------------------- MODULE Waves_proofs ----------------------------
(***************************************************************************)
(* Theorems about PageRank and Waves.  The power iteration with its        *)
(* strides computes the ranks of the surfer, for every graph, however its  *)
(* edges are read, for every stride and any number of iterations.  For any *)
(* commands on any waves: removals take the names of no pages that other   *)
(* waves need, but for the two races; the tables keep their types and      *)
(* keys; and the ranks of a wave, written by one process or by several,    *)
(* are whole.                                                              *)
(***************************************************************************)
EXTENDS Waves, Induction, SequenceTheorems

-----------------------------------------------------------------------------
(* The ranks.                                                              *)

(* The factorial of n is a natural: the recursive function is one that     *)
(* Recursion provides.                                                     *)
LEMMA MultipleType ==
    ASSUME NEW n \in Nat
    PROVE  Multiple(n) \in Nat
<1> DEFINE Body(f) == [k \in 0 .. n |-> IF k = 0 THEN 1 ELSE k * f[k - 1]]
           product == CHOOSE f : f = Body(f)
           F == [i \in 1 .. n |-> [x \in Nat |-> i * x]]
<1>1. Multiple(n) = product[n]
  BY DEF Multiple
<1>2. F \in Steps(n, Nat)
  BY DEF Steps
<1>3. PICK g \in [0 .. n -> Nat] : g[0] = 1 /\ \A i \in 1 .. n : g[i] = F[i][g[i - 1]]
  <2>1. 1 \in Nat
    OBVIOUS
  <2> HIDE DEF F
  <2>2. Chains(n, Nat, 1, F) # {}
    BY <1>2, <2>1, Recursion
  <2> QED
    BY <2>2 DEF Chains
<1>4. g = Body(g)
  <2>1. ASSUME NEW i \in 1 .. n PROVE g[i] = i * g[i - 1]
    <3>1. i - 1 \in 0 .. n /\ g[i - 1] \in Nat
      BY <1>3
    <3> QED
      BY <1>3, <3>1
  <2> QED
    BY <1>3, <2>1
<1>5. product = Body(product)
  <2> HIDE DEF Body
  <2> QED
    BY <1>4
<1> HIDE DEF product
<1> DEFINE T == {k \in Nat : k <= n => product[k] \in Nat}
<1>6. 0 \in T
  BY <1>5
<1>7. ASSUME NEW k \in Nat, k \in T PROVE k + 1 \in T
  <2> SUFFICES ASSUME k + 1 <= n PROVE product[k + 1] \in Nat
    OBVIOUS
  <2>1. product[k + 1] = (k + 1) * product[k]
    BY <1>5
  <2> QED
    BY <1>7, <2>1
<1>8. Nat \subseteq T
  <2> HIDE DEF T
  <2> QED
    BY <1>6, <1>7, Induction
<1> QED
  BY <1>1, <1>8

(* What one iteration multiplies by is a natural.                          *)
LEMMA ScaleType ==
    ASSUME NEW n \in Nat
    PROVE  Scale(n) \in Nat
  BY MultipleType DEF Scale

(* And so is the denominator after any number of iterations.               *)
LEMMA WholeType ==
    ASSUME NEW n \in Nat, NEW k \in Nat
    PROVE  Whole(n, k) \in Nat
<1> DEFINE s == Scale(n)
           Body(f) == [i \in 0 .. k |-> IF i = 0 THEN n ELSE s * f[i - 1]]
           whole == CHOOSE f : f = Body(f)
           F == [i \in 1 .. k |-> [x \in Nat |-> s * x]]
<1>1. Whole(n, k) = whole[k]
  BY DEF Whole
<1>0. s \in Nat
  BY ScaleType
<1> HIDE DEF s
<1>2. F \in Steps(k, Nat)
  BY <1>0 DEF Steps
<1>3. PICK g \in [0 .. k -> Nat] : g[0] = n /\ \A i \in 1 .. k : g[i] = F[i][g[i - 1]]
  <2> HIDE DEF F
  <2>1. Chains(k, Nat, n, F) # {}
    BY <1>2, Recursion
  <2> QED
    BY <2>1 DEF Chains
<1>4. g = Body(g)
  <2>1. ASSUME NEW i \in 1 .. k PROVE g[i] = s * g[i - 1]
    <3>1. i - 1 \in 0 .. k /\ g[i - 1] \in Nat
      BY <1>3
    <3> QED
      BY <1>3, <3>1
  <2> QED
    BY <1>3, <2>1
<1>5. whole = Body(whole)
  <2> HIDE DEF Body
  <2> QED
    BY <1>4
<1> HIDE DEF whole
<1> DEFINE T == {i \in Nat : i <= k => whole[i] \in Nat}
<1>6. 0 \in T
  BY <1>5
<1>7. ASSUME NEW i \in Nat, i \in T PROVE i + 1 \in T
  <2> SUFFICES ASSUME i + 1 <= k PROVE whole[i + 1] \in Nat
    OBVIOUS
  <2>1. whole[i + 1] = s * whole[i]
    BY <1>5
  <2> QED
    BY <1>0, <1>7, <2>1
<1>8. Nat \subseteq T
  <2> HIDE DEF T
  <2> QED
    BY <1>6, <1>7, Induction
<1> QED
  BY <1>1, <1>8

-----------------------------------------------------------------------------
Distinct(s) == \A i, j \in 1 .. Len(s) : s[i] = s[j] => i = j

(* A node is added to the states if it is new.                             *)
LEMMA Remembers ==
    ASSUME NEW P, NEW known \in Seq(P), Distinct(known), NEW node \in P
    PROVE  /\ Remember(known, node) \in Seq(P) /\ Distinct(Remember(known, node))
           /\ Range(Remember(known, node)) = Range(known) \cup {node}
<1>1. CASE Contains(known, node)
  BY <1>1 DEF Remember, Contains, Range
<1>2. CASE ~ Contains(known, node)
  <2> DEFINE s == Append(known, node)
  <2>1. /\ s \in Seq(P) /\ Len(s) = Len(known) + 1 /\ Len(known) \in Nat
        /\ s[Len(known) + 1] = node /\ \A i \in 1 .. Len(known) : s[i] = known[i]
    OBVIOUS
  <2>2. \A i \in 1 .. Len(known) : known[i] # node
    BY <1>2 DEF Contains
  <2>3. DOMAIN s = 1 .. Len(known) + 1 /\ DOMAIN known = 1 .. Len(known)
    OBVIOUS
  <2>4. Remember(known, node) = s
    BY <1>2 DEF Remember
  <2> HIDE DEF s
  <2>5. Distinct(s)
    <3> SUFFICES ASSUME NEW i \in 1 .. Len(known) + 1, NEW j \in 1 .. Len(known) + 1, s[i] = s[j]
                 PROVE  i = j
      BY <2>1 DEF Distinct
    <3>1. \A k \in 1 .. Len(known) + 1 : k \in 1 .. Len(known) \/ k = Len(known) + 1
      BY <2>1
    <3> QED
      BY <2>1, <2>2, <3>1 DEF Distinct
  <2>6. Range(s) = Range(known) \cup {node}
    <3>1. \A k \in 1 .. Len(known) + 1 : k \in 1 .. Len(known) \/ k = Len(known) + 1
      BY <2>1
    <3>2. 1 .. Len(known) \subseteq 1 .. Len(known) + 1 /\ Len(known) + 1 \in 1 .. Len(known) + 1
      BY <2>1
    <3> QED
      BY <2>1, <2>3, <3>1, <3>2 DEF Range
  <2> QED
    BY <2>1, <2>4, <2>5, <2>6
<1> QED
  BY <1>1, <1>2

(* The states are the pages of the edges, each once.                       *)
LEMMA StatesAre ==
    ASSUME NEW P, NEW edges \in Seq(P \X P)
    PROVE  /\ States(edges) \in Seq(P) /\ Distinct(States(edges))
           /\ Range(States(edges)) = PagesOf(Range(edges))
<1> DEFINE n == Len(edges)
           K == {s \in Seq(P) : Distinct(s)}
           Then(s, e) == Remember(Remember(s, e[1]), e[2])
           Body(f) == [k \in 0 .. n |-> IF k = 0 THEN << >> ELSE Then(f[k - 1], edges[k])]
           known == CHOOSE f : f = Body(f)
           F == [i \in 1 .. n |-> [s \in K |-> Then(s, edges[i])]]
<1>1. States(edges) = known[n]
  BY DEF States
<1>2. ASSUME NEW s \in K, NEW e \in P \X P
      PROVE  Then(s, e) \in K /\ Range(Then(s, e)) = Range(s) \cup {e[1], e[2]}
  <2>1. e[1] \in P /\ e[2] \in P /\ s \in Seq(P) /\ Distinct(s)
    OBVIOUS
  <2> DEFINE r == Remember(s, e[1])
  <2>2. r \in Seq(P) /\ Distinct(r) /\ Range(r) = Range(s) \cup {e[1]}
    BY <2>1, Remembers
  <2> HIDE DEF r
  <2>3. /\ Remember(r, e[2]) \in Seq(P) /\ Distinct(Remember(r, e[2]))
        /\ Range(Remember(r, e[2])) = Range(r) \cup {e[2]}
    <3> HIDE DEF Then, K, n, Body
    <3>1. ASSUME NEW a \in Seq(P), Distinct(a), NEW b \in P
          PROVE  /\ Remember(a, b) \in Seq(P) /\ Distinct(Remember(a, b))
                 /\ Range(Remember(a, b)) = Range(a) \cup {b}
      BY <3>1, Remembers
    <3> QED
      BY <2>1, <2>2, <3>1
  <2>4. Range(Remember(r, e[2])) = Range(s) \cup {e[1], e[2]}
    BY <2>2, <2>3
  <2> QED
    BY <2>3, <2>4 DEF r
<1> HIDE DEF Then
<1>3. n \in Nat /\ \A i \in 1 .. n : edges[i] \in P \X P
  OBVIOUS
<1>4. << >> \in K
  BY DEF Distinct
<1>5. F \in Steps(n, K)
  <2> HIDE DEF K, n
  <2> QED
    BY <1>2, <1>3 DEF Steps
<1>6. PICK g \in [0 .. n -> K] : g[0] = << >> /\ \A i \in 1 .. n : g[i] = F[i][g[i - 1]]
  <2> HIDE DEF F, K, n
  <2>1. Chains(n, K, << >>, F) # {}
    BY <1>3, <1>4, <1>5, Recursion
  <2> QED
    BY <2>1 DEF Chains
<1>7. ASSUME NEW i \in 1 .. n PROVE g[i] = Then(g[i - 1], edges[i])
  <2> HIDE DEF K
  <2>1. i - 1 \in 0 .. n /\ g[i - 1] \in K
    BY <1>3, <1>6
  <2> QED
    BY <1>6, <2>1
<1>8. g = Body(g)
  <2> HIDE DEF K, n, F
  <2> QED
    BY <1>3, <1>6, <1>7
<1>9. known = Body(known)
  <2> HIDE DEF Body
  <2> QED
    BY <1>8
<1> HIDE DEF known, F
<1>10. known[0] = << >> /\ \A k \in 0 .. n - 1 : known[k + 1] = Then(known[k], edges[k + 1])
  <2> HIDE DEF n
  <2> QED
    BY <1>3, <1>9
<1> DEFINE Read(k) == {edges[i] : i \in 1 .. k}
           T == {k \in Nat : known[k] \in K /\ Range(known[k]) = PagesOf(Read(k))}
<1>11. 0 \in T
  <2>1. Range(<< >>) = {}
    BY DEF Range
  <2>2. Read(0) = {}
    OBVIOUS
  <2>3. PagesOf({}) = {}
    BY DEF PagesOf
  <2> HIDE DEF K, Read
  <2> QED
    BY <1>4, <1>10, <2>1, <2>2, <2>3
<1>12. ASSUME NEW k \in 0 .. n - 1, k \in T PROVE k + 1 \in T
  <2> HIDE DEF K
  <2>1. k + 1 \in 1 .. n /\ 1 .. k + 1 = 1 .. k \cup {k + 1}
    BY <1>3
  <2>2. edges[k + 1] \in P \X P
    BY <1>3, <2>1
  <2>3. known[k + 1] \in K /\ Range(known[k + 1]) = Range(known[k]) \cup {edges[k + 1][1], edges[k + 1][2]}
    BY <1>2, <1>10, <1>12, <2>2
  <2>4. Read(k + 1) = Read(k) \cup {edges[k + 1]}
    BY <2>1
  <2>5. PagesOf(Read(k + 1)) = PagesOf(Read(k)) \cup {edges[k + 1][1], edges[k + 1][2]}
    BY <2>4 DEF PagesOf
  <2>6. k + 1 \in Nat
    BY <1>3
  <2> HIDE DEF Read
  <2> QED
    BY <1>12, <2>3, <2>5, <2>6
<1>13. 0 .. n \subseteq T
  <2> HIDE DEF T, n
  <2> QED
    BY <1>3, <1>11, <1>12, InductionUpTo
<1>14. n \in T
  <2> HIDE DEF T, n
  <2> QED
    BY <1>3, <1>13
<1>15. Read(n) = Range(edges)
  BY DEF Range
<1> QED
  BY <1>1, <1>14, <1>15

-----------------------------------------------------------------------------
(* Each node has its own id.                                               *)
LEMMA IdsAre ==
    ASSUME NEW P, NEW states \in Seq(P), Distinct(states), NEW i \in 1 .. Len(states)
    PROVE  IdFor(states, states[i]) = i - 1
<1>1. \A j \in DOMAIN states : states[j] = states[i] => j = i
  BY DEF Distinct
<1>2. i \in DOMAIN states
  OBVIOUS
<1>3. (CHOOSE j \in DOMAIN states : states[j] = states[i]) = i
  BY <1>1, <1>2
<1> QED
  BY <1>3 DEF IdFor

InOrder(list, order) ==
    \A i, j \in DOMAIN list : i < j => list[order[i]][1] <= list[order[j]][1]

(* There is an order to sort by.                                           *)
LEMMA OrderExists ==
    ASSUME NEW m \in Nat, NEW list, DOMAIN list = 1 .. m, \A i \in 1 .. m : list[i][1] \in Nat
    PROVE  \E order \in Bijection(1 .. m, 1 .. m) : InOrder(list, order)
<1> DEFINE from == [i \in 1 .. m |-> list[i][1]]
<1>1. PICK le : le = {p \in Nat \X Nat : p[1] <= p[2]}
  OBVIOUS
<1>2. \A u, v \in Nat : <<u, v>> \in le <=> u <= v
  BY <1>1
<1>3. Ordered(Nat, le)
  BY <1>2 DEF Ordered
<1>4. \A i \in 1 .. m : from[i] \in Nat /\ from[i] = list[i][1]
  OBVIOUS
<1> HIDE DEF from
<1>5. PICK order \in Bijection(1 .. m, 1 .. m) :
        \A i, j \in 1 .. m : i < j => <<from[order[i]], from[order[j]]>> \in le
  BY <1>3, <1>4, SortExists
<1>6. \A i \in 1 .. m : order[i] \in 1 .. m
  BY DEF Bijection, Injection
<1>7. \A i, j \in 1 .. m : i < j => list[order[i]][1] <= list[order[j]][1]
  BY <1>2, <1>4, <1>5, <1>6
<1> QED
  BY <1>7 DEF InOrder

(* What it is sorted into: the same entries, those from a node together.   *)
LEMMA SortedIs ==
    ASSUME NEW m \in Nat, NEW list, DOMAIN list = 1 .. m, \A i \in 1 .. m : list[i][1] \in Nat
    PROVE  \E order \in Bijection(1 .. m, 1 .. m) :
                InOrder(list, order) /\ SortedByFrom(list) = [i \in 1 .. m |-> list[order[i]]]
<1> DEFINE order == CHOOSE order \in Bijection(DOMAIN list, DOMAIN list) : InOrder(list, order)
<1>1. order \in Bijection(1 .. m, 1 .. m) /\ InOrder(list, order)
  BY OrderExists
<1>2. SortedByFrom(list) = [i \in 1 .. m |-> list[order[i]]]
  BY DEF SortedByFrom, InOrder
<1> HIDE DEF order
<1> QED
  BY <1>1, <1>2

-----------------------------------------------------------------------------
(* The transitions between the first and the last of a node are its own.   *)
LEMMA OffsetsAre ==
    ASSUME NEW m \in Nat, NEW list, DOMAIN list = 1 .. m, \A i \in 1 .. m : list[i][1] \in Nat,
           \A i, j \in 1 .. m : i < j => list[i][1] <= list[j][1], NEW from
    PROVE  OffsetLength(list, from) = {t \in 1 .. m : list[t][1] = from}
<1>1. ASSUME NEW k \in 1 .. m, NEW first \in 1 .. m, NEW last \in 1 .. m,
             list[first][1] = from, list[last][1] = from, first <= k, k <= last
      PROVE  list[k][1] = from
  <2>1. list[first][1] <= list[k][1]
    BY <1>1
  <2>2. list[k][1] <= list[last][1]
    BY <1>1
  <2>3. list[first][1] \in Nat /\ list[k][1] \in Nat
    OBVIOUS
  <2> QED
    BY <1>1, <2>1, <2>2, <2>3
<1>2. \A k \in 1 .. m : k <= k
  OBVIOUS
<1> QED
  BY <1>1, <1>2 DEF OffsetLength

(* Division with a rest.                                                   *)
LEMMA Divides ==
    ASSUME NEW d \in Nat \ {0}, NEW a \in Nat
    PROVE  /\ a \div d \in Nat /\ a % d \in 0 .. d - 1
           /\ a = d * (a \div d) + (a % d)
  OBVIOUS

(* Factors that are in order have their products in order.                 *)
LEMMA Multiplies ==
    ASSUME NEW d \in Nat, NEW a \in Int, NEW b \in Int, a <= b
    PROVE  a * d <= b * d
  OBVIOUS

(* Every state is in one stride.                                           *)
LEMMA StridesCover ==
    ASSUME NEW n \in Nat
    PROVE  /\ NStrides(n) \in Nat
           /\ \A k \in 0 .. n - 1 : \E j \in 0 .. NStrides(n) - 1 : k \in StrideOf(n, j)
           /\ \A i, j \in Nat : i # j => StrideOf(n, i) \cap StrideOf(n, j) = {}
<1> DEFINE d == Stride
           Q == NStrides(n)
<1>1. d \in Nat \ {0}
  BY PageRankAssumption
<1>2. Q \in Nat /\ n <= Q * d
  <2> DEFINE q == n \div d
             r == n % d
  <2>2. Q = IF r = 0 THEN q ELSE q + 1
    BY DEF NStrides
  <2> HIDE DEF Q, d
  <2>1. q \in Nat /\ r \in 0 .. d - 1 /\ n = d * q + r
    BY <1>1, Divides
  <2> HIDE DEF q, r
  <2>3. q * d = d * q /\ (q + 1) * d = d * q + d /\ d * q \in Nat
    BY <1>1, <2>1
  <2>4. n <= Q * d
    <3>1. CASE r = 0
      BY <1>1, <2>1, <2>2, <2>3, <3>1
    <3>2. CASE r # 0
      <4>1. Q = q + 1 /\ r < d
        BY <1>1, <2>1, <2>2, <3>2
      <4> QED
        BY <1>1, <2>1, <2>3, <4>1
    <3> QED
      BY <3>1, <3>2
  <2> QED
    BY <2>1, <2>2, <2>4
<1>3. ASSUME NEW k \in 0 .. n - 1 PROVE \E j \in 0 .. Q - 1 : k \in StrideOf(n, j)
  <2> DEFINE j == k \div d
  <2> HIDE DEF d
  <2>1. j \in Nat /\ k % d \in 0 .. d - 1 /\ k = d * j + (k % d)
    <3>1. k \in Nat
      OBVIOUS
    <3> QED
      BY <1>1, <3>1, Divides
  <2> HIDE DEF j, Q
  <2>2. j * d = d * j /\ (j + 1) * d = d * j + d
    BY <1>1, <2>1
  <2>3. j * d <= k /\ k < (j + 1) * d
    BY <1>1, <2>1, <2>2
  <2>4. ~ Q <= j
    <3> SUFFICES ASSUME Q <= j PROVE FALSE
      OBVIOUS
    <3>1. Q * d <= j * d
      BY <1>1, <1>2, <2>1, Multiplies
    <3>2. Q * d \in Nat /\ j * d \in Nat
      BY <1>1, <1>2, <2>1
    <3> QED
      BY <1>2, <2>3, <3>1, <3>2
  <2>5. j \in 0 .. Q - 1
    BY <1>2, <2>1, <2>4
  <2> QED
    BY <2>3, <2>5 DEF StrideOf, d
<1>4. ASSUME NEW i \in Nat, NEW j \in Nat, i < j, NEW k \in StrideOf(n, i) \cap StrideOf(n, j)
      PROVE  FALSE
  <2>1. k \in Nat /\ k < (i + 1) * d /\ j * d <= k
    BY DEF StrideOf
  <2>2. (i + 1) * d <= j * d
    BY <1>1, <1>4, Multiplies
  <2>3. (i + 1) * d \in Nat /\ j * d \in Nat
    BY <1>1
  <2> QED
    BY <2>1, <2>2, <2>3
<1>5. \A i, j \in Nat : i # j => StrideOf(n, i) \cap StrideOf(n, j) = {}
  <2>1. \A i, j \in Nat : i # j => i < j \/ j < i
    OBVIOUS
  <2> QED
    BY <1>4, <2>1
<1> QED
  BY <1>2, <1>3, <1>5

-----------------------------------------------------------------------------
(* A bijection between wholes is one between the parts that correspond.    *)
LEMMA PartBijection ==
    ASSUME NEW S, NEW R, NEW h \in Bijection(S, R), NEW A \in SUBSET S, NEW B \in SUBSET R,
           \A x \in S : x \in A <=> h[x] \in B
    PROVE  [x \in A |-> h[x]] \in Bijection(A, B)
<1>1. \A x, y \in S : h[x] = h[y] => x = y
  BY DEF Bijection, Injection, IsInjective
<1>2. \A y \in R : \E x \in S : h[x] = y
  BY DEF Bijection, Surjection
<1>3. [x \in A |-> h[x]] \in [A -> B]
  OBVIOUS
<1> QED
  BY <1>1, <1>2, <1>3 DEF Bijection, Injection, Surjection, IsInjective

(* The chain of a graph: its states are the pages, its transitions the     *)
(* edges, with those from one state together.                              *)
Chain(E, n, states, m, tr, edge) ==
    /\ IsFiniteSet(E) /\ \A e \in E : e = <<e[1], e[2]>>
    /\ n \in Nat /\ states \in Bijection(1 .. n, PagesOf(E))
    /\ m \in Nat /\ edge \in Bijection(1 .. m, E)
    /\ DOMAIN tr = 1 .. m
    /\ \A t \in 1 .. m : /\ tr[t][1] \in 0 .. n - 1 /\ states[tr[t][1] + 1] = edge[t][1]
                         /\ tr[t][2] \in 0 .. n - 1 /\ states[tr[t][2] + 1] = edge[t][2]
    /\ \A t, u \in 1 .. m : t < u => tr[t][1] <= tr[u][1]

(* What is read is such a chain.                                           *)
LEMMA ChainIsRead ==
    ASSUME NEW P, NEW E \in SUBSET (P \X P), IsFiniteSet(E), NEW edges \in SetToSeqs(E)
    PROVE  /\ States(edges) \in Seq(P) /\ Distinct(States(edges))
           /\ Cardinality(PagesOf(E)) = Len(States(edges))
           /\ \E edge : Chain(E, Len(States(edges)), States(edges), Cardinality(E), Transition(edges), edge)
<1> DEFINE m == Cardinality(E)
           states == States(edges)
           n == Len(states)
           tr == Transition(edges)
<1>1. m \in Nat
  BY FS_CardinalityType
<1>2. edges \in [1 .. m -> E] /\ \A i, j \in 1 .. m : i # j => edges[i] # edges[j]
  BY DEF SetToSeqs
<1>3. edges \in Bijection(1 .. m, E)
  <2>1. edges \in Injection(1 .. m, E)
    BY <1>2 DEF Injection, IsInjective
  <2>2. IsFiniteSet(1 .. m) /\ Cardinality(1 .. m) = m
    BY <1>1, FS_Interval
  <2>3. edges \in Surjection(1 .. m, E)
    <3> DEFINE D == 1 .. m
    <3> HIDE DEF D
    <3>1. Cardinality(D) = Cardinality(E)
      BY <2>2 DEF D
    <3> QED
      BY <2>1, <3>1, FS_Injection DEF D
  <2> QED
    BY <2>1, <2>3 DEF Bijection
<1>4. edges \in Seq(P \X P) /\ Len(edges) = m /\ DOMAIN edges = 1 .. m
  BY <1>1, <1>2
<1>5. Range(edges) = E
  BY <1>3, <1>4 DEF Range, Bijection, Surjection
<1>6. states \in Seq(P) /\ Distinct(states) /\ Range(states) = PagesOf(E)
  BY <1>4, <1>5, StatesAre
<1> HIDE DEF states
<1>7. n \in Nat /\ DOMAIN states = 1 .. n
  BY <1>6
<1>8. states \in Bijection(1 .. n, PagesOf(E))
  <2>1. states \in [1 .. n -> PagesOf(E)] /\ \A p \in PagesOf(E) : \E i \in 1 .. n : states[i] = p
    BY <1>6, <1>7 DEF Range
  <2> QED
    BY <1>6, <2>1 DEF Distinct, Bijection, Injection, Surjection, IsInjective
<1>9. Cardinality(PagesOf(E)) = n
  <2>1. IsFiniteSet(1 .. n) /\ Cardinality(1 .. n) = n
    BY <1>7, FS_Interval
  <2> QED
    BY <1>8, <2>1, FS_Bijection DEF ExistsBijection
<1>10. ASSUME NEW p \in PagesOf(E)
       PROVE  IdFor(states, p) \in 0 .. n - 1 /\ states[IdFor(states, p) + 1] = p
  <2>1. PICK i \in 1 .. n : states[i] = p
    BY <1>8 DEF Bijection, Surjection
  <2>2. IdFor(states, p) = i - 1
    BY <1>6, <2>1, IdsAre
  <2> QED
    BY <1>7, <2>1, <2>2
<1> DEFINE list == [i \in DOMAIN edges |-> <<IdFor(states, edges[i][1]), IdFor(states, edges[i][2])>>]
<1>11. tr = SortedByFrom(list)
  BY DEF Transition, states
<1>12. ASSUME NEW i \in 1 .. m
       PROVE  /\ list[i][1] \in 0 .. n - 1 /\ states[list[i][1] + 1] = edges[i][1]
              /\ list[i][2] \in 0 .. n - 1 /\ states[list[i][2] + 1] = edges[i][2]
  <2>1. edges[i][1] \in PagesOf(E) /\ edges[i][2] \in PagesOf(E)
    BY <1>2 DEF PagesOf
  <2> QED
    BY <1>4, <1>10, <2>1
<1>13. DOMAIN list = 1 .. m /\ \A i \in 1 .. m : list[i][1] \in Nat
  BY <1>4, <1>12
<1> HIDE DEF list, m
<1>14. PICK order \in Bijection(1 .. m, 1 .. m) : InOrder(list, order) /\ tr = [i \in 1 .. m |-> list[order[i]]]
  BY <1>1, <1>11, <1>13, SortedIs
<1> DEFINE edge == [i \in 1 .. m |-> edges[order[i]]]
<1>15. \A i \in 1 .. m : order[i] \in 1 .. m
  BY DEF Bijection, Injection
<1>16. edge \in Bijection(1 .. m, E)
  <2>1. \A i \in 1 .. m : edge[i] \in E
    BY <1>2, <1>15
  <2>2. \A i, j \in 1 .. m : edge[i] = edge[j] => i = j
    BY <1>2, <1>15 DEF Bijection, Injection, IsInjective
  <2>3. ASSUME NEW e \in E PROVE \E i \in 1 .. m : edge[i] = e
    <3>1. PICK j \in 1 .. m : edges[j] = e
      BY <1>3 DEF Bijection, Surjection
    <3>2. PICK i \in 1 .. m : order[i] = j
      BY DEF Bijection, Surjection
    <3> QED
      BY <3>1, <3>2
  <2>4. edge \in [1 .. m -> E]
    BY <2>1
  <2> HIDE DEF edge
  <2> QED
    BY <2>2, <2>3, <2>4 DEF Bijection, Injection, Surjection, IsInjective
<1>17. ASSUME NEW t \in 1 .. m
       PROVE  /\ tr[t][1] \in 0 .. n - 1 /\ states[tr[t][1] + 1] = edge[t][1]
              /\ tr[t][2] \in 0 .. n - 1 /\ states[tr[t][2] + 1] = edge[t][2]
  <2>1. tr[t] = list[order[t]] /\ edge[t] = edges[order[t]] /\ order[t] \in 1 .. m
    BY <1>14, <1>15
  <2> HIDE DEF tr, edge, n
  <2> QED
    BY <1>12, <2>1
<1>18. \A t, u \in 1 .. m : t < u => tr[t][1] <= tr[u][1]
  BY <1>13, <1>14 DEF InOrder
<1>19. DOMAIN tr = 1 .. m
  BY <1>14
<1>20. \A e \in E : e = <<e[1], e[2]>>
  OBVIOUS
<1>21. Chain(E, n, states, m, tr, edge)
  <2> HIDE DEF tr, edge, n
  <2> QED
    BY <1>1, <1>7, <1>8, <1>16, <1>17, <1>18, <1>19, <1>20 DEF Chain
<1> QED
  BY <1>6, <1>9, <1>21 DEF states, m

-----------------------------------------------------------------------------
(* The transitions from a state are the links out of its page.             *)
LEMMA Leaving ==
    ASSUME NEW E, NEW n, NEW states, NEW m, NEW tr, NEW edge, Chain(E, n, states, m, tr, edge),
           NEW i \in 1 .. n
    PROVE  /\ OffsetLength(tr, i - 1) = {t \in 1 .. m : tr[t][1] = i - 1}
           /\ Cardinality(OffsetLength(tr, i - 1)) = Cardinality(Out(E, states[i]))
           /\ OffsetLength(tr, i - 1) = {} <=> Out(E, states[i]) = {}
<1> DEFINE A == {t \in 1 .. m : tr[t][1] = i - 1}
           B == Out(E, states[i])
<1>1. OffsetLength(tr, i - 1) = A
  BY OffsetsAre DEF Chain
<1>2. ASSUME NEW t \in 1 .. m PROVE t \in A <=> edge[t] \in B
  <2>1. tr[t][1] \in 0 .. n - 1 /\ states[tr[t][1] + 1] = edge[t][1] /\ edge[t] \in E
    BY DEF Chain, Bijection, Injection
  <2>2. n \in Nat /\ \A j \in 1 .. n : states[j] = states[i] => j = i
    BY DEF Chain, Bijection, Injection, IsInjective
  <2>3. tr[t][1] + 1 \in 1 .. n /\ (tr[t][1] + 1 = i <=> tr[t][1] = i - 1)
    BY <2>1, <2>2
  <2> QED
    BY <2>1, <2>2, <2>3 DEF Out
<1>3. edge \in Bijection(1 .. m, E) /\ m \in Nat /\ A \in SUBSET (1 .. m) /\ B \in SUBSET E
  BY DEF Chain, Out
<1> HIDE DEF A, B
<1>4. [t \in A |-> edge[t]] \in Bijection(A, B)
  <2> DEFINE D == 1 .. m
  <2>1. edge \in Bijection(D, E) /\ A \in SUBSET D /\ \A t \in D : t \in A <=> edge[t] \in B
    BY <1>2, <1>3
  <2> HIDE DEF D
  <2> QED
    BY <1>3, <2>1, PartBijection
<1>5. IsFiniteSet(A)
  <2>1. IsFiniteSet(1 .. m)
    BY <1>3, FS_Interval
  <2> QED
    BY <1>3, <2>1, FS_Subset
<1>6. Cardinality(A) = Cardinality(B)
  BY <1>4, <1>5, FS_Bijection DEF ExistsBijection
<1>7. A = {} <=> B = {}
  BY <1>4 DEF Bijection, Injection, Surjection
<1> QED
  BY <1>1, <1>6, <1>7 DEF A, B

(* The same ranks, of states and of their pages.                           *)
Agree(E, n, states, state, rank) ==
    /\ state \in [0 .. n - 1 -> Nat] /\ rank \in [PagesOf(E) -> Nat]
    /\ \A i \in 1 .. n : state[i - 1] = rank[states[i]]

(* What a page is sent along the links to it.                              *)
Arriving(E, n, rank, p) ==
    SumFunctionOnSet([e \in E |-> (Multiple(n) * rank[e[1]]) \div Cardinality(Out(E, e[1]))],
                     {e \in E : e[2] = p})

(* The pieces of the tiles are what the transitions to a state carry.      *)
LEMMA Pieces ==
    ASSUME NEW E, NEW n, NEW states, NEW m, NEW tr, NEW edge, Chain(E, n, states, m, tr, edge),
           NEW state, NEW rank, Agree(E, n, states, state, rank), NEW i \in 1 .. n
    PROVE  /\ Arrived(tr, n, state, i - 1) \in Nat
           /\ Arrived(tr, n, state, i - 1) = Arriving(E, n, rank, states[i])
<1> DEFINE I == 0 .. NStrides(n) - 1
           D == 1 .. m
           S == {t \in D : tr[t][2] = i - 1}
           R == {e \in E : e[2] = states[i]}
           f == [t \in D |-> Share(tr, n, state, tr[t][1])]
           g == [e \in E |-> (Multiple(n) * rank[e[1]]) \div Cardinality(Out(E, e[1]))]
           tile == [j \in I |-> {t \in S : tr[t][1] \in StrideOf(n, j)}]
           q == [j \in I |-> Tile(tr, n, state, j, i - 1)]
<1>1. /\ n \in Nat /\ m \in Nat /\ DOMAIN tr = D /\ IsFiniteSet(E)
      /\ edge \in Bijection(D, E) /\ states \in Bijection(1 .. n, PagesOf(E))
      /\ \A t \in D : /\ tr[t][1] \in 0 .. n - 1 /\ states[tr[t][1] + 1] = edge[t][1]
                      /\ tr[t][2] \in 0 .. n - 1 /\ states[tr[t][2] + 1] = edge[t][2]
  BY DEF Chain
<1>0. /\ state \in [0 .. n - 1 -> Nat] /\ rank \in [PagesOf(E) -> Nat]
      /\ \A k \in 1 .. n : state[k - 1] = rank[states[k]]
  BY DEF Agree
<1>2. IsFiniteSet(D) /\ IsFiniteSet(S)
  <2>1. IsFiniteSet(D)
    BY <1>1, FS_Interval
  <2>2. S \in SUBSET D
    OBVIOUS
  <2> HIDE DEF D, S
  <2> QED
    BY <2>1, <2>2, FS_Subset
<1>3. NStrides(n) \in Nat /\ IsFiniteSet(I)
  <2>1. n \in Nat
    BY <1>1
  <2>2. NStrides(n) \in Nat
    BY <2>1, StridesCover, Zenon
  <2>3. 0 \in Int /\ NStrides(n) - 1 \in Int
    BY <2>2
  <2>4. IsFiniteSet(I)
    BY <2>3, FS_Interval, Zenon
  <2> QED
    BY <2>2, <2>4
<1>4. Multiple(n) \in Nat
  BY <1>1, MultipleType
<1>5. ASSUME NEW t \in D PROVE f[t] \in Nat /\ f[t] = g[edge[t]]
  <2> DEFINE k == tr[t][1] + 1
             c == Cardinality(Out(E, edge[t][1]))
             x == Multiple(n) * rank[edge[t][1]]
  <2>1. k \in 1 .. n /\ k - 1 = tr[t][1] /\ states[k] = edge[t][1] /\ edge[t] \in E /\ edge[t][1] \in PagesOf(E)
    BY <1>1 DEF Bijection, Injection, PagesOf
  <2>2. Cardinality(OffsetLength(tr, tr[t][1])) = c
    <3> HIDE DEF D, k
    <3>1. Cardinality(OffsetLength(tr, k - 1)) = Cardinality(Out(E, states[k]))
      BY <2>1, Leaving
    <3> QED
      BY <2>1, <3>1
  <2>3. state[tr[t][1]] = rank[edge[t][1]]
    <3> HIDE DEF D, k
    <3> QED
      BY <1>0, <2>1
  <2>4. f[t] = x \div c
    BY <2>2, <2>3 DEF Share
  <2>5. g[edge[t]] = x \div c
    BY <2>1
  <2>6. c \in Nat \ {0}
    <3>1. edge[t] \in Out(E, edge[t][1])
      BY <2>1 DEF Out
    <3>2. IsFiniteSet(Out(E, edge[t][1]))
      BY <1>1, FS_Subset DEF Out
    <3> QED
      BY <3>1, <3>2, FS_CardinalityType, FS_EmptySet
  <2>7. x \in Nat
    <3>1. rank[edge[t][1]] \in Nat
      BY <1>0, <2>1
    <3> QED
      BY <1>4, <3>1
  <2> HIDE DEF x, c
  <2>8. x \div c \in Nat
    BY <2>6, <2>7, Divides
  <2> QED
    BY <2>4, <2>5, <2>8
<1>6. ASSUME NEW j \in I PROVE q[j] = SumFunctionOnSet(f, tile[j])
  <2> DEFINE carried == UNION {OffsetLength(tr, from) : from \in StrideOf(n, j)}
  <2>1. ASSUME NEW from \in 0 .. n - 1 PROVE OffsetLength(tr, from) = {t \in D : tr[t][1] = from}
    <3>1. from + 1 \in 1 .. n /\ (from + 1) - 1 = from
      BY <1>1
    <3> QED
      BY <3>1, Leaving
  <2>2. StrideOf(n, j) \subseteq 0 .. n - 1
    BY DEF StrideOf
  <2>3. carried = {t \in D : tr[t][1] \in StrideOf(n, j)}
    <3> HIDE DEF D
    <3> QED
      BY <2>1, <2>2
  <2>4. {t \in carried : tr[t][2] = i - 1} = tile[j]
    BY <2>3
  <2>5. q[j] = Tile(tr, n, state, j, i - 1)
    OBVIOUS
  <2>6. Tile(tr, n, state, j, i - 1) = SumFunctionOnSet(f, {t \in carried : tr[t][2] = i - 1})
    BY <1>1 DEF Tile
  <2> QED
    BY <2>4, <2>5, <2>6
<1>7. \A j, l \in I : j # l => tile[j] \cap tile[l] = {}
  <2>1. \A j \in I : j \in Nat
    BY <1>3
  <2> QED
    BY <1>1, <2>1, StridesCover
<1>8. UNION {tile[j] : j \in I} = S
  <2>1. ASSUME NEW t \in S PROVE \E j \in I : t \in tile[j]
    <3>1. tr[t][1] \in 0 .. n - 1
      BY <1>1
    <3>2. PICK j \in I : tr[t][1] \in StrideOf(n, j)
      BY <1>1, <3>1, StridesCover
    <3> QED
      BY <3>2
  <2> QED
    BY <2>1
<1>9. tile \in [I -> SUBSET S]
  OBVIOUS
<1>10. S \in SUBSET D /\ R \in SUBSET E
  OBVIOUS
<1>11. ASSUME NEW t \in D PROVE t \in S <=> edge[t] \in R
  <2>1. tr[t][2] \in 0 .. n - 1 /\ states[tr[t][2] + 1] = edge[t][2] /\ edge[t] \in E
    BY <1>1 DEF Bijection, Injection
  <2>2. \A j \in 1 .. n : states[j] = states[i] => j = i
    BY <1>1 DEF Bijection, Injection, IsInjective
  <2>3. tr[t][2] + 1 \in 1 .. n /\ (tr[t][2] + 1 = i <=> tr[t][2] = i - 1)
    <3>1. ASSUME NEW k \in 0 .. n - 1 PROVE k + 1 \in 1 .. n /\ (k + 1 = i <=> k = i - 1)
      BY <1>1
    <3> QED
      BY <2>1, <3>1
  <2> QED
    BY <2>1, <2>2, <2>3
<1> HIDE DEF I, D, S, R, f, g, tile, q
<1>12. SumFunctionOnSet(q, I) = SumFunctionOnSet(f, S)
  <2>1. \A t \in S : f[t] \in Nat
    BY <1>5, <1>10
  <2> QED
    BY <1>2, <1>3, <1>6, <1>7, <1>8, <1>9, <2>1, SumTiles
<1>13. SumFunctionOnSet(f, S) = SumFunctionOnSet(g, R)
  <2> DEFINE h == [t \in S |-> edge[t]]
  <2>1. h \in Bijection(S, R)
    BY <1>1, <1>10, <1>11, PartBijection
  <2>2. \A t \in S : f[t] \in Nat /\ f[t] = g[h[t]]
    BY <1>5, <1>10
  <2> HIDE DEF h
  <2> QED
    BY <1>2, <2>1, <2>2, SumBijection
<1>14. SumFunctionOnSet(f, S) \in Nat
  <2>1. \A t \in S : f[t] \in Nat
    BY <1>5, <1>10
  <2> QED
    BY <1>2, <2>1, SumNat
<1> QED
  BY <1>12, <1>13, <1>14 DEF I, q, g, R, Arriving, Arrived, Strides

-----------------------------------------------------------------------------
(* What is lost at the states without transitions is what is at the pages  *)
(* without links.                                                          *)
LEMMA Losses ==
    ASSUME NEW E, NEW n, NEW states, NEW m, NEW tr, NEW edge, Chain(E, n, states, m, tr, edge),
           NEW state, NEW rank, Agree(E, n, states, state, rank)
    PROVE  /\ LostJuice(tr, state) \in Nat
           /\ LostJuice(tr, state) = SumFunctionOnSet(rank, {p \in PagesOf(E) : Out(E, p) = {}})
<1> DEFINE D == 0 .. n - 1
           A == {k \in D : OffsetLength(tr, k) = {}}
           B == {p \in PagesOf(E) : Out(E, p) = {}}
           h == [k \in D |-> states[k + 1]]
           f == [k \in A |-> h[k]]
<1>1. n \in Nat /\ states \in Bijection(1 .. n, PagesOf(E))
  BY DEF Chain
<1>2. /\ state \in [D -> Nat] /\ rank \in [PagesOf(E) -> Nat]
      /\ \A i \in 1 .. n : state[i - 1] = rank[states[i]]
  BY DEF Agree
<1>3. ASSUME NEW k \in D PROVE k + 1 \in 1 .. n /\ (k + 1) - 1 = k
  BY <1>1
<1>4. \A i \in 1 .. n : i - 1 \in D /\ (i - 1) + 1 = i
  BY <1>1
<1>5. h \in Bijection(D, PagesOf(E))
  <2>1. \A k \in D : h[k] \in PagesOf(E)
    BY <1>1, <1>3 DEF Bijection, Injection
  <2>2. ASSUME NEW k \in D, NEW l \in D, h[k] = h[l] PROVE k = l
    <3>1. k + 1 = l + 1
      BY <1>1, <1>3, <2>2 DEF Bijection, Injection, IsInjective
    <3> QED
      BY <1>3, <3>1
  <2>3. \A p \in PagesOf(E) : \E k \in D : h[k] = p
    BY <1>1, <1>4 DEF Bijection, Surjection
  <2> QED
    BY <2>1, <2>2, <2>3 DEF Bijection, Injection, Surjection, IsInjective
<1>6. ASSUME NEW k \in D PROVE k \in A <=> h[k] \in B
  <2>1. OffsetLength(tr, (k + 1) - 1) = {} <=> Out(E, states[k + 1]) = {}
    BY <1>3, Leaving
  <2>2. h[k] \in PagesOf(E)
    BY <1>5 DEF Bijection, Injection
  <2> QED
    BY <1>3, <2>1, <2>2
<1>7. LostJuice(tr, state) = SumFunctionOnSet(state, A)
  BY <1>2 DEF LostJuice
<1>8. A \in SUBSET D /\ B \in SUBSET PagesOf(E)
  OBVIOUS
<1>9. \A k \in D : state[k] \in Nat /\ state[k] = rank[h[k]]
  BY <1>2, <1>3
<1>10. IsFiniteSet(A)
  <2>1. IsFiniteSet(D)
    BY <1>1, FS_Interval
  <2> HIDE DEF D, A
  <2> QED
    BY <1>8, <2>1, FS_Subset
<1> HIDE DEF D, A, B, h
<1>11. f \in Bijection(A, B)
  BY <1>5, <1>6, <1>8, PartBijection
<1>12. \A k \in A : state[k] \in Nat /\ state[k] = rank[f[k]]
  BY <1>8, <1>9
<1> HIDE DEF f
<1>13. SumFunctionOnSet(state, A) = SumFunctionOnSet(rank, B)
  BY <1>10, <1>11, <1>12, SumBijection
<1>14. SumFunctionOnSet(state, A) \in Nat
  BY <1>10, <1>12, SumNat
<1> QED
  BY <1>7, <1>13, <1>14 DEF B

(* One iteration is one step of the surfer.                                *)
LEMMA Iterates ==
    ASSUME NEW E, NEW n, NEW states, NEW m, NEW tr, NEW edge, Chain(E, n, states, m, tr, edge),
           Cardinality(PagesOf(E)) = n,
           NEW state, NEW rank, Agree(E, n, states, state, rank), NEW whole \in Nat
    PROVE  Agree(E, n, states, Iterate(tr, n, state, whole), Surf(E, rank, whole))
<1> DEFINE lost == LostJuice(tr, state)
           restart == Multiple(n) * (3 * whole + 17 * lost)
           new == Iterate(tr, n, state, whole)
           surf == Surf(E, rank, whole)
<1>1. n \in Nat /\ states \in Bijection(1 .. n, PagesOf(E))
  BY DEF Chain
<1>2. \A k \in 0 .. n - 1 : \E j \in Strides(n) : k \in StrideOf(n, j)
  BY <1>1, StridesCover DEF Strides
<1>3. new = [column \in 0 .. n - 1 |-> 17 * n * Arrived(tr, n, state, column) + restart]
  BY <1>2 DEF Iterate
<1>4. lost \in Nat /\ lost = SumFunctionOnSet(rank, {p \in PagesOf(E) : Out(E, p) = {}})
  BY Losses
<1>5. surf = [p \in PagesOf(E) |-> 17 * n * Arriving(E, n, rank, p) + restart]
  BY <1>4 DEF Surf, Arriving
<1>6. ASSUME NEW i \in 1 .. n
      PROVE  Arrived(tr, n, state, i - 1) \in Nat /\ Arrived(tr, n, state, i - 1) = Arriving(E, n, rank, states[i])
  BY Pieces
<1>7. restart \in Nat
  <2>1. Multiple(n) \in Nat
    BY <1>1, MultipleType
  <2>2. 3 * whole + 17 * lost \in Nat
    BY <1>4
  <2>3. ASSUME NEW a \in Nat, NEW b \in Nat PROVE a * b \in Nat
    OBVIOUS
  <2> HIDE DEF lost
  <2> QED
    BY <2>1, <2>2, <2>3
<1>8. \A i \in 1 .. n : i - 1 \in 0 .. n - 1
  BY <1>1
<1> HIDE DEF lost, restart, new, surf
<1>9. ASSUME NEW i \in 1 .. n PROVE new[i - 1] \in Nat /\ new[i - 1] = surf[states[i]]
  <2>1. states[i] \in PagesOf(E)
    BY <1>1 DEF Bijection, Injection
  <2>2. new[i - 1] = 17 * n * Arrived(tr, n, state, i - 1) + restart
    BY <1>3, <1>8
  <2>3. surf[states[i]] = 17 * n * Arriving(E, n, rank, states[i]) + restart
    BY <1>5, <2>1
  <2>4. 17 * n * Arrived(tr, n, state, i - 1) + restart \in Nat
    <3>1. ASSUME NEW a \in Nat PROVE 17 * n * a \in Nat
      <4>1. 17 * n \in Nat
        BY <1>1
      <4>2. ASSUME NEW x \in Nat PROVE x * a \in Nat
        OBVIOUS
      <4> QED
        BY <4>1, <4>2
    <3>2. 17 * n * Arrived(tr, n, state, i - 1) \in Nat
      BY <1>6, <3>1
    <3> QED
      BY <1>7, <3>2
  <2> QED
    BY <1>6, <2>2, <2>3, <2>4
<1>10. new \in [0 .. n - 1 -> Nat]
  <2>1. ASSUME NEW k \in 0 .. n - 1 PROVE new[k] \in Nat
    <3>1. k + 1 \in 1 .. n /\ (k + 1) - 1 = k
      BY <1>1
    <3>2. new[(k + 1) - 1] \in Nat
      BY <1>9, <3>1
    <3> QED
      BY <3>1, <3>2
  <2> QED
    BY <1>3, <2>1
<1>11. surf \in [PagesOf(E) -> Nat]
  <2>1. ASSUME NEW p \in PagesOf(E) PROVE surf[p] \in Nat
    <3>1. PICK i \in 1 .. n : states[i] = p
      BY <1>1 DEF Bijection, Surjection
    <3> QED
      BY <1>9, <3>1
  <2> QED
    BY <1>5, <2>1
<1> QED
  BY <1>9, <1>10, <1>11 DEF Agree, new, surf

(* And so they go on, one as the other.                                    *)
LEMMA Powers ==
    ASSUME NEW E, NEW n, NEW states, NEW m, NEW tr, NEW edge, Chain(E, n, states, m, tr, edge),
           Cardinality(PagesOf(E)) = n
    PROVE  Agree(E, n, states, Power(tr, n)[Iterations], Surfed(E)[Iterations])
<1> DEFINE N == Iterations
           S == [0 .. n - 1 -> Nat]
           R == [PagesOf(E) -> Nat]
           s0 == [i \in 0 .. n - 1 |-> 1]
           r0 == [p \in PagesOf(E) |-> 1]
           SBody(f) == [k \in 0 .. N |-> IF k = 0 THEN s0 ELSE Iterate(tr, n, f[k - 1], Whole(n, k - 1))]
           RBody(f) == [k \in 0 .. N |-> IF k = 0 THEN r0 ELSE Surf(E, f[k - 1], Whole(n, k - 1))]
           state == CHOOSE f : f = SBody(f)
           rank == CHOOSE f : f = RBody(f)
           SF == [k \in 1 .. N |-> [x \in S |-> Iterate(tr, n, x, Whole(n, k - 1))]]
           RF == [k \in 1 .. N |-> [x \in R |-> Surf(E, x, Whole(n, k - 1))]]
<1>1. n \in Nat /\ states \in Bijection(1 .. n, PagesOf(E)) /\ N \in Nat
  BY PageRankAssumption DEF Chain
<1>2. Power(tr, n) = state
  BY DEF Power
<1>3. Surfed(E) = rank
  BY DEF Surfed
<1>4. ASSUME NEW k \in 1 .. N PROVE Whole(n, k - 1) \in Nat
  <2>1. k - 1 \in Nat
    BY <1>1
  <2> QED
    BY <1>1, <2>1, WholeType
<1>5. ASSUME NEW k \in 1 .. N, NEW x, NEW y, Agree(E, n, states, x, y)
      PROVE  Agree(E, n, states, Iterate(tr, n, x, Whole(n, k - 1)), Surf(E, y, Whole(n, k - 1)))
  <2> DEFINE w == Whole(n, k - 1)
  <2>1. w \in Nat
    BY <1>4
  <2> HIDE DEF w
  <2>2. Agree(E, n, states, Iterate(tr, n, x, w), Surf(E, y, w))
    BY <1>5, <2>1, Iterates
  <2> QED
    BY <2>2 DEF w
<1>6. ASSUME NEW x \in S PROVE \E y : Agree(E, n, states, x, y)
  <2> DEFINE Nth(p) == CHOOSE i \in 1 .. n : states[i] = p
             y == [p \in PagesOf(E) |-> x[Nth(p) - 1]]
  <2>1. \A p \in PagesOf(E) : Nth(p) \in 1 .. n
    BY <1>1 DEF Bijection, Surjection
  <2>2. \A i \in 1 .. n : states[i] \in PagesOf(E) /\ Nth(states[i]) = i
    BY <1>1 DEF Bijection, Injection, IsInjective
  <2>3. \A i \in 1 .. n : i - 1 \in 0 .. n - 1
    BY <1>1
  <2> HIDE DEF At
  <2>4. y \in R /\ \A i \in 1 .. n : x[i - 1] = y[states[i]]
    BY <2>1, <2>2, <2>3
  <2> QED
    BY <2>4 DEF Agree
<1>7. ASSUME NEW y \in R PROVE \E x : Agree(E, n, states, x, y)
  <2> DEFINE x == [k \in 0 .. n - 1 |-> y[states[k + 1]]]
  <2>1. \A k \in 0 .. n - 1 : k + 1 \in 1 .. n
    BY <1>1
  <2>2. \A i \in 1 .. n : states[i] \in PagesOf(E)
    BY <1>1 DEF Bijection, Injection
  <2>3. ASSUME NEW i \in 1 .. n PROVE i - 1 \in 0 .. n - 1 /\ (i - 1) + 1 = i
    BY <1>1
  <2>4. x \in S /\ \A i \in 1 .. n : x[i - 1] = y[states[i]]
    BY <2>1, <2>2, <2>3
  <2> QED
    BY <2>4 DEF Agree
<1>8. Agree(E, n, states, s0, r0)
  <2>1. s0 \in S /\ r0 \in R
    OBVIOUS
  <2>2. \A i \in 1 .. n : s0[i - 1] = r0[states[i]]
    BY <1>1 DEF Bijection, Injection
  <2> QED
    BY <2>1, <2>2 DEF Agree
<1>9. \A x, y : Agree(E, n, states, x, y) => x \in S /\ y \in R
  BY DEF Agree
<1> HIDE DEF S, R, s0, r0, N, state, rank
<1>10. SF \in Steps(N, S)
  <2>1. ASSUME NEW k \in 1 .. N, NEW x \in S PROVE Iterate(tr, n, x, Whole(n, k - 1)) \in S
    <3>1. PICK y : Agree(E, n, states, x, y)
      BY <1>6
    <3> QED
      BY <1>5, <1>9, <3>1
  <2> QED
    BY <2>1 DEF Steps
<1>11. RF \in Steps(N, R)
  <2>1. ASSUME NEW k \in 1 .. N, NEW y \in R PROVE Surf(E, y, Whole(n, k - 1)) \in R
    <3>1. PICK x : Agree(E, n, states, x, y)
      BY <1>7
    <3> QED
      BY <1>5, <1>9, <3>1
  <2> QED
    BY <2>1 DEF Steps
<1>12. s0 \in S /\ r0 \in R
  BY <1>8, <1>9
<1>13. state = SBody(state)
  <2>1. PICK g \in [0 .. N -> S] : g[0] = s0 /\ \A i \in 1 .. N : g[i] = SF[i][g[i - 1]]
    <3> HIDE DEF SF
    <3>1. Chains(N, S, s0, SF) # {}
      BY <1>1, <1>10, <1>12, Recursion
    <3> QED
      BY <3>1 DEF Chains
  <2>2. ASSUME NEW k \in 1 .. N PROVE g[k] = Iterate(tr, n, g[k - 1], Whole(n, k - 1))
    <3>1. k - 1 \in 0 .. N /\ g[k - 1] \in S
      BY <1>1, <2>1
    <3> QED
      BY <2>1, <3>1
  <2>3. g = SBody(g)
    BY <1>1, <2>1, <2>2
  <2> HIDE DEF SBody
  <2> QED
    BY <2>3 DEF state
<1>14. rank = RBody(rank)
  <2>1. PICK g \in [0 .. N -> R] : g[0] = r0 /\ \A i \in 1 .. N : g[i] = RF[i][g[i - 1]]
    <3> HIDE DEF RF
    <3>1. Chains(N, R, r0, RF) # {}
      BY <1>1, <1>11, <1>12, Recursion
    <3> QED
      BY <3>1 DEF Chains
  <2>2. ASSUME NEW k \in 1 .. N PROVE g[k] = Surf(E, g[k - 1], Whole(n, k - 1))
    <3>1. k - 1 \in 0 .. N /\ g[k - 1] \in R
      BY <1>1, <2>1
    <3> QED
      BY <2>1, <3>1
  <2>3. g = RBody(g)
    BY <1>1, <2>1, <2>2
  <2> HIDE DEF RBody
  <2> QED
    BY <2>3 DEF rank
<1> HIDE DEF SF, RF
<1> DEFINE T == {k \in Nat : Agree(E, n, states, state[k], rank[k])}
<1>15. 0 \in T
  <2>1. state[0] = s0 /\ rank[0] = r0
    BY <1>1, <1>13, <1>14
  <2> QED
    BY <1>8, <2>1
<1>16. ASSUME NEW k \in 0 .. N - 1, k \in T PROVE k + 1 \in T
  <2>1. k + 1 \in 1 .. N /\ (k + 1) - 1 = k /\ k + 1 \in 0 .. N /\ k + 1 # 0 /\ k + 1 \in Nat
    BY <1>1
  <2>2. /\ state[k + 1] = Iterate(tr, n, state[k], Whole(n, (k + 1) - 1))
        /\ rank[k + 1] = Surf(E, rank[k], Whole(n, (k + 1) - 1))
    BY <1>13, <1>14, <2>1
  <2>3. Agree(E, n, states, state[k + 1], rank[k + 1])
    BY <1>5, <1>16, <2>1, <2>2
  <2> QED
    BY <2>1, <2>3
<1>17. N \in T
  <2>1. 0 .. N \subseteq T
    <3> HIDE DEF T
    <3> QED
      BY <1>1, <1>15, <1>16, InductionUpTo
  <2>2. N \in 0 .. N
    BY <1>1
  <2> QED
    BY <2>1, <2>2
<1> QED
  BY <1>2, <1>3, <1>17 DEF N

(* A list has each page of the graph once, with the rank that the surfer   *)
(* gives it.                                                               *)
Lists(list, P, E) ==
    /\ list \in Seq(P \X Nat)
    /\ \A i, j \in 1 .. Len(list) : list[i][1] = list[j][1] => i = j
    /\ \A p \in PagesOf(E) : \E i \in 1 .. Len(list) : list[i][1] = p
    /\ \A i \in 1 .. Len(list) : list[i][1] \in PagesOf(E) /\ list[i][2] = RanksOf(E)[list[i][1]]

(* PageRanker's ranks, computed stride by stride from the sorted edges, in *)
(* whatever order linkage.sql returns these, are the ranks of the surfer.  *)
THEOREM RanksAreRight ==
    ASSUME NEW P, NEW E \in SUBSET (P \X P), IsFiniteSet(E), NEW edges \in SetToSeqs(E)
    PROVE  Lists(PowerIteration(edges), P, E)
<1> DEFINE states == States(edges)
           n == Len(states)
           tr == Transition(edges)
           m == Cardinality(E)
           final == Power(tr, n)[Iterations]
           listed == PowerIteration(edges)
<1>1. states \in Seq(P) /\ Distinct(states) /\ Cardinality(PagesOf(E)) = n
  BY ChainIsRead
<1>2. PICK edge : Chain(E, n, states, m, tr, edge)
  BY ChainIsRead
<1>3. listed = [i \in 1 .. n |-> <<states[i], final[i - 1]>>]
  BY <1>1 DEF PowerIteration
<1> HIDE DEF states, tr, m, listed, final
<1>4. Agree(E, n, states, final, Surfed(E)[Iterations])
  <2> HIDE DEF n
  <2>1. Agree(E, n, states, Power(tr, n)[Iterations], Surfed(E)[Iterations])
    BY <1>1, <1>2, Powers
  <2> QED
    BY <2>1 DEF final
<1>5. n \in Nat
  BY <1>1
<1>6. ASSUME NEW i \in 1 .. n PROVE final[i - 1] \in Nat /\ final[i - 1] = RanksOf(E)[states[i]]
  <2>1. i - 1 \in 0 .. n - 1
    BY <1>5
  <2> QED
    BY <1>4, <2>1 DEF Agree, RanksOf
<1>7. ASSUME NEW i \in 1 .. n PROVE states[i] \in P
  BY <1>1
<1>8. listed \in Seq(P \X Nat) /\ Len(listed) = n
  <2> HIDE DEF n
  <2>1. listed \in [1 .. n -> P \X Nat]
    BY <1>3, <1>6, <1>7
  <2> QED
    BY <1>5, <2>1
<1>9. ASSUME NEW i \in 1 .. n PROVE listed[i][1] = states[i] /\ listed[i][2] = final[i - 1]
  <2> HIDE DEF n
  <2> QED
    BY <1>3
<1>10. \A i, j \in 1 .. n : states[i] = states[j] => i = j
  BY <1>1 DEF Distinct
<1>11. /\ \A p \in PagesOf(E) : \E i \in 1 .. n : states[i] = p
       /\ \A i \in 1 .. n : states[i] \in PagesOf(E)
  BY <1>2 DEF Chain, Bijection, Surjection
<1> HIDE DEF n
<1>12. \A i, j \in 1 .. n : listed[i][1] = listed[j][1] => i = j
  BY <1>9, <1>10
<1>13. \A p \in PagesOf(E) : \E i \in 1 .. n : listed[i][1] = p
  BY <1>9, <1>11
<1>14. \A i \in 1 .. n : listed[i][1] \in PagesOf(E) /\ listed[i][2] = RanksOf(E)[listed[i][1]]
  BY <1>6, <1>9, <1>11
<1>15. Lists(listed, P, E)
  BY <1>8, <1>12, <1>13, <1>14 DEF Lists
<1> QED
  BY <1>15 DEF listed

-----------------------------------------------------------------------------
(* What the proof needs beyond the property.                               *)

Labels == {"begin", "ensure", "seed names", "seed status", "analyses", "reset", "linkage", "push",
           "collect"} \cup Looping \cup Ended

(* The types of what is looked at below.                                   *)
Types ==
    /\ command \in Scenarios
    /\ waves \in [Ids -> Names \cup {NoWave}]
    /\ pages \subseteq Pages
    /\ status \in [Ids -> [Pages -> {"absent", "open", "taken", "closed"}]]
    /\ pc \in [Processes -> Labels]
    /\ wave \in [Processes -> Ids \cup {NoWave}]
    /\ seen \in [Processes -> SUBSET Ids]
    /\ page \in [Processes -> Pages \cup {NoPage}]
    /\ \A c \in Processes : pc[c] \in Visiting => page[c] \in Pages
    /\ unused \in [Processes -> SUBSET Pages]
    /\ \A c \in Processes : unused[c] # {} => pc[c] = "collect"

(* A wave_id is new until its process has inserted it.                     *)
Fresh ==
    \A c \in Processes : pc[c] \in {"begin", "ensure"} =>
        ~ Exists(c) /\ \A d \in Processes : wave[d] # c /\ c \notin seen[d]

(* Another wave that comes to need a page that a removal has found unused  *)
(* is in the race.                                                         *)
Watched ==
    \A d \in Processes : \A p \in unused[d] : \A w \in Ids :
        w # wave[d] /\ (status[w][p] # "absent" \/ \E q \in Pages : <<w, q, p>> \in linkage) =>
            <<w, p>> \in raced

(* Between its first statement and the third, a visit has its links in     *)
(* linkage, which keeps their pages from any later removal, and after the  *)
(* second they have their names, unless one was in the race.               *)
Linked ==
    \A c \in Processes : pc[c] \in {"names", "status"} /\ Exists(wave[c]) =>
        \A p \in Links[page[c]] : <<wave[c], page[c], p>> \in linkage

Given ==
    \A c \in Processes : pc[c] = "status" /\ Exists(wave[c]) =>
        \A p \in Links[page[c]] : p \in pages \/ <<wave[c], p>> \in raced

Inv == Types /\ Fresh /\ Watched /\ Linked /\ Given /\ NamesOutliveRemovals

-----------------------------------------------------------------------------
(* The statements of a visit and what follows them.                        *)
LEMMA Order ==
    /\ Statements[1] = "links" /\ Statements[2] = "names" /\ Statements[3] = "status"
    /\ Statements[4] = "close" /\ Statements[5] = "fetch"
    /\ Position("links") = 1 /\ Position("names") = 2
    /\ Position("status") = 3 /\ Position("close") = 4
<1>1. /\ DOMAIN Statements = 1 .. 5
      /\ Statements[1] = "links" /\ Statements[2] = "names" /\ Statements[3] = "status"
      /\ Statements[4] = "close" /\ Statements[5] = "fetch"
  BY DEF Statements
<1>2. ASSUME NEW i \in 1 .. 4 PROVE Position(Statements[i]) = i
  <2>1. \A j \in 1 .. 5 : Statements[j] = Statements[i] => j = i
    BY <1>1
  <2> QED
    BY <1>1, <2>1 DEF Position
<1> QED
  BY <1>1, <1>2

(* A statement of a visit moves its run on, or ends the visit.             *)
LEMMA Stores ==
    ASSUME Types, NEW c \in Processes, NEW i \in 1 .. 4, NEW STATE succeeds,
           Store(c, i, succeeds)
    PROVE  /\ pc[c] = Statements[i]
           /\ succeeds => pc' = [pc EXCEPT ![c] = Statements[i + 1]]
           /\ ~ succeeds => pc' = [pc EXCEPT ![c] = "fetch"]
           /\ \/ pc'[c] = "fetch" /\ page' = [page EXCEPT ![c] = NoPage]
              \/ succeeds /\ i # 4 /\ pc'[c] = Statements[i + 1] /\ page' = page
           /\ UNCHANGED <<waves, command, wave, seen, unused>>
<1>1. pc[c] = Statements[i] /\ UNCHANGED <<waves, command, wave, seen, unused>>
  BY DEF Store, At
<1> DEFINE next == IF succeeds THEN Statements[i + 1] ELSE "fetch"
<1>2. /\ pc' = [pc EXCEPT ![c] = next]
      /\ page' = IF next = "fetch" THEN [page EXCEPT ![c] = NoPage] ELSE page
  BY DEF Store, Goto
<1>3. succeeds => next = Statements[i + 1]
  OBVIOUS
<1>4. ~ succeeds => next = "fetch"
  OBVIOUS
<1> HIDE DEF next
<1>5. pc'[c] = next
  BY <1>2 DEF Types
<1>6. i = 4 /\ succeeds => next = "fetch"
  BY <1>3, Order
<1> QED
  BY <1>1, <1>2, <1>3, <1>4, <1>5, <1>6

(* The links of a page come first.                                         *)
LEMMA LinksStores ==
    ASSUME Types, NEW c \in Processes, StoreLinks(c)
    PROVE  /\ pc[c] = "links"
           /\ \/ CanReference(c) /\ pc' = [pc EXCEPT ![c] = "names"] /\ page' = page
              \/ pc' = [pc EXCEPT ![c] = "fetch"] /\ page' = [page EXCEPT ![c] = NoPage]
           /\ UNCHANGED <<waves, command, wave, seen, unused>>
<1>1. CanReference(c) \in BOOLEAN /\ Store(c, 1, CanReference(c))
  BY Order DEF StoreLinks, CanReference
<1> QED
  BY <1>1, Stores, Order

(* Their names are always stored.                                          *)
LEMMA NamesStores ==
    ASSUME Types, NEW c \in Processes, StoreNames(c)
    PROVE  /\ pc[c] = "names"
           /\ pc' = [pc EXCEPT ![c] = "status"] /\ page' = page
           /\ UNCHANGED <<waves, command, wave, seen, unused>>
<1>1. Store(c, 2, TRUE)
  BY Order DEF StoreNames
<1>2. Statements[2] = "names" /\ Statements[2 + 1] = "status"
  BY Order
<1>3. pc[c] = "names" /\ UNCHANGED <<waves, command, wave, seen, unused>>
  BY <1>1, <1>2 DEF Store, At
<1>4. pc' = [pc EXCEPT ![c] = "status"]
  BY <1>1, <1>2 DEF Store, Goto
<1>5. page' = page
  BY <1>1, <1>2 DEF Store
<1> QED
  BY <1>3, <1>4, <1>5

(* The rows of a wave that is gone are not.                                *)
LEMMA StatusStores ==
    ASSUME Types, NEW c \in Processes, StoreStatus(c)
    PROVE  /\ pc[c] = "status"
           /\ \/ CanReference(c) /\ pc' = [pc EXCEPT ![c] = "close"] /\ page' = page
              \/ pc' = [pc EXCEPT ![c] = "fetch"] /\ page' = [page EXCEPT ![c] = NoPage]
           /\ UNCHANGED <<waves, command, wave, seen, unused>>
<1>1. CanReference(c) \in BOOLEAN /\ Store(c, 3, CanReference(c))
  BY Order DEF StoreStatus, CanReference
<1> QED
  BY <1>1, Stores, Order

(* The last statement ends the visit.                                      *)
LEMMA ClosedStores ==
    ASSUME Types, NEW c \in Processes, StoreClosed(c)
    PROVE  /\ pc[c] = "close"
           /\ pc' = [pc EXCEPT ![c] = "fetch"] /\ page' = [page EXCEPT ![c] = NoPage]
           /\ UNCHANGED <<waves, command, wave, seen, unused>>
<1>1. Store(c, 4, TRUE)
  BY Order DEF StoreClosed
<1>2. Statements[4] = "close" /\ Statements[4 + 1] = "fetch"
  BY Order
<1>3. pc[c] = "close" /\ UNCHANGED <<waves, command, wave, seen, unused>>
  BY <1>1, <1>2 DEF Store, At
<1>4. pc' = [pc EXCEPT ![c] = "fetch"]
  BY <1>1, <1>2 DEF Store, Goto
<1>5. page' = [page EXCEPT ![c] = NoPage]
  BY <1>1, <1>2 DEF Store
<1> QED
  BY <1>3, <1>4, <1>5

-----------------------------------------------------------------------------
(* Types.                                                                  *)

(* The types hold at first.                                                *)
LEMMA InitTypes == Init => Types
  BY WavesAssumption DEF Init, Types, Labels, Ids, Looping, Visiting

(* What Open makes of the table: the rows that were absent are open.       *)
LEMMA OpensTypes ==
    ASSUME Types, NEW w, NEW ps, Open(w, ps)
    PROVE  status' \in [Ids -> [Pages -> {"absent", "open", "taken", "closed"}]]
<1>1. status' = [status EXCEPT ![w] = [p \in Pages |->
                    IF p \in ps /\ status[w][p] = "absent" THEN "open" ELSE status[w][p]]]
  BY DEF Open
<1>2. w \in Ids =>
        [p \in Pages |-> IF p \in ps /\ status[w][p] = "absent" THEN "open" ELSE status[w][p]]
            \in [Pages -> {"absent", "open", "taken", "closed"}]
  BY DEF Types
<1> QED
  BY <1>1, <1>2 DEF Types

(* No other row is opened.                                                 *)
LEMMA Opens ==
    ASSUME Types, NEW w, NEW ps, Open(w, ps),
           NEW v \in Ids, NEW p \in Pages, status'[v][p] # "absent"
    PROVE  status[v][p] # "absent" \/ (v = w /\ p \in ps)
<1>1. status' = [status EXCEPT ![w] = [q \in Pages |->
                    IF q \in ps /\ status[w][q] = "absent" THEN "open" ELSE status[w][q]]]
  BY DEF Open
<1>2. CASE v = w
  BY <1>1, <1>2 DEF Types
<1>3. CASE v # w
  BY <1>1, <1>3 DEF Types
<1> QED
  BY <1>2, <1>3

(* A process that moves on.                                                *)
LEMMA Going ==
    ASSUME Types, NEW c \in Processes, NEW label \in Labels, Goto(c, label)
    PROVE  /\ pc' \in [Processes -> Labels]
           /\ pc'[c] = label
           /\ \A d \in Processes \ {c} : pc'[d] = pc[d]
  BY DEF Goto, Types

(* What the command of a process is.                                       *)
LEMMA Commands ==
    ASSUME Types, NEW c \in Processes
    PROVE  command[c].wave \in Names
<1>1. command \in [Processes -> [verb : {"run", "rm", "page-rank"}, wave : Names, ranks : BOOLEAN]]
  BY WavesAssumption DEF Types
<1> QED
  BY <1>1

(* The steps of a process that leave waves, names, links and wave_ids, and *)
(* that open no row.                                                       *)
Quiet(c) ==
    SeeWave(c) \/ CreateAnalyses(c) \/ ResetQueue(c) \/ Fetch(c) \/ FetchNothing(c) \/ Poll(c) \/ StoreClosed(c)
        \/ ReadLinkage(c) \/ PushPageRanks(c) \/ Crash(c)

(* They keep the types.                                                    *)
LEMMA QuietTypes ==
    ASSUME Types, NEW c \in Processes, Quiet(c)
    PROVE  Types'
<1> USE DEF Labels, Looping, Visiting, Ended
<1>1. CASE SeeWave(c)
  <2>1. pc' = [pc EXCEPT ![c] = "ensure"] /\ seen' = [seen EXCEPT ![c] = Called(command[c].wave)]
        /\ pc[c] = "begin"
        /\ UNCHANGED <<waves, pages, status, command, wave, page, unused>>
    BY <1>1 DEF SeeWave, Goto, tables
  <2>2. Called(command[c].wave) \subseteq Ids
    BY DEF Called
  <2> QED
    BY <2>1, <2>2 DEF Types
<1>2. CASE CreateAnalyses(c)
  <2>1. \E l \in {"reset", "failed"} : pc' = [pc EXCEPT ![c] = l]
    BY <1>2 DEF CreateAnalyses, Goto
  <2>2. pc[c] = "analyses" /\ UNCHANGED <<waves, pages, status, command, wave, seen, page, unused>>
    BY <1>2 DEF CreateAnalyses, At, tables
  <2> QED
    BY <2>1, <2>2 DEF Types
<1>3. CASE ResetQueue(c)
  <2>1. pc' = [pc EXCEPT ![c] = "fetch"] /\ pc[c] = "reset"
        /\ status' = [status EXCEPT ![wave[c]] =
                        [p \in Pages |-> IF status[wave[c]][p] = "taken" THEN "open" ELSE status[wave[c]][p]]]
        /\ UNCHANGED <<waves, pages, command, wave, seen, page, unused>>
    BY <1>3 DEF ResetQueue, At, Goto
  <2>2. wave[c] \in Ids =>
            [p \in Pages |-> IF status[wave[c]][p] = "taken" THEN "open" ELSE status[wave[c]][p]]
                \in [Pages -> {"absent", "open", "taken", "closed"}]
    BY DEF Types
  <2>3. status' \in [Ids -> [Pages -> {"absent", "open", "taken", "closed"}]]
    BY <2>1, <2>2 DEF Types
  <2> QED
    BY <2>1, <2>3 DEF Types
<1>4. CASE Fetch(c)
  <2>1. PICK p \in pages : status' = [status EXCEPT ![wave[c]][p] = "taken"]
                           /\ page' = [page EXCEPT ![c] = p]
    BY <1>4 DEF Fetch, Fetchable
  <2>2. pc' = [pc EXCEPT ![c] = "links"] /\ pc[c] = "fetch"
        /\ UNCHANGED <<waves, pages, command, wave, seen, unused>>
    BY <1>4 DEF Fetch, At, Goto
  <2>3. status' \in [Ids -> [Pages -> {"absent", "open", "taken", "closed"}]]
    BY <2>1 DEF Types
  <2> QED
    BY <2>1, <2>2, <2>3 DEF Types
<1>5. CASE FetchNothing(c) \/ Poll(c)
  <2>1. \E l \in {"poll", "fetch", "linkage", "done"} : pc' = [pc EXCEPT ![c] = l]
    BY <1>5 DEF FetchNothing, Poll, Goto
  <2>2. pc[c] \in {"fetch", "poll"} /\ UNCHANGED <<waves, pages, status, command, wave, seen, page, unused>>
    BY <1>5 DEF FetchNothing, Poll, tables
  <2> QED
    BY <2>1, <2>2 DEF Types
<1>6. CASE StoreClosed(c)
  <2>1. /\ pc[c] = "close" /\ pc' = [pc EXCEPT ![c] = "fetch"] /\ page' = [page EXCEPT ![c] = NoPage]
        /\ UNCHANGED <<waves, command, wave, seen, unused>>
    BY <1>6, ClosedStores
  <2>2. /\ pages' = pages
        /\ status' = [status EXCEPT ![wave[c]][page[c]] =
                        IF status[wave[c]][page[c]] = "absent" THEN "absent" ELSE "closed"]
    BY <1>6 DEF StoreClosed
  <2>3. status' \in [Ids -> [Pages -> {"absent", "open", "taken", "closed"}]]
    BY <2>2 DEF Types
  <2> QED
    BY <2>1, <2>2, <2>3 DEF Types
<1>7. CASE ReadLinkage(c)
  BY <1>7 DEF ReadLinkage, Goto, tables, Types
<1>8. CASE PushPageRanks(c)
  <2>1. \E l \in {"failed", "done", "push"} : pc' = [pc EXCEPT ![c] = l]
    BY <1>8 DEF PushPageRanks, Goto
  <2>2. pc[c] = "push" /\ UNCHANGED <<waves, pages, status, command, wave, seen, page, unused>>
    BY <1>8 DEF PushPageRanks, At
  <2> QED
    BY <2>1, <2>2 DEF Types
<1>9. CASE Crash(c)
  BY <1>9 DEF Crash, Goto, tables, Types
<1> QED
  BY <1>1, <1>2, <1>3, <1>4, <1>5, <1>6, <1>7, <1>8, <1>9 DEF Quiet

(* The other steps.                                                        *)
Loud(c) ==
    EnsureWave(c) \/ SeedNames(c) \/ SeedStatus(c) \/ StoreLinks(c) \/ StoreNames(c) \/ StoreStatus(c)
        \/ FindUnused(c) \/ Collect(c)

(* They keep the types too.                                                *)
LEMMA LoudTypes ==
    ASSUME Types, NEW c \in Processes, Loud(c)
    PROVE  Types'
<1> USE DEF Labels, Looping, Visiting, Ended
<1>1. CASE EnsureWave(c)
  <2>1. /\ pc[c] = "ensure" /\ \E l \in {"panicked", "seed names", "linkage"} : pc' = [pc EXCEPT ![c] = l]
        /\ UNCHANGED <<pages, status, command, seen, page, unused>>
    BY <1>1 DEF EnsureWave, Goto
  <2>2. waves' = waves \/ waves' = [waves EXCEPT ![c] = command[c].wave]
    BY <1>1 DEF EnsureWave
  <2>3. wave' = wave \/ \E w \in Ids : wave' = [wave EXCEPT ![c] = w]
    <3>1. {c} \cup seen[c] \subseteq Ids
      BY DEF Types, Ids
    <3> QED
      BY <1>1, <3>1 DEF EnsureWave
  <2>4. waves' \in [Ids -> Names \cup {NoWave}]
    BY <2>2, Commands DEF Types
  <2>5. wave' \in [Processes -> Ids \cup {NoWave}]
    BY <2>3 DEF Types
  <2> QED
    BY <2>1, <2>4, <2>5 DEF Types
<1>2. CASE SeedNames(c)
  <2>1. Seeds[command[c].wave] \subseteq Pages
    BY Commands, WavesAssumption
  <2> QED
    BY <1>2, <2>1 DEF SeedNames, Goto, Types
<1>3. CASE SeedStatus(c)
  <2>1. /\ pc[c] = "seed status" /\ \E l \in {"analyses", "failed"} : pc' = [pc EXCEPT ![c] = l]
        /\ UNCHANGED <<waves, pages, command, wave, seen, page, unused>>
    BY <1>3 DEF SeedStatus, At, Goto
  <2>2. status' \in [Ids -> [Pages -> {"absent", "open", "taken", "closed"}]]
    BY <1>3, OpensTypes DEF SeedStatus, Types
  <2> QED
    BY <2>1, <2>2 DEF Types
<1>4. CASE StoreLinks(c)
  <2>1. UNCHANGED <<pages, status>>
    BY <1>4 DEF StoreLinks
  <2> QED
    BY <1>4, <2>1, LinksStores DEF Types
<1>5. CASE StoreNames(c)
  <2>1. pc[c] = "names" /\ UNCHANGED status /\ pages' = pages \cup Links[page[c]]
    BY <1>5, NamesStores DEF StoreNames
  <2>2. Links[page[c]] \subseteq Pages
    BY <2>1, WavesAssumption DEF Types
  <2> QED
    BY <1>5, <2>1, <2>2, NamesStores DEF Types
<1>6. CASE StoreStatus(c)
  <2>1. status' \in [Ids -> [Pages -> {"absent", "open", "taken", "closed"}]] /\ pages' = pages
    BY <1>6, OpensTypes DEF StoreStatus, Types
  <2> QED
    BY <1>6, <2>1, StatusStores DEF Types
<1>7. CASE FindUnused(c)
  <2>1. PICK w \in Ids \cup {NoWave} :
            wave' = [wave EXCEPT ![c] = w] /\ unused' = [unused EXCEPT ![c] = Unused(w)]
    BY <1>7 DEF FindUnused, Called
  <2>2. Unused(w) \subseteq Pages
    BY DEF Unused, Types
  <2>3. /\ pc[c] = "begin" /\ pc' = [pc EXCEPT ![c] = "collect"]
        /\ UNCHANGED <<waves, pages, status, command, seen, page>>
    BY <1>7 DEF FindUnused, Goto, tables
  <2> QED
    BY <2>1, <2>2, <2>3 DEF Types
<1>8. CASE Collect(c)
  <2>1. /\ pc[c] = "collect" /\ \E l \in {"removed", "not removed"} : pc' = [pc EXCEPT ![c] = l]
        /\ unused' = [d \in Processes |-> unused[d] \ unused[c]] /\ pages' = pages \ unused[c]
        /\ UNCHANGED <<command, wave, seen, page>>
    BY <1>8 DEF Collect, Goto
  <2>2. waves' = [v \in Ids |-> IF v = wave[c] THEN NoWave ELSE waves[v]]
        /\ status' = [v \in Ids |-> IF v = wave[c] THEN [p \in Pages |-> "absent"] ELSE status[v]]
    BY <1>8 DEF Collect, Cascade
  <2>3. waves' \in [Ids -> Names \cup {NoWave}]
    BY <2>2 DEF Types
  <2>4. status' \in [Ids -> [Pages -> {"absent", "open", "taken", "closed"}]]
    BY <2>2 DEF Types
  <2> QED
    BY <2>1, <2>3, <2>4 DEF Types
<1> QED
  BY <1>1, <1>2, <1>3, <1>4, <1>5, <1>6, <1>7, <1>8 DEF Loud

-----------------------------------------------------------------------------
(* The races.                                                              *)

(* At first there is nothing to remove.                                    *)
LEMMA InitInv == Init => Inv
<1> SUFFICES ASSUME Init PROVE Inv
  OBVIOUS
<1>1. Types
  BY InitTypes
<1>2. Fresh
  BY WavesAssumption DEF Init, Fresh, Exists, Ids
<1>3. Watched /\ Linked /\ Given
  BY DEF Init, Watched, Linked, Given
<1>4. NamesOutliveRemovals
  BY DEF Init, NamesOutliveRemovals
<1> QED
  BY <1>1, <1>2, <1>3, <1>4 DEF Inv

(* What the quiet steps leave alone.                                       *)
LEMMA QuietKeeps ==
    ASSUME Types, NEW c \in Processes, Quiet(c)
    PROVE  /\ UNCHANGED <<waves, pages, linkage, wave, raced>>
           /\ \A w \in Ids, p \in Pages : status'[w][p] # "absent" => status[w][p] # "absent"
           /\ \A d \in Processes : unused'[d] \subseteq unused[d]
           /\ \A d \in Processes : pc'[d] \in {"begin", "names", "status"} => pc'[d] = pc[d]
           /\ \A d \in Processes : pc'[d] = "ensure" => pc[d] \in {"begin", "ensure"}
           /\ \A d \in Processes : pc'[d] \in {"names", "status"} => page'[d] = page[d]
           /\ \A d \in Processes : seen'[d] \subseteq seen[d] \cup {w \in Ids : Exists(w)}
<1>1. ASSUME NEW label \in Labels \ {"begin", "ensure", "names", "status"},
             pc' = [pc EXCEPT ![c] = label],
             page' = page \/ \E p : page' = [page EXCEPT ![c] = p]
      PROVE  \A d \in Processes : pc'[d] \in {"begin", "ensure", "names", "status"} =>
                pc'[d] = pc[d] /\ page'[d] = page[d]
  BY <1>1 DEF Types
<1> USE DEF Labels, Looping, Visiting, Ended
<1>2. CASE SeeWave(c)
  <2>1. /\ pc[c] = "begin" /\ pc' = [pc EXCEPT ![c] = "ensure"]
        /\ seen' = [seen EXCEPT ![c] = Called(command[c].wave)]
        /\ UNCHANGED <<waves, pages, status, linkage, wave, page, unused, raced>>
    BY <1>2 DEF SeeWave, Goto, tables
  <2>2. Called(command[c].wave) \subseteq {w \in Ids : Exists(w)}
    BY Commands, WavesAssumption DEF Called, Exists
  <2> QED
    BY <2>1, <2>2 DEF Types
<1>3. CASE CreateAnalyses(c)
  <2>1. \E l \in {"reset", "failed"} : pc' = [pc EXCEPT ![c] = l]
    BY <1>3 DEF CreateAnalyses, Goto
  <2>2. UNCHANGED <<waves, pages, status, linkage, wave, seen, page, unused, raced>>
    BY <1>3 DEF CreateAnalyses, tables
  <2> QED
    BY <1>1, <2>1, <2>2
<1>4. CASE ResetQueue(c)
  <2>1. /\ pc' = [pc EXCEPT ![c] = "fetch"]
        /\ status' = [status EXCEPT ![wave[c]] =
                        [p \in Pages |-> IF status[wave[c]][p] = "taken" THEN "open" ELSE status[wave[c]][p]]]
        /\ UNCHANGED <<waves, pages, linkage, wave, seen, page, unused, raced>>
    BY <1>4 DEF ResetQueue, Goto
  <2>2. \A w \in Ids, p \in Pages : status'[w][p] # "absent" => status[w][p] # "absent"
    <3> SUFFICES ASSUME NEW w \in Ids, NEW p \in Pages, status'[w][p] # "absent"
                 PROVE  status[w][p] # "absent"
      OBVIOUS
    <3>1. CASE w = wave[c]
      BY <2>1, <3>1 DEF Types
    <3>2. CASE w # wave[c]
      BY <2>1, <3>2 DEF Types
    <3> QED
      BY <3>1, <3>2
  <2> QED
    BY <1>1, <2>1, <2>2
<1>5. CASE Fetch(c)
  <2>1. PICK p \in pages : /\ status[wave[c]][p] = "open"
                           /\ status' = [status EXCEPT ![wave[c]][p] = "taken"]
                           /\ page' = [page EXCEPT ![c] = p]
    BY <1>5 DEF Fetch, Fetchable
  <2>2. /\ pc' = [pc EXCEPT ![c] = "links"]
        /\ UNCHANGED <<waves, pages, linkage, wave, seen, unused, raced>>
    BY <1>5 DEF Fetch, Goto
  <2>3. \A w \in Ids, q \in Pages : status'[w][q] # "absent" => status[w][q] # "absent"
    BY <2>1 DEF Types
  <2> QED
    BY <1>1, <2>1, <2>2, <2>3
<1>6. CASE FetchNothing(c) \/ Poll(c)
  <2>1. \E l \in {"poll", "fetch", "linkage", "done"} : pc' = [pc EXCEPT ![c] = l]
    BY <1>6 DEF FetchNothing, Poll, Goto
  <2>2. UNCHANGED <<waves, pages, status, linkage, wave, seen, page, unused, raced>>
    BY <1>6 DEF FetchNothing, Poll, tables
  <2> QED
    BY <1>1, <2>1, <2>2
<1>7. CASE StoreClosed(c)
  <2>1. /\ pc' = [pc EXCEPT ![c] = "fetch"] /\ page' = [page EXCEPT ![c] = NoPage]
        /\ UNCHANGED <<waves, wave, seen, unused>>
    BY <1>7, ClosedStores
  <2>2. /\ UNCHANGED <<pages, linkage, raced>>
        /\ status' = [status EXCEPT ![wave[c]][page[c]] =
                        IF status[wave[c]][page[c]] = "absent" THEN "absent" ELSE "closed"]
    BY <1>7 DEF StoreClosed
  <2>3. \A w \in Ids, p \in Pages : status'[w][p] # "absent" => status[w][p] # "absent"
    BY <2>2 DEF Types
  <2> QED
    BY <1>1, <2>1, <2>2, <2>3
<1>8. CASE ReadLinkage(c)
  <2>1. /\ pc' = [pc EXCEPT ![c] = "push"]
        /\ UNCHANGED <<waves, pages, status, linkage, wave, seen, page, unused, raced>>
    BY <1>8 DEF ReadLinkage, Goto, tables
  <2> QED
    BY <1>1, <2>1
<1>9. CASE PushPageRanks(c)
  <2>1. \E l \in {"failed", "done", "push"} : pc' = [pc EXCEPT ![c] = l]
    BY <1>9 DEF PushPageRanks, Goto
  <2>2. UNCHANGED <<waves, pages, status, linkage, wave, seen, page, unused, raced>>
    BY <1>9 DEF PushPageRanks
  <2> QED
    BY <1>1, <2>1, <2>2
<1>10. CASE Crash(c)
  <2>1. /\ pc' = [pc EXCEPT ![c] = "crashed"] /\ page' = [page EXCEPT ![c] = NoPage]
        /\ unused' = [unused EXCEPT ![c] = {}]
        /\ UNCHANGED <<waves, pages, status, linkage, wave, seen, raced>>
    BY <1>10 DEF Crash, Goto, tables
  <2>2. \A d \in Processes : unused'[d] \subseteq unused[d]
    BY <2>1 DEF Types
  <2> QED
    BY <1>1, <2>1, <2>2
<1> QED
  BY <1>2, <1>3, <1>4, <1>5, <1>6, <1>7, <1>8, <1>9, <1>10 DEF Quiet

(* And so they are in no race.                                             *)
LEMMA QuietInv ==
    ASSUME Inv, NEW c \in Processes, Quiet(c)
    PROVE  Inv'
<1>0. Types /\ Fresh /\ Watched /\ Linked /\ Given /\ NamesOutliveRemovals
  BY DEF Inv
<1>1. Types'
  BY <1>0, QuietTypes
<1>2. Fresh'
  BY <1>0, QuietKeeps DEF Fresh, Exists, Ids
<1>3. Watched'
  <2> SUFFICES ASSUME NEW d \in Processes, NEW p \in unused'[d], NEW w \in Ids, w # wave'[d],
                      status'[w][p] # "absent" \/ \E q \in Pages : <<w, q, p>> \in linkage'
               PROVE  <<w, p>> \in raced'
    BY DEF Watched
  <2>1. p \in unused[d] /\ p \in Pages /\ w # wave[d]
    BY <1>0, QuietKeeps DEF Types
  <2>2. status[w][p] # "absent" \/ \E q \in Pages : <<w, q, p>> \in linkage
    BY <1>0, <2>1, QuietKeeps
  <2> QED
    BY <1>0, <2>1, <2>2, QuietKeeps DEF Watched
<1>4. Linked'
  BY <1>0, QuietKeeps DEF Linked, Exists
<1>5. Given'
  BY <1>0, QuietKeeps DEF Given, Exists
<1>6. NamesOutliveRemovals'
  BY <1>0, QuietKeeps DEF NamesOutliveRemovals
<1> QED
  BY <1>1, <1>2, <1>3, <1>4, <1>5, <1>6 DEF Inv

(* A wave is made: its wave_id was in no use.                              *)
LEMMA EnsureInv ==
    ASSUME Inv, NEW c \in Processes, EnsureWave(c)
    PROVE  Inv'
<1>0. Types /\ Fresh /\ Watched /\ Linked /\ Given /\ NamesOutliveRemovals /\ Types'
  BY LoudTypes DEF Inv, Loud
<1>1. /\ pc[c] = "ensure" /\ \E l \in {"panicked", "seed names", "linkage"} : pc' = [pc EXCEPT ![c] = l]
      /\ UNCHANGED <<pages, status, linkage, seen, page, unused, raced>>
  BY DEF EnsureWave, Goto
<1>2. waves' = waves \/ waves' = [waves EXCEPT ![c] = command[c].wave]
  BY DEF EnsureWave
<1>3. wave' = wave \/ \E w \in {c} \cup seen[c] : wave' = [wave EXCEPT ![c] = w]
  BY DEF EnsureWave
<1>4. unused[c] = {} /\ c \in Ids
  BY <1>0, <1>1 DEF Types, Ids
<1>5. \A d \in Processes : d # c => pc'[d] = pc[d] /\ wave'[d] = wave[d]
  BY <1>0, <1>1, <1>3 DEF Types
<1>6. pc'[c] \notin {"begin", "ensure", "names", "status"}
  BY <1>0, <1>1 DEF Types
<1>7. \A w \in Ids : w # c => waves'[w] = waves[w]
  BY <1>0, <1>2 DEF Types
<1>8. Fresh'
  <2> SUFFICES ASSUME NEW d \in Processes, pc'[d] \in {"begin", "ensure"}
               PROVE  ~ Exists(d)' /\ \A e \in Processes : wave'[e] # d /\ d \notin seen'[e]
    BY DEF Fresh
  <2>1. d # c /\ pc[d] \in {"begin", "ensure"}
    BY <1>5, <1>6
  <2>2. ~ Exists(d) /\ \A e \in Processes : wave[e] # d /\ d \notin seen[e]
    BY <1>0, <2>1 DEF Fresh
  <2>3. ~ Exists(d)'
    BY <1>7, <2>1, <2>2 DEF Exists
  <2>4. wave'[c] # d
    BY <1>0, <1>3, <2>1, <2>2 DEF Types
  <2> QED
    BY <1>1, <1>5, <2>2, <2>3, <2>4
<1>9. \A d \in Processes : pc'[d] \in {"names", "status"} => (Exists(wave[d])' => Exists(wave[d]))
  <2> SUFFICES ASSUME NEW d \in Processes, pc'[d] \in {"names", "status"}, Exists(wave[d])'
               PROVE  Exists(wave[d])
    OBVIOUS
  <2>1. d # c /\ wave'[d] = wave[d] /\ wave[d] # c
    BY <1>0, <1>1, <1>5, <1>6 DEF Fresh
  <2> QED
    BY <1>7, <2>1 DEF Exists
<1>10. Linked' /\ Given'
  BY <1>0, <1>1, <1>5, <1>6, <1>9 DEF Linked, Given
<1>11. Watched'
  BY <1>0, <1>1, <1>4, <1>5 DEF Watched
<1>12. NamesOutliveRemovals'
  BY <1>0, <1>1 DEF NamesOutliveRemovals
<1> QED
  BY <1>0, <1>8, <1>10, <1>11, <1>12 DEF Inv

(* The first and the second statement of a run.                            *)
LEMMA SeedInv ==
    ASSUME Inv, NEW c \in Processes, SeedNames(c) \/ SeedStatus(c)
    PROVE  Inv'
<1>0. Types /\ Fresh /\ Watched /\ Linked /\ Given /\ NamesOutliveRemovals /\ Types'
  BY LoudTypes DEF Inv, Loud
<1>1. /\ pages \subseteq pages' /\ raced \subseteq raced'
      /\ UNCHANGED <<waves, linkage, wave, seen, page, unused>>
      /\ \E l \in {"seed status", "analyses", "failed"} : pc' = [pc EXCEPT ![c] = l]
  BY DEF SeedNames, SeedStatus, Goto
<1>2. \A d \in Processes : pc'[d] \in {"begin", "ensure", "names", "status"} => pc'[d] = pc[d]
  BY <1>0, <1>1 DEF Types
<1>3. Fresh' /\ Linked' /\ Given'
  BY <1>0, <1>1, <1>2 DEF Fresh, Linked, Given, Exists
<1>4. ASSUME NEW w \in Ids, NEW p \in Pages, status'[w][p] # "absent"
      PROVE  status[w][p] # "absent"
                \/ ((p \notin pages \/ p \in InDanger => <<w, p>> \in raced') /\ pages' = pages)
  <2>1. CASE SeedNames(c)
    BY <1>4, <2>1 DEF SeedNames
  <2>2. CASE SeedStatus(c)
    <3> DEFINE seeds == Seeds[command[c].wave]
    <3>1. CASE status' = status
      BY <1>4, <3>1
    <3>2. CASE status' # status
      <4>1. /\ Open(wave[c], seeds) /\ pages' = pages
            /\ raced' = raced \cup Absent(wave[c], {q \in seeds : q \notin pages \/ q \in InDanger})
        BY <2>2, <3>2 DEF SeedStatus
      <4>2. status[w][p] # "absent" \/ (w = wave[c] /\ p \in seeds)
        BY <1>0, <1>4, <4>1, Opens
      <4> QED
        BY <4>1, <4>2 DEF Absent
    <3> QED
      BY <3>1, <3>2
  <2> QED
    BY <2>1, <2>2
<1>5. Watched'
  <2> SUFFICES ASSUME NEW d \in Processes, NEW p \in unused[d], NEW w \in Ids, w # wave[d],
                      status'[w][p] # "absent" \/ \E q \in Pages : <<w, q, p>> \in linkage
               PROVE  <<w, p>> \in raced'
    BY <1>1 DEF Watched
  <2>1. p \in Pages /\ p \in InDanger
    BY <1>0 DEF Types, InDanger
  <2>2. status[w][p] # "absent" \/ (\E q \in Pages : <<w, q, p>> \in linkage) \/ <<w, p>> \in raced'
    BY <1>4, <2>1
  <2> QED
    BY <1>0, <1>1, <2>2 DEF Watched
<1>6. NamesOutliveRemovals'
  BY <1>0, <1>1, <1>4 DEF NamesOutliveRemovals
<1> QED
  BY <1>0, <1>3, <1>5, <1>6 DEF Inv

(* The links of a page: who needs a page that a removal has found unused   *)
(* is in the race from here.                                               *)
LEMMA LinksInv ==
    ASSUME Inv, NEW c \in Processes, StoreLinks(c)
    PROVE  Inv'
<1>0. Types /\ Fresh /\ Watched /\ Linked /\ Given /\ NamesOutliveRemovals /\ Types'
  BY LoudTypes DEF Inv, Loud
<1>1. /\ pc[c] = "links" /\ raced \subseteq raced' /\ linkage \subseteq linkage'
      /\ \/ CanReference(c) /\ pc' = [pc EXCEPT ![c] = "names"] /\ page' = page
         \/ pc' = [pc EXCEPT ![c] = "fetch"] /\ page' = [page EXCEPT ![c] = NoPage]
      /\ UNCHANGED <<waves, pages, status, wave, seen, unused>>
  BY <1>0, LinksStores DEF StoreLinks
<1>2. \A d \in Processes : d # c => pc'[d] = pc[d] /\ page'[d] = page[d]
  BY <1>0, <1>1 DEF Types
<1>3. /\ pc'[c] \notin {"begin", "ensure", "status"}
      /\ pc'[c] = "names" => CanReference(c) /\ page'[c] = page[c]
  BY <1>0, <1>1 DEF Types
<1>4. Fresh'
  BY <1>0, <1>1, <1>2, <1>3 DEF Fresh, Exists
<1>5. Linked'
  <2> SUFFICES ASSUME NEW d \in Processes, pc'[d] \in {"names", "status"}, Exists(wave[d])',
                      NEW p \in Links[page'[d]]
               PROVE  <<wave[d], page[d], p>>' \in linkage'
    BY DEF Linked
  <2>1. CASE d # c
    BY <1>0, <1>1, <1>2, <2>1 DEF Linked, Exists
  <2>2. CASE d = c
    <3>1. linkage' = linkage \cup ({wave[c]} \X {page[c]} \X Links[page[c]])
      BY <1>3, <2>2 DEF StoreLinks
    <3> QED
      BY <1>1, <1>3, <2>2, <3>1
  <2> QED
    BY <2>1, <2>2
<1>6. Given'
  BY <1>0, <1>1, <1>2, <1>3 DEF Given, Exists
<1>7. Watched'
  <2> SUFFICES ASSUME NEW d \in Processes, NEW p \in unused[d], NEW w \in Ids, w # wave[d],
                      status[w][p] # "absent" \/ \E q \in Pages : <<w, q, p>> \in linkage'
               PROVE  <<w, p>> \in raced'
    BY <1>1 DEF Watched
  <2>1. p \in Pages /\ p \in InDanger
    BY <1>0 DEF Types, InDanger
  <2>2. CASE status[w][p] # "absent" \/ \E q \in Pages : <<w, q, p>> \in linkage
    BY <1>0, <1>1, <2>2 DEF Watched
  <2>3. ASSUME NEW q \in Pages, <<w, q, p>> \in linkage', <<w, q, p>> \notin linkage, status[w][p] = "absent"
        PROVE  <<w, p>> \in raced'
    <3>1. /\ linkage' = linkage \cup ({wave[c]} \X {page[c]} \X Links[page[c]])
          /\ raced' = raced \cup Absent(wave[c], Links[page[c]] \cap InDanger)
      BY <2>3 DEF StoreLinks
    <3>2. w = wave[c] /\ p \in Links[page[c]]
      BY <2>3, <3>1
    <3> QED
      BY <2>1, <2>3, <3>1, <3>2 DEF Absent
  <2> QED
    BY <2>2, <2>3
<1>8. NamesOutliveRemovals'
  BY <1>0, <1>1 DEF NamesOutliveRemovals
<1> QED
  BY <1>0, <1>4, <1>5, <1>6, <1>7, <1>8 DEF Inv

(* Their names.                                                            *)
LEMMA NamesInv ==
    ASSUME Inv, NEW c \in Processes, StoreNames(c)
    PROVE  Inv'
<1>0. Types /\ Fresh /\ Watched /\ Linked /\ Given /\ NamesOutliveRemovals /\ Types'
  BY LoudTypes DEF Inv, Loud
<1>1. /\ pc[c] = "names" /\ pc' = [pc EXCEPT ![c] = "status"]
      /\ pages' = pages \cup Links[page[c]]
      /\ UNCHANGED <<waves, status, linkage, wave, seen, page, unused, raced>>
  BY <1>0, NamesStores DEF StoreNames
<1>2. pc'[c] = "status" /\ \A d \in Processes : d # c => pc'[d] = pc[d]
  BY <1>0, <1>1 DEF Types
<1>3. Fresh' /\ Linked'
  BY <1>0, <1>1, <1>2 DEF Fresh, Linked, Exists
<1>4. Given'
  <2> SUFFICES ASSUME NEW d \in Processes, pc'[d] = "status", Exists(wave[d]), NEW p \in Links[page[d]]
               PROVE  p \in pages' \/ <<wave[d], p>> \in raced
    BY <1>1 DEF Given, Exists
  <2>1. CASE d = c
    BY <1>1, <2>1
  <2>2. CASE d # c
    BY <1>0, <1>1, <1>2, <2>2 DEF Given
  <2> QED
    BY <2>1, <2>2
<1>5. Watched'
  BY <1>0, <1>1 DEF Watched
<1>6. NamesOutliveRemovals'
  BY <1>0, <1>1 DEF NamesOutliveRemovals
<1> QED
  BY <1>0, <1>3, <1>4, <1>5, <1>6 DEF Inv

(* Their rows: linkage has kept the names.                                 *)
LEMMA StatusInv ==
    ASSUME Inv, NEW c \in Processes, StoreStatus(c)
    PROVE  Inv'
<1>0. Types /\ Fresh /\ Watched /\ Linked /\ Given /\ NamesOutliveRemovals /\ Types'
  BY LoudTypes DEF Inv, Loud
<1>1. /\ pc[c] = "status" /\ \E l \in {"close", "fetch"} : pc' = [pc EXCEPT ![c] = l]
      /\ page' = page \/ page' = [page EXCEPT ![c] = NoPage]
      /\ UNCHANGED <<waves, pages, linkage, wave, seen, unused, raced>>
  BY <1>0, StatusStores DEF StoreStatus
<1>2. /\ pc'[c] \notin {"begin", "ensure", "names", "status"}
      /\ \A d \in Processes : d # c => pc'[d] = pc[d] /\ page'[d] = page[d]
  BY <1>0, <1>1 DEF Types
<1>3. Fresh' /\ Linked' /\ Given'
  BY <1>0, <1>1, <1>2 DEF Fresh, Linked, Given, Exists
<1>4. ASSUME NEW w \in Ids, NEW p \in Pages, status'[w][p] # "absent"
      PROVE  status[w][p] # "absent" \/ (w = wave[c] /\ p \in Links[page[c]] /\ Exists(w))
  <2>1. CASE status' = status
    BY <1>4, <2>1
  <2>2. CASE status' # status
    <3>1. Open(wave[c], Links[page[c]]) /\ CanReference(c)
      BY <2>2 DEF StoreStatus
    <3>2. status[w][p] # "absent" \/ (w = wave[c] /\ p \in Links[page[c]])
      BY <1>0, <1>4, <3>1, Opens
    <3> QED
      BY <3>1, <3>2 DEF CanReference
  <2> QED
    BY <2>1, <2>2
<1>5. Watched'
  <2> SUFFICES ASSUME NEW d \in Processes, NEW p \in unused[d], NEW w \in Ids, w # wave[d],
                      status'[w][p] # "absent" \/ \E q \in Pages : <<w, q, p>> \in linkage
               PROVE  <<w, p>> \in raced
    BY <1>1 DEF Watched
  <2>1. p \in Pages /\ page[c] \in Pages
    BY <1>0, <1>1 DEF Types, Looping, Visiting
  <2>2. CASE status[w][p] # "absent" \/ \E q \in Pages : <<w, q, p>> \in linkage
    BY <1>0, <2>2 DEF Watched
  <2>3. CASE w = wave[c] /\ p \in Links[page[c]] /\ Exists(w)
    <3>1. <<w, page[c], p>> \in linkage
      BY <1>0, <1>1, <2>3 DEF Linked
    <3> QED
      BY <1>0, <2>1, <3>1 DEF Watched
  <2> QED
    BY <1>4, <2>1, <2>2, <2>3
<1>6. NamesOutliveRemovals'
  <2> SUFFICES ASSUME NEW w \in Ids, NEW p \in Pages, status'[w][p] # "absent", p \notin pages
               PROVE  <<w, p>> \in raced
    BY <1>1 DEF NamesOutliveRemovals
  <2>1. CASE status[w][p] # "absent"
    BY <1>0, <2>1 DEF NamesOutliveRemovals
  <2>2. CASE w = wave[c] /\ p \in Links[page[c]] /\ Exists(w)
    BY <1>0, <1>1, <2>2 DEF Given
  <2> QED
    BY <1>4, <2>1, <2>2
<1> QED
  BY <1>0, <1>3, <1>5, <1>6 DEF Inv

(* A removal looks for what no other wave needs.                           *)
LEMMA FindInv ==
    ASSUME Inv, NEW c \in Processes, FindUnused(c)
    PROVE  Inv'
<1>0. Types /\ Fresh /\ Watched /\ Linked /\ Given /\ NamesOutliveRemovals /\ Types'
  BY LoudTypes DEF Inv, Loud
<1>1. /\ pc[c] = "begin" /\ pc' = [pc EXCEPT ![c] = "collect"]
      /\ UNCHANGED <<waves, pages, status, linkage, seen, page, raced>>
  BY DEF FindUnused, Goto, tables
<1>2. PICK w \in Ids \cup {NoWave} :
        /\ wave' = [wave EXCEPT ![c] = w] /\ unused' = [unused EXCEPT ![c] = Unused(w)]
        /\ w # NoWave => Exists(w)
  <2>1. \A w \in Called(command[c].wave) : w \in Ids /\ Exists(w)
    BY <1>0, Commands, WavesAssumption DEF Called, Exists
  <2> QED
    BY <2>1 DEF FindUnused
<1>3. /\ pc'[c] = "collect" /\ wave'[c] = w /\ unused'[c] = Unused(w)
      /\ \A d \in Processes : d # c => pc'[d] = pc[d] /\ wave'[d] = wave[d] /\ unused'[d] = unused[d]
  BY <1>0, <1>1, <1>2 DEF Types
<1>4. Fresh'
  <2> SUFFICES ASSUME NEW d \in Processes, pc'[d] \in {"begin", "ensure"}
               PROVE  ~ Exists(d) /\ \A e \in Processes : wave'[e] # d /\ d \notin seen[e]
    BY <1>1 DEF Fresh, Exists
  <2>1. ~ Exists(d) /\ \A e \in Processes : wave[e] # d /\ d \notin seen[e]
    BY <1>0, <1>3 DEF Fresh
  <2>2. w # d
    BY <1>2, <2>1, WavesAssumption
  <2> QED
    BY <1>3, <2>1, <2>2
<1>5. Linked' /\ Given'
  BY <1>0, <1>1, <1>3 DEF Linked, Given, Exists
<1>6. Watched'
  <2> SUFFICES ASSUME NEW d \in Processes, NEW p \in unused'[d], NEW v \in Ids, v # wave'[d],
                      status[v][p] # "absent" \/ \E q \in Pages : <<v, q, p>> \in linkage
               PROVE  <<v, p>> \in raced
    BY <1>1 DEF Watched
  <2>1. CASE d # c
    BY <1>0, <1>3, <2>1 DEF Watched
  <2>2. CASE d = c
    <3>1. p \in Unused(w) /\ v \in Ids \ {w}
      BY <1>3, <2>2
    <3>2. status[v][p] = "absent"
      BY <3>1 DEF Unused
    <3>3. \A q \in Pages : <<v, q, p>> \notin linkage
      BY <3>1 DEF Unused
    <3> QED
      BY <3>2, <3>3
  <2> QED
    BY <2>1, <2>2
<1>7. NamesOutliveRemovals'
  BY <1>0, <1>1 DEF NamesOutliveRemovals
<1> QED
  BY <1>0, <1>4, <1>5, <1>6, <1>7 DEF Inv

(* And deletes it, with the wave.                                          *)
LEMMA CollectInv ==
    ASSUME Inv, NEW c \in Processes, Collect(c)
    PROVE  Inv'
<1>0. Types /\ Fresh /\ Watched /\ Linked /\ Given /\ NamesOutliveRemovals /\ Types'
  BY LoudTypes DEF Inv, Loud
<1>1. /\ pc[c] = "collect" /\ \E l \in {"removed", "not removed"} : pc' = [pc EXCEPT ![c] = l]
      /\ unused' = [d \in Processes |-> unused[d] \ unused[c]] /\ pages' = pages \ unused[c]
      /\ UNCHANGED <<wave, seen, page, raced>>
  BY DEF Collect, Goto
<1>2. /\ waves' = [v \in Ids |-> IF v = wave[c] THEN NoWave ELSE waves[v]]
      /\ status' = [v \in Ids |-> IF v = wave[c] THEN [p \in Pages |-> "absent"] ELSE status[v]]
      /\ linkage' = {row \in linkage : row[1] # wave[c]}
  BY DEF Collect, Cascade
<1>3. /\ pc'[c] \notin {"begin", "ensure", "names", "status"}
      /\ \A d \in Processes : d # c => pc'[d] = pc[d]
  BY <1>0, <1>1 DEF Types
<1>4. \A w \in Ids : waves'[w] # NoWave => w # wave[c] /\ waves[w] # NoWave
  BY <1>2
<1>5. \A w \in Ids, p \in Pages : status'[w][p] # "absent" => w # wave[c] /\ status[w][p] # "absent"
  BY <1>2
<1>6. Fresh'
  BY <1>0, <1>1, <1>3, <1>4 DEF Fresh, Exists
<1>7. Linked'
  <2> SUFFICES ASSUME NEW d \in Processes, pc'[d] \in {"names", "status"}, Exists(wave[d])',
                      NEW p \in Links[page[d]]
               PROVE  <<wave[d], page[d], p>> \in linkage'
    BY <1>1 DEF Linked
  <2>1. pc[d] = pc'[d] /\ Exists(wave[d]) /\ wave[d] # wave[c]
    BY <1>1, <1>3, <1>4 DEF Exists
  <2>2. <<wave[d], page[d], p>> \in linkage
    BY <1>0, <2>1 DEF Linked
  <2> QED
    BY <1>2, <2>1, <2>2
<1>8. Given'
  <2> SUFFICES ASSUME NEW d \in Processes, pc'[d] = "status", Exists(wave[d])', NEW p \in Links[page[d]]
               PROVE  p \in pages' \/ <<wave[d], p>> \in raced
    BY <1>1 DEF Given
  <2>1. pc[d] = "status" /\ Exists(wave[d]) /\ wave[d] # wave[c] /\ page[d] \in Pages
    BY <1>0, <1>1, <1>3, <1>4 DEF Exists, Types, Looping, Visiting
  <2>2. CASE p \in unused[c]
    <3>1. <<wave[d], page[d], p>> \in linkage
      BY <1>0, <2>1 DEF Linked
    <3> QED
      BY <1>0, <2>1, <2>2, <3>1 DEF Watched, Exists
  <2>3. CASE p \notin unused[c]
    BY <1>0, <1>1, <2>1, <2>3 DEF Given
  <2> QED
    BY <2>2, <2>3
<1>9. Watched'
  <2> SUFFICES ASSUME NEW d \in Processes, NEW p \in unused'[d], NEW w \in Ids, w # wave[d],
                      status'[w][p] # "absent" \/ \E q \in Pages : <<w, q, p>> \in linkage'
               PROVE  <<w, p>> \in raced
    BY <1>1 DEF Watched
  <2>1. p \in unused[d] /\ p \in Pages
    BY <1>0, <1>1 DEF Types
  <2>2. status[w][p] # "absent" \/ \E q \in Pages : <<w, q, p>> \in linkage
    BY <1>2, <1>5, <2>1
  <2> QED
    BY <1>0, <2>1, <2>2 DEF Watched
<1>10. NamesOutliveRemovals'
  <2> SUFFICES ASSUME NEW w \in Ids, NEW p \in Pages, status'[w][p] # "absent", p \notin pages'
               PROVE  <<w, p>> \in raced
    BY <1>1 DEF NamesOutliveRemovals
  <2>1. w # wave[c] /\ status[w][p] # "absent"
    BY <1>5
  <2>2. CASE p \in unused[c]
    BY <1>0, <2>1, <2>2 DEF Watched
  <2>3. CASE p \notin unused[c]
    BY <1>0, <1>1, <2>1, <2>3 DEF NamesOutliveRemovals
  <2> QED
    BY <2>2, <2>3
<1> QED
  BY <1>0, <1>6, <1>7, <1>8, <1>9, <1>10 DEF Inv

(* One step after another.                                                 *)
LEMMA NextInv == Inv /\ [Next]_vars => Inv'
<1> SUFFICES ASSUME Inv, [Next]_vars PROVE Inv'
  OBVIOUS
<1>1. CASE UNCHANGED vars
  BY <1>1 DEF vars, tables, Inv, Types, Fresh, Watched, Linked, Given, NamesOutliveRemovals, Exists
<1>2. ASSUME NEW c \in Processes, Step(c) \/ Crash(c) PROVE Inv'
  <2>1. Quiet(c) \/ Loud(c)
    BY <1>2 DEF Step, Crawling, Quiet, Loud
  <2> QED
    BY <2>1, QuietInv, EnsureInv, SeedInv, LinksInv, NamesInv, StatusInv, FindInv, CollectInv DEF Loud
<1> QED
  BY <1>1, <1>2 DEF Next

(* A removal collects no page that another wave has in its status table,   *)
(* but in the two races, whatever runs and removals there are at a time.   *)
THEOREM NamesSurvive == Spec => []NamesOutliveRemovals
<1>1. Inv => NamesOutliveRemovals
  BY DEF Inv
<1> QED
  BY <1>1, InitInv, NextInv, PTL DEF Spec

-----------------------------------------------------------------------------
(* The pages of the visits.                                                *)

Ranking == {"push", "done", "failed", "crashed"}

(* A run that has begun a visit has a page, and no other has.              *)
Paged == \A c \in Processes : page[c] # NoPage <=> pc[c] \in Visiting

(* How a step moves its process on, and what it does to its page.          *)
LEMMA Moves ==
    ASSUME Types, NEW c \in Processes, Step(c) \/ Crash(c)
    PROVE  \E l \in Labels :
              /\ pc' = [pc EXCEPT ![c] = l]
              /\ \/ page' = page /\ (l \in Visiting <=> pc[c] \in Visiting)
                 \/ page' = [page EXCEPT ![c] = NoPage] /\ l \notin Visiting
                 \/ \E p \in Pages : page' = [page EXCEPT ![c] = p] /\ l \in Visiting
<1> USE DEF Labels, Looping, Visiting, Ended
<1>1. CASE Fetch(c)
  <2>1. \E p \in pages : page' = [page EXCEPT ![c] = p]
    BY <1>1 DEF Fetch, Fetchable
  <2>2. pc' = [pc EXCEPT ![c] = "links"]
    BY <1>1 DEF Fetch, Goto
  <2>3. \E p \in Pages : page' = [page EXCEPT ![c] = p]
    BY <2>1 DEF Types
  <2>4. "links" \in Labels /\ "links" \in Visiting
    OBVIOUS
  <2> HIDE DEF Labels, Visiting
  <2> QED
    BY <2>2, <2>3, <2>4
<1>2. CASE StoreLinks(c)
  <2>1. /\ pc[c] = "links"
        /\ \/ pc' = [pc EXCEPT ![c] = "names"] /\ page' = page
           \/ pc' = [pc EXCEPT ![c] = "fetch"] /\ page' = [page EXCEPT ![c] = NoPage]
    BY <1>2, LinksStores
  <2>2. /\ "links" \in Visiting /\ "names" \in Visiting /\ "fetch" \notin Visiting
        /\ "names" \in Labels /\ "fetch" \in Labels
    OBVIOUS
  <2> HIDE DEF Labels, Visiting
  <2> QED
    BY <2>1, <2>2
<1>3. CASE StoreNames(c)
  BY <1>3, NamesStores
<1>4. CASE StoreStatus(c)
  <2>1. /\ pc[c] = "status"
        /\ \/ pc' = [pc EXCEPT ![c] = "close"] /\ page' = page
           \/ pc' = [pc EXCEPT ![c] = "fetch"] /\ page' = [page EXCEPT ![c] = NoPage]
    BY <1>4, StatusStores
  <2>2. /\ "status" \in Visiting /\ "close" \in Visiting /\ "fetch" \notin Visiting
        /\ "close" \in Labels /\ "fetch" \in Labels
    OBVIOUS
  <2> HIDE DEF Labels, Visiting
  <2> QED
    BY <2>1, <2>2
<1>5. CASE StoreClosed(c)
  <2>1. pc' = [pc EXCEPT ![c] = "fetch"] /\ page' = [page EXCEPT ![c] = NoPage]
    BY <1>5, ClosedStores
  <2>2. "fetch" \notin Visiting /\ "fetch" \in Labels
    OBVIOUS
  <2> HIDE DEF Labels, Visiting
  <2> QED
    BY <2>1, <2>2
<1>6. CASE Crash(c)
  BY <1>6 DEF Crash, Goto
<1>7. CASE SeeWave(c)
  BY <1>7 DEF SeeWave, Goto
<1>8. CASE EnsureWave(c)
  <2>1. /\ pc[c] = "ensure" /\ page' = page
        /\ \E l \in {"panicked", "seed names", "linkage"} : pc' = [pc EXCEPT ![c] = l]
    BY <1>8 DEF EnsureWave, Goto
  <2> QED
    BY <2>1
<1>9. CASE SeedNames(c)
  <2>1. pc[c] = "seed names" /\ page' = page /\ pc' = [pc EXCEPT ![c] = "seed status"]
    BY <1>9 DEF SeedNames, Goto
  <2>2. "seed status" \in Labels /\ "seed status" \notin Visiting /\ "seed names" \notin Visiting
    OBVIOUS
  <2> HIDE DEF Labels, Visiting
  <2> QED
    BY <2>1, <2>2
<1>10. CASE SeedStatus(c)
  <2>1. /\ pc[c] = "seed status" /\ page' = page
        /\ \E l \in {"analyses", "failed"} : pc' = [pc EXCEPT ![c] = l]
    BY <1>10 DEF SeedStatus, At, Goto
  <2> QED
    BY <2>1
<1>11. CASE CreateAnalyses(c)
  <2>1. /\ pc[c] = "analyses" /\ page' = page /\ \E l \in {"reset", "failed"} : pc' = [pc EXCEPT ![c] = l]
    BY <1>11 DEF CreateAnalyses, At, Goto
  <2> QED
    BY <2>1
<1>12. CASE ResetQueue(c)
  BY <1>12 DEF ResetQueue, At, Goto
<1>13. CASE FetchNothing(c) \/ Poll(c)
  <2>1. pc[c] \in {"fetch", "poll"} /\ page' = page /\ \E l \in {"poll", "fetch", "linkage", "done"} : pc' = [pc EXCEPT ![c] = l]
    BY <1>13 DEF FetchNothing, Poll, Goto
  <2> QED
    BY <2>1
<1>14. CASE ReadLinkage(c)
  BY <1>14 DEF ReadLinkage, At, Goto
<1>15. CASE PushPageRanks(c)
  <2>1. pc[c] = "push" /\ page' = page /\ \E l \in {"failed", "done", "push"} : pc' = [pc EXCEPT ![c] = l]
    BY <1>15 DEF PushPageRanks, At, Goto
  <2> QED
    BY <2>1
<1>16. CASE FindUnused(c)
  BY <1>16 DEF FindUnused, Goto
<1>17. CASE Collect(c)
  <2>1. pc[c] = "collect" /\ page' = page /\ \E l \in {"removed", "not removed"} : pc' = [pc EXCEPT ![c] = l]
    BY <1>17 DEF Collect, Goto
  <2> QED
    BY <2>1
<1> QED
  BY <1>1, <1>2, <1>3, <1>4, <1>5, <1>6, <1>7, <1>8, <1>9, <1>10, <1>11, <1>12, <1>13, <1>14, <1>15,
     <1>16, <1>17 DEF Step, Crawling

(* So it has a page when it is to have one.                                *)
LEMMA NextPaged ==
    ASSUME Types, Paged, NEW c \in Processes, Step(c) \/ Crash(c)
    PROVE  Paged'
<1>1. PICK l \in Labels :
        /\ pc' = [pc EXCEPT ![c] = l]
        /\ \/ page' = page /\ (l \in Visiting <=> pc[c] \in Visiting)
           \/ page' = [page EXCEPT ![c] = NoPage] /\ l \notin Visiting
           \/ \E p \in Pages : page' = [page EXCEPT ![c] = p] /\ l \in Visiting
  BY Moves
<1>2. pc \in [Processes -> Labels] /\ page \in [Processes -> Pages \cup {NoPage}] /\ NoPage \notin Pages
  BY WavesAssumption DEF Types
<1>3. ASSUME NEW d \in Processes PROVE page'[d] # NoPage <=> pc'[d] \in Visiting
  <2>1. page[d] # NoPage <=> pc[d] \in Visiting
    BY DEF Paged
  <2>2. CASE d = c
    BY <1>1, <1>2, <2>1, <2>2
  <2>3. CASE d # c
    BY <1>1, <1>2, <2>1, <2>3
  <2> QED
    BY <2>2, <2>3
<1> QED
  BY <1>3 DEF Paged

-----------------------------------------------------------------------------
(* The tables.                                                             *)

(* A name has one wave.                                                    *)
Named == \A v, w \in Ids : Exists(v) /\ waves[v] = waves[w] => v = w

RowTypes ==
    /\ linkage \subseteq Ids \X Pages \X Pages /\ IsFiniteSet(linkage)
    /\ ranks \subseteq Ids \X Pages \X Nat

(* Of a wave that does not exist there are no rows.                        *)
Gone ==
    \A w \in Ids : ~ Exists(w) =>
        /\ \A p \in Pages : status[w][p] = "absent"
        /\ \A row \in linkage \cup ranks : row[1] # w

(* What the steps that do not collect make of the tables.                  *)
LEMMA Adds ==
    ASSUME Inv, Gone, NEW c \in Processes, Quiet(c) \/ Loud(c), ~ Collect(c)
    PROVE  /\ \A w \in Ids : Exists(w) => waves'[w] = waves[w]
           /\ \A w \in Ids, p \in Pages : ~ Exists(w) => status'[w][p] = "absent"
           /\ \/ linkage' = linkage
              \/ /\ Exists(wave[c]) /\ page[c] \in Pages
                 /\ linkage' = linkage \cup ({wave[c]} \X {page[c]} \X Links[page[c]])
<1>0. Types /\ Fresh
  BY DEF Inv
<1>1. CASE Quiet(c)
  BY <1>0, <1>1, QuietKeeps DEF Gone, Exists
<1>2. CASE EnsureWave(c)
  <2>1. (waves' = waves \/ waves' = [waves EXCEPT ![c] = command[c].wave]) /\ UNCHANGED <<status, linkage>>
    BY <1>2 DEF EnsureWave
  <2>2. ~ Exists(c)
    BY <1>0, <1>2 DEF EnsureWave, Fresh
  <2> QED
    BY <1>0, <2>1, <2>2 DEF Gone, Exists, Types
<1>3. CASE SeedNames(c)
  BY <1>3 DEF SeedNames, Gone, Exists
<1>4. CASE SeedStatus(c)
  <2>1. UNCHANGED <<waves, linkage>>
    BY <1>4 DEF SeedStatus
  <2>2. ASSUME NEW w \in Ids, NEW p \in Pages, ~ Exists(w) PROVE status'[w][p] = "absent"
    <3> DEFINE seeds == Seeds[command[c].wave]
    <3>1. \/ status' = status
          \/ Open(wave[c], seeds) /\ (Exists(wave[c]) \/ seeds = {})
      BY <1>4 DEF SeedStatus
    <3>2. status[w][p] = "absent"
      BY <2>2 DEF Gone
    <3> HIDE DEF seeds
    <3>3. CASE status' = status
      BY <3>2, <3>3
    <3>4. CASE Open(wave[c], seeds) /\ (Exists(wave[c]) \/ seeds = {})
      <4>1. status'[w][p] # "absent" => status[w][p] # "absent" \/ (w = wave[c] /\ p \in seeds)
        BY <1>0, <3>4, Opens
      <4> QED
        BY <2>2, <3>2, <3>4, <4>1
    <3> QED
      BY <3>1, <3>3, <3>4
  <2> QED
    BY <2>1, <2>2
<1>5. CASE StoreLinks(c)
  <2>1. UNCHANGED <<waves, status>> /\ pc[c] = "links"
    BY <1>0, <1>5, LinksStores DEF StoreLinks
  <2>2. page[c] \in Pages
    BY <1>0, <2>1 DEF Types, Looping, Visiting
  <2>3. \/ linkage' = linkage
        \/ CanReference(c) /\ linkage' = linkage \cup ({wave[c]} \X {page[c]} \X Links[page[c]])
    BY <1>5 DEF StoreLinks
  <2>4. Links[page[c]] = {} => {wave[c]} \X {page[c]} \X Links[page[c]] = {}
    OBVIOUS
  <2> QED
    BY <2>1, <2>2, <2>3, <2>4 DEF Gone, CanReference
<1>6. CASE StoreNames(c)
  BY <1>0, <1>6, NamesStores DEF StoreNames, Gone
<1>7. CASE StoreStatus(c)
  <2>1. UNCHANGED <<waves, linkage>>
    BY <1>0, <1>7, StatusStores DEF StoreStatus
  <2>2. ASSUME NEW w \in Ids, NEW p \in Pages, ~ Exists(w) PROVE status'[w][p] = "absent"
    <3> DEFINE new == Links[page[c]]
    <3>1. status' = status \/ (Open(wave[c], new) /\ (Exists(wave[c]) \/ new = {}))
      BY <1>7 DEF StoreStatus, CanReference
    <3>2. status[w][p] = "absent"
      BY <2>2 DEF Gone
    <3> HIDE DEF new
    <3>3. CASE status' = status
      BY <3>2, <3>3
    <3>4. CASE Open(wave[c], new) /\ (Exists(wave[c]) \/ new = {})
      <4>1. status'[w][p] # "absent" => status[w][p] # "absent" \/ (w = wave[c] /\ p \in new)
        BY <1>0, <3>4, Opens
      <4> QED
        BY <2>2, <3>2, <3>4, <4>1
    <3> QED
      BY <3>1, <3>3, <3>4
  <2> QED
    BY <2>1, <2>2
<1>8. CASE FindUnused(c)
  BY <1>8 DEF FindUnused, tables, Gone
<1> QED
  BY <1>1, <1>2, <1>3, <1>4, <1>5, <1>6, <1>7, <1>8 DEF Loud

(* Only a process with ranks to push has a hand in those of the database.  *)
LEMMA RanksStay ==
    ASSUME Types, NEW c \in Processes, Step(c) \/ Crash(c), ~ PushPageRanks(c), ~ Collect(c)
    PROVE  UNCHANGED ranks
<1>1. CASE StoreLinks(c) \/ StoreNames(c) \/ StoreStatus(c) \/ StoreClosed(c)
  BY <1>1 DEF StoreLinks, StoreNames, StoreStatus, StoreClosed, Store
<1>2. CASE SeeWave(c) \/ EnsureWave(c) \/ SeedNames(c) \/ SeedStatus(c) \/ CreateAnalyses(c) \/ ResetQueue(c)
  BY <1>2 DEF SeeWave, EnsureWave, SeedNames, SeedStatus, CreateAnalyses, ResetQueue, tables
<1>3. CASE Fetch(c) \/ FetchNothing(c) \/ Poll(c) \/ ReadLinkage(c) \/ FindUnused(c) \/ Crash(c)
  BY <1>3 DEF Fetch, FetchNothing, Poll, ReadLinkage, FindUnused, Crash, tables
<1> QED
  BY <1>1, <1>2, <1>3 DEF Step, Crawling

Tabled == Paged /\ Named /\ RowTypes /\ Gone

(* At first there is nothing.                                              *)
LEMMA InitTabled == Init => Tabled
<1> SUFFICES ASSUME Init PROVE Tabled
  OBVIOUS
<1>1. Paged
  BY DEF Init, Paged, Visiting, Looping
<1>2. Named
  BY DEF Init, Named, Exists
<1>3. RowTypes
  BY FS_EmptySet DEF Init, RowTypes
<1>4. Gone
  BY DEF Init, Gone
<1> QED
  BY <1>1, <1>2, <1>3, <1>4 DEF Tabled

(* A process of Step is quiet or loud.                                     *)
LEMMA QuietOrLoud ==
    ASSUME NEW c \in Processes, Step(c) \/ Crash(c)
    PROVE  Quiet(c) \/ Loud(c)
  BY DEF Step, Crawling, Quiet, Loud

(* Only two statements have a hand in waves.                               *)
LEMMA Keeps ==
    ASSUME Types, NEW c \in Processes, Step(c) \/ Crash(c), ~ EnsureWave(c), ~ Collect(c)
    PROVE  UNCHANGED waves
<1>1. CASE Quiet(c)
  BY <1>1, QuietKeeps
<1>2. CASE StoreLinks(c) \/ StoreNames(c) \/ StoreStatus(c)
  BY <1>2, LinksStores, NamesStores, StatusStores
<1>3. CASE SeedNames(c) \/ SeedStatus(c) \/ FindUnused(c)
  BY <1>3 DEF SeedNames, SeedStatus, FindUnused, tables
<1> QED
  BY <1>1, <1>2, <1>3, QuietOrLoud DEF Loud

(* A name gets a wave when it has none.                                    *)
LEMMA NextNamed ==
    ASSUME Inv, Tabled, NEW c \in Processes, Step(c) \/ Crash(c)
    PROVE  Named'
<1>0. Types /\ Fresh /\ Named
  BY DEF Inv, Tabled
<1>1. CASE EnsureWave(c)
  <2> DEFINE name == command[c].wave
  <2>1. \/ waves' = waves
        \/ (\A w \in Ids : waves[w] # name) /\ waves' = [waves EXCEPT ![c] = name]
    BY <1>1 DEF EnsureWave, Called
  <2> HIDE DEF name
  <2>2. \A v \in Ids : v # c => waves'[v] = waves[v]
    BY <1>0, <2>1 DEF Types
  <2>3. c \in Ids
    BY DEF Ids
  <2>4. waves' # waves => waves'[c] = name
    BY <1>0, <2>1, <2>3 DEF Types
  <2> QED
    BY <1>0, <2>1, <2>2, <2>4 DEF Named, Exists
<1>2. CASE Collect(c)
  <2>1. waves' = [v \in Ids |-> IF v = wave[c] THEN NoWave ELSE waves[v]]
    BY <1>2 DEF Collect, Cascade
  <2> QED
    BY <1>0, <2>1 DEF Named, Exists
<1>3. CASE ~ EnsureWave(c) /\ ~ Collect(c)
  <2>1. UNCHANGED waves
    BY <1>0, <1>3, Keeps
  <2> QED
    BY <1>0, <2>1 DEF Named, Exists
<1> QED
  BY <1>1, <1>2, <1>3

(* The rows of a step that does not collect are of waves that exist.       *)
LEMMA AddsTabled ==
    ASSUME Inv, Tabled, NEW c \in Processes, Step(c) \/ Crash(c), ~ Collect(c), UNCHANGED ranks
    PROVE  RowTypes' /\ Gone'
<1>0. Types /\ RowTypes /\ Gone
  BY DEF Inv, Tabled
<1>1. /\ \A w \in Ids : Exists(w) => waves'[w] = waves[w]
      /\ \A w \in Ids, p \in Pages : ~ Exists(w) => status'[w][p] = "absent"
      /\ \/ linkage' = linkage
         \/ /\ Exists(wave[c]) /\ page[c] \in Pages
            /\ linkage' = linkage \cup ({wave[c]} \X {page[c]} \X Links[page[c]])
  BY <1>0, Adds, QuietOrLoud
<1>2. linkage' \subseteq Ids \X Pages \X Pages /\ IsFiniteSet(linkage')
  <2>1. CASE linkage' = linkage
    BY <1>0, <2>1 DEF RowTypes
  <2>2. CASE linkage' # linkage
    <3> DEFINE links == Links[page[c]]
               row == [p \in links |-> <<wave[c], page[c], p>>]
               new == {wave[c]} \X {page[c]} \X links
    <3>1. wave[c] \in Ids /\ page[c] \in Pages /\ links \in SUBSET Pages /\ IsFiniteSet(links)
      BY <1>1, <2>2, WavesAssumption DEF Exists
    <3>2. IsFiniteSet(new)
      <4>1. row \in [links -> new] /\ \A r \in new : \E p \in links : row[p] = r
        OBVIOUS
      <4>2. row \in Surjection(links, new)
        BY <4>1 DEF Surjection
      <4> HIDE DEF links, row, new
      <4> QED
        BY <3>1, <4>2, FS_Surjection
    <3>3. linkage' = linkage \cup new
      BY <1>1, <2>2
    <3>4. new \subseteq Ids \X Pages \X Pages
      BY <3>1
    <3> HIDE DEF new
    <3>5. IsFiniteSet(linkage \cup new)
      BY <1>0, <3>2, FS_Union DEF RowTypes
    <3> QED
      BY <1>0, <3>3, <3>4, <3>5 DEF RowTypes
  <2> QED
    BY <2>1, <2>2
<1>3. RowTypes'
  BY <1>0, <1>2 DEF RowTypes
<1>4. Gone'
  <2> SUFFICES ASSUME NEW w \in Ids, ~ Exists(w)'
               PROVE  /\ \A p \in Pages : status'[w][p] = "absent"
                      /\ \A row \in linkage' \cup ranks' : row[1] # w
    BY DEF Gone
  <2>1. ~ Exists(w)
    BY <1>1 DEF Exists
  <2>2. \A row \in linkage \cup ranks : row[1] # w
    BY <1>0, <2>1 DEF Gone
  <2>3. ASSUME NEW row \in linkage' PROVE row[1] # w
    <3>1. CASE row \in linkage
      BY <2>2, <3>1
    <3>2. CASE row \notin linkage
      <4>1. row \in {wave[c]} \X {page[c]} \X Links[page[c]] /\ Exists(wave[c])
        BY <1>1, <3>2
      <4>2. row[1] = wave[c]
        BY <4>1
      <4> QED
        BY <2>1, <4>1, <4>2
    <3> QED
      BY <3>1, <3>2
  <2> QED
    BY <1>1, <2>1, <2>2, <2>3
<1> QED
  BY <1>3, <1>4

(* A wave that is collected goes with all its rows.                        *)
LEMMA CollectTabled ==
    ASSUME Inv, Tabled, NEW c \in Processes, Collect(c)
    PROVE  RowTypes' /\ Gone'
<1>0. Types /\ RowTypes /\ Gone
  BY DEF Inv, Tabled
<1>1. /\ waves' = [v \in Ids |-> IF v = wave[c] THEN NoWave ELSE waves[v]]
      /\ status' = [v \in Ids |-> IF v = wave[c] THEN [p \in Pages |-> "absent"] ELSE status[v]]
      /\ linkage' = {row \in linkage : row[1] # wave[c]}
      /\ ranks' = {row \in ranks : row[1] # wave[c]}
  BY DEF Collect, Cascade
<1>2. IsFiniteSet(linkage')
  BY <1>0, <1>1, FS_Subset DEF RowTypes
<1>3. RowTypes'
  BY <1>0, <1>1, <1>2 DEF RowTypes
<1>4. Gone'
  BY <1>0, <1>1 DEF Gone, Exists
<1> QED
  BY <1>3, <1>4

-----------------------------------------------------------------------------
(* What a process has ranked and pushed.                                   *)

(* What has been pushed of a list are batches with one more rank each.     *)
Advance(c) ==
    /\ pushed[c] \in 0 .. Len(ranked[c])
    /\ \E m \in Nat : pushed[c] = m * (BatchSize + 1)

(* The list is of the graph that has been read.                            *)
Ranked ==
    /\ graph \in [Processes -> SUBSET (Pages \X Pages)]
    /\ ranked \in [Processes -> Seq(Pages \X Nat)] /\ pushed \in [Processes -> Nat]
    /\ \A c \in Processes :
        /\ Lists(ranked[c], Pages, graph[c])
        /\ pc[c] \notin Ranking => ranked[c] = << >>
        /\ Advance(c)

HasRow(w, p) == \E row \in ranks : row[1] = w /\ row[2] = p

(* One row for a page of a wave, and each of a rank that was not dropped.  *)
Whose ==
    /\ \A r, s \in ranks : r[1] = s[1] /\ r[2] = s[2] => r = s
    /\ \A r \in ranks : \E d \in Processes : \E j \in 1 .. Len(ranked[d]) :
            wave[d] = r[1] /\ <<r[2], r[3]>> = ranked[d][j] /\ IsKept(j)

(* What has been pushed has rows, as long as there is a wave.              *)
Rows ==
    \A c \in Processes : Exists(wave[c]) =>
        \A i \in 1 .. Len(ranked[c]) :
            IsKept(i) /\ (pc[c] = "done" \/ (pc[c] = "push" /\ i <= pushed[c])) =>
                HasRow(wave[c], ranked[c][i][1])

(* All that the theorems below need.                                       *)
RankInv == Inv /\ Tabled /\ Ranked /\ Whose /\ Rows

-----------------------------------------------------------------------------
(* How a batch is pushed.                                                  *)

(* What a multiple leaves.                                                 *)
LEMMA Remainders ==
    ASSUME NEW d \in Nat \ {0}, NEW m \in Nat, NEW r \in 0 .. d - 1
    PROVE  (m * d + r) % d = r
<1>1. m * d \in Nat
  OBVIOUS
<1> QED
  BY <1>1

Rest(s, k) == SubSeq(s, k + 1, Len(s))

BatchOf(left, size) == Range(IF Len(left) <= size THEN left ELSE SubSeq(left, 1, size))

Reach(s, k, size) == IF Len(s) - k <= size THEN Len(s) ELSE k + size

Between(s, first, last) == {s[i] : i \in first .. last}

(* A piece of a list.                                                      *)
LEMMA Pieced ==
    ASSUME NEW S, NEW s, NEW k \in Nat, NEW n \in Nat, k <= n, \A i \in k + 1 .. n : s[i] \in S
    PROVE  /\ SubSeq(s, k + 1, n) \in Seq(S)
           /\ Len(SubSeq(s, k + 1, n)) = n - k
           /\ \A i \in 1 .. n - k : SubSeq(s, k + 1, n)[i] = s[k + i]
<1> DEFINE m == k + 1
<1>1. m \in Int /\ n \in Int /\ \A i \in m .. n : s[i] \in S
  OBVIOUS
<1>2. m = k + 1 /\ k + 1 = m
  OBVIOUS
<1> HIDE DEF m
<1>3. /\ SubSeq(s, m, n) \in Seq(S)
      /\ Len(SubSeq(s, m, n)) = IF m <= n THEN n - m + 1 ELSE 0
      /\ \A i \in 1 .. n - m + 1 : SubSeq(s, m, n)[i] = s[m + i - 1]
  BY <1>1, SubSeqProperties
<1>4. n - m + 1 = n - k /\ (m <= n <=> k # n) /\ \A i \in Nat : m + i - 1 = k + i
  BY <1>2
<1> DEFINE sub == SubSeq(s, m, n)
<1>5. sub = SubSeq(s, k + 1, n)
  BY <1>2
<1> HIDE DEF sub
<1>6. Len(sub) = n - k
  BY <1>3, <1>4 DEF sub
<1>7. \A i \in 1 .. n - k : sub[i] = s[k + i]
  BY <1>3, <1>4 DEF sub
<1>8. sub \in Seq(S)
  BY <1>3 DEF sub
<1> QED
  BY <1>5, <1>6, <1>7, <1>8

(* The ranks of a batch are the next BatchSize ones, if there are as many. *)
LEMMA Batches ==
    ASSUME NEW S, NEW s \in Seq(S), NEW k \in Nat, k <= Len(s), NEW size \in Nat \ {0}
    PROVE  /\ Len(Rest(s, k)) = Len(s) - k
           /\ BatchOf(Rest(s, k), size) = Between(s, k + 1, Reach(s, k, size))
<1> DEFINE n == Len(s)
           left == Rest(s, k)
           batch == IF Len(left) <= size THEN left ELSE SubSeq(left, 1, size)
           m == Reach(s, k, size) - k
<1>0. n \in Nat /\ k <= n /\ \A i \in k + 1 .. n : s[i] \in S
  OBVIOUS
<1>1. left \in Seq(S) /\ Len(left) = n - k /\ \A i \in 1 .. n - k : left[i] = s[k + i]
  <2> HIDE DEF n
  <2> QED
    BY <1>0, Pieced DEF Rest, n
<1> HIDE DEF n, left
<1>2. m \in Nat /\ Reach(s, k, size) = k + m
  BY <1>0 DEF n, Reach
<1>3. DOMAIN batch = 1 .. m /\ \A i \in 1 .. m : batch[i] = s[k + i]
  <2>1. CASE n - k <= size
    <3>1. batch = left /\ m = n - k
      BY <1>0, <1>1, <2>1 DEF n, Reach
    <3> QED
      BY <1>0, <1>1, <3>1
  <2>2. CASE ~ (n - k <= size)
    <3>1. batch = SubSeq(left, 0 + 1, size) /\ m = size /\ size <= Len(left)
      BY <1>0, <1>1, <2>2 DEF n, Reach
    <3>2. \A i \in 0 + 1 .. size : left[i] \in S
      BY <1>1, <3>1
    <3>3. /\ SubSeq(left, 0 + 1, size) \in Seq(S)
          /\ Len(SubSeq(left, 0 + 1, size)) = size - 0
          /\ \A i \in 1 .. size - 0 : SubSeq(left, 0 + 1, size)[i] = left[0 + i]
      <4> DEFINE z == 0
      <4>1. z \in Nat /\ size \in Nat /\ z <= size
        OBVIOUS
      <4>2. \A i \in z + 1 .. size : left[i] \in S
        BY <3>2
      <4> HIDE DEF z
      <4>3. /\ SubSeq(left, z + 1, size) \in Seq(S)
            /\ Len(SubSeq(left, z + 1, size)) = size - z
            /\ \A i \in 1 .. size - z : SubSeq(left, z + 1, size)[i] = left[z + i]
        BY <4>1, <4>2, Pieced
      <4> QED
        BY <4>3 DEF z
    <3> HIDE DEF batch
    <3>4. Len(batch) = size /\ batch \in Seq(S) /\ \A i \in 1 .. size : batch[i] = left[i]
      BY <3>1, <3>3
    <3>5. DOMAIN batch = 1 .. size
      BY <3>4
    <3> QED
      BY <1>1, <3>1, <3>4, <3>5
  <2> QED
    BY <2>1, <2>2
<1> HIDE DEF batch, m
<1>4. Range(batch) = Between(s, k + 1, k + m)
  <2>1. ASSUME NEW x \in Range(batch) PROVE \E i \in k + 1 .. k + m : x = s[i]
    <3>1. PICK i \in 1 .. m : x = s[k + i]
      BY <1>3 DEF Range
    <3> QED
      BY <1>2, <3>1
  <2>2. ASSUME NEW i \in k + 1 .. k + m PROVE s[i] \in Range(batch)
    <3>1. i - k \in 1 .. m /\ k + (i - k) = i
      BY <1>2
    <3> QED
      BY <1>3, <3>1 DEF Range
  <2> QED
    BY <2>1, <2>2 DEF Between
<1>5. Len(left) = Len(s) - k
  BY <1>1 DEF n
<1> QED
  BY <1>2, <1>4, <1>5 DEF batch, left, BatchOf

(* The rows that c adds when it pushes its ranks up to hi.                 *)
Added(c, hi) ==
    {<<wave[c], ranked[c][i][1], ranked[c][i][2]>> :
        i \in {k \in pushed[c] + 1 .. hi : ~ HasRow(wave[c], ranked[c][k][1])}}

(* What a push does, and how far it comes.                                 *)
Pushing(c, hi) ==
    /\ pc[c] = "push"
    /\ UNCHANGED <<waves, status, linkage, wave, page, graph, ranked>>
    /\ hi <= pushed[c] + BatchSize
    /\ ranks' = IF Exists(wave[c]) THEN ranks \cup Added(c, hi) ELSE ranks
    /\ \/ ~ Exists(wave[c]) /\ pushed' = pushed /\ pc' = [pc EXCEPT ![c] = "failed"]
       \/ hi = Len(ranked[c]) /\ pushed' = pushed /\ pc' = [pc EXCEPT ![c] = "done"]
       \/ /\ hi = pushed[c] + BatchSize /\ hi < Len(ranked[c])
          /\ pushed' = [pushed EXCEPT ![c] = hi + 1] /\ pc' = [pc EXCEPT ![c] = "push"]

(* It pushes the rest of the ranks, or a whole batch.                      *)
LEMMA Pushes ==
    ASSUME Inv, Ranked, NEW c \in Processes, PushPageRanks(c)
    PROVE  \E hi \in 0 .. Len(ranked[c]) : Pushing(c, hi)
<1> DEFINE s == ranked[c]
           k == pushed[c]
           n == Len(s)
           left == SubSeq(s, k + 1, n)
           hi == IF n - k <= BatchSize THEN n ELSE k + BatchSize
           isLast == Len(left) <= BatchSize
           batch == Range(IF isLast THEN left ELSE SubSeq(left, 1, BatchSize))
           new == {r \in batch : ~ \E row \in ranks : row[1] = wave[c] /\ row[2] = r[1]}
           can == Exists(wave[c]) \/ batch = {}
<1>0. BatchSize \in Nat \ {0} /\ s \in Seq(Pages \X Nat) /\ k \in Nat /\ k <= n /\ n \in Nat
  <2>1. ranked[c] \in Seq(Pages \X Nat) /\ pushed[c] \in 0 .. Len(ranked[c])
    BY DEF Ranked, Lists, Advance
  <2> QED
    BY <2>1, WavesAssumption
<1>1. /\ pc[c] = "push"
      /\ UNCHANGED <<waves, status, linkage, wave, page, graph, ranked>>
      /\ ranks' = IF can THEN ranks \cup {<<wave[c], r[1], r[2]>> : r \in new} ELSE ranks
      /\ pushed' = [pushed EXCEPT ![c] = IF isLast \/ ~ can THEN @ ELSE @ + BatchSize + 1]
      /\ pc' = [pc EXCEPT ![c] = IF ~ can THEN "failed" ELSE IF isLast THEN "done" ELSE "push"]
  BY DEF PushPageRanks, At, Goto
<1>2. Len(left) = n - k /\ batch = {s[i] : i \in k + 1 .. hi}
  <2> DEFINE S == Pages \X Nat
  <2>1. s \in Seq(S) /\ k <= Len(s)
    BY <1>0
  <2> HIDE DEF S, s, k
  <2>2. /\ Len(Rest(s, k)) = Len(s) - k
        /\ BatchOf(Rest(s, k), BatchSize) = Between(s, k + 1, Reach(s, k, BatchSize))
    BY <1>0, <2>1, Batches
  <2> QED
    BY <2>2 DEF BatchOf, Between, Rest, Reach
<1>3. hi \in 0 .. n /\ hi <= k + BatchSize /\ (isLast => hi = n) /\ (~ isLast => hi = k + BatchSize /\ hi < n)
  <2>1. isLast <=> n - k <= BatchSize
    BY <1>2
  <2> HIDE DEF s, k, n, isLast
  <2> QED
    BY <1>0, <2>1
<1>4. {<<wave[c], r[1], r[2]>> : r \in new} = Added(c, hi)
  <2> HIDE DEF hi, batch
  <2>1. ASSUME NEW r \in new PROVE <<wave[c], r[1], r[2]>> \in Added(c, hi)
    <3>1. PICK i \in k + 1 .. hi : r = s[i]
      BY <1>2
    <3> QED
      BY <2>1, <3>1 DEF Added, HasRow
  <2>2. ASSUME NEW i \in k + 1 .. hi, ~ HasRow(wave[c], s[i][1])
        PROVE  s[i] \in new
    BY <1>2, <2>2 DEF HasRow
  <2>3. ASSUME NEW row \in Added(c, hi) PROVE \E r \in new : row = <<wave[c], r[1], r[2]>>
    <3>1. PICK i \in k + 1 .. hi : ~ HasRow(wave[c], s[i][1]) /\ row = <<wave[c], s[i][1], s[i][2]>>
      BY DEF Added
    <3>2. s[i] \in new
      BY <2>2, <3>1
    <3> QED
      BY <3>1, <3>2
  <2> HIDE DEF new
  <2> QED
    BY <2>1, <2>3
<1>5. batch = {} => new = {}
  OBVIOUS
<1>6. ranks' = IF Exists(wave[c]) THEN ranks \cup Added(c, hi) ELSE ranks
  <2>1. new = {} => {<<wave[c], r[1], r[2]>> : r \in new} = {}
    OBVIOUS
  <2> HIDE DEF new, batch, hi
  <2>2. CASE Exists(wave[c])
    BY <1>1, <1>4, <2>2
  <2>3. CASE ~ Exists(wave[c])
    BY <1>1, <1>5, <2>1, <2>3
  <2> QED
    BY <2>2, <2>3
<1>7. pushed \in [Processes -> Nat]
  BY DEF Ranked
<1>8. Pushing(c, hi)
  <2> HIDE DEF hi, isLast, batch
  <2>1. CASE ~ can
    <3>1. pushed' = pushed /\ pc' = [pc EXCEPT ![c] = "failed"] /\ ~ Exists(wave[c])
      BY <1>1, <1>7, <2>1
    <3> QED
      BY <1>1, <1>3, <1>6, <3>1 DEF Pushing
  <2>2. CASE can /\ isLast
    <3>1. pushed' = pushed /\ pc' = [pc EXCEPT ![c] = "done"] /\ hi = Len(ranked[c])
      BY <1>1, <1>3, <1>7, <2>2
    <3> QED
      BY <1>1, <1>3, <1>6, <3>1 DEF Pushing
  <2>3. CASE can /\ ~ isLast
    <3>1. /\ pushed' = [pushed EXCEPT ![c] = hi + 1] /\ pc' = [pc EXCEPT ![c] = "push"]
          /\ hi = pushed[c] + BatchSize /\ hi < Len(ranked[c])
      BY <1>1, <1>3, <1>7, <2>3
    <3> QED
      BY <1>1, <1>3, <1>6, <3>1 DEF Pushing
  <2> QED
    BY <2>1, <2>2, <2>3
<1> QED
  BY <1>3, <1>8

(* A push adds rows of a wave that exists.                                 *)
LEMMA PushTabled ==
    ASSUME Inv, Tabled, Ranked, NEW c \in Processes, PushPageRanks(c)
    PROVE  RowTypes' /\ Gone'
<1>0. Types /\ RowTypes /\ Gone
  BY DEF Inv, Tabled
<1>1. PICK hi \in 0 .. Len(ranked[c]) : Pushing(c, hi)
  BY Pushes
<1>2. /\ UNCHANGED <<waves, status, linkage>>
      /\ ranks' = IF Exists(wave[c]) THEN ranks \cup Added(c, hi) ELSE ranks
  BY <1>1 DEF Pushing
<1>3. CASE ~ Exists(wave[c])
  BY <1>0, <1>2, <1>3 DEF RowTypes, Gone, Exists
<1>4. CASE Exists(wave[c])
  <2>1. wave[c] \in Ids
    BY <1>4 DEF Exists
  <2>2. ASSUME NEW row \in Added(c, hi) PROVE row \in Ids \X Pages \X Nat /\ row[1] = wave[c]
    <3>1. PICK i \in pushed[c] + 1 .. hi : row = <<wave[c], ranked[c][i][1], ranked[c][i][2]>>
      BY DEF Added
    <3>2. ranked[c] \in Seq(Pages \X Nat) /\ pushed[c] \in Nat
      BY DEF Ranked
    <3>3. ranked[c][i] \in Pages \X Nat
      BY <3>2
    <3> QED
      BY <2>1, <3>1, <3>3
  <2>3. RowTypes'
    BY <1>0, <1>2, <1>4, <2>2 DEF RowTypes
  <2>4. Gone'
    BY <1>0, <1>2, <1>4, <2>2 DEF Gone, Exists
  <2> QED
    BY <2>3, <2>4
<1> QED
  BY <1>3, <1>4

(* The tables, after any step.                                             *)
LEMMA NextTabled ==
    ASSUME Inv, Tabled, Ranked, NEW c \in Processes, Step(c) \/ Crash(c)
    PROVE  Tabled'
<1>0. Types /\ Paged
  BY DEF Inv, Tabled
<1>1. Paged' /\ Named'
  BY <1>0, NextPaged, NextNamed
<1>2. RowTypes' /\ Gone'
  <2>1. CASE Collect(c)
    BY <2>1, CollectTabled
  <2>2. CASE PushPageRanks(c)
    BY <2>2, PushTabled
  <2>3. CASE ~ Collect(c) /\ ~ PushPageRanks(c)
    BY <1>0, <2>3, RanksStay, AddsTabled
  <2> QED
    BY <2>1, <2>2, <2>3
<1> QED
  BY <1>1, <1>2 DEF Tabled

-----------------------------------------------------------------------------
(* The steps that do not rank leave all ranks alone; a run that is done    *)
(* after one of them has made none.                                        *)
LEMMA Stays ==
    ASSUME Inv, NEW c \in Processes, Step(c) \/ Crash(c), ~ ReadLinkage(c), ~ PushPageRanks(c)
    PROVE  /\ UNCHANGED <<graph, ranked, pushed>>
           /\ \E l \in Labels \ {"push"} :
                /\ pc' = [pc EXCEPT ![c] = l]
                /\ l = "done" => pc[c] \notin Ranking
                /\ pc[c] \in Ranking => l \in Ranking
           /\ \A d \in Processes : wave'[d] # wave[d] => pc[d] \notin Ranking
<1>0. Types
  BY DEF Inv
<1> USE DEF Labels, Looping, Visiting, Ended, Ranking
<1>1. CASE StoreLinks(c)
  BY <1>0, <1>1, LinksStores DEF StoreLinks, Store
<1>2. CASE StoreNames(c)
  BY <1>0, <1>2, NamesStores DEF StoreNames, Store
<1>3. CASE StoreStatus(c)
  BY <1>0, <1>3, StatusStores DEF StoreStatus, Store
<1>4. CASE StoreClosed(c)
  BY <1>0, <1>4, ClosedStores DEF StoreClosed, Store
<1>5. CASE Fetch(c)
  BY <1>5 DEF Fetch, At, Goto
<1>6. CASE Crash(c)
  BY <1>6 DEF Crash, Goto
<1>7. CASE SeeWave(c)
  BY <1>7 DEF SeeWave, Goto
<1>8. CASE EnsureWave(c)
  <2>1. /\ pc[c] = "ensure" /\ UNCHANGED <<graph, ranked, pushed>>
        /\ \E l \in {"panicked", "seed names", "linkage"} : pc' = [pc EXCEPT ![c] = l]
        /\ wave' = wave \/ \E w : wave' = [wave EXCEPT ![c] = w]
    BY <1>8 DEF EnsureWave, Goto
  <2> QED
    BY <1>0, <2>1 DEF Types
<1>9. CASE SeedNames(c)
  BY <1>9 DEF SeedNames, Goto
<1>10. CASE SeedStatus(c)
  <2>1. /\ pc[c] = "seed status" /\ UNCHANGED <<graph, ranked, pushed, wave>>
        /\ \E l \in {"analyses", "failed"} : pc' = [pc EXCEPT ![c] = l]
    BY <1>10 DEF SeedStatus, At, Goto
  <2> QED
    BY <2>1
<1>11. CASE CreateAnalyses(c)
  <2>1. /\ pc[c] = "analyses" /\ UNCHANGED <<graph, ranked, pushed, wave>>
        /\ \E l \in {"reset", "failed"} : pc' = [pc EXCEPT ![c] = l]
    BY <1>11 DEF CreateAnalyses, At, Goto
  <2> QED
    BY <2>1
<1>12. CASE ResetQueue(c)
  BY <1>12 DEF ResetQueue, At, Goto
<1>13. CASE FetchNothing(c) \/ Poll(c)
  <2>1. /\ pc[c] \in {"fetch", "poll"} /\ UNCHANGED <<graph, ranked, pushed, wave>>
        /\ \E l \in {"poll", "fetch", "linkage", "done"} : pc' = [pc EXCEPT ![c] = l]
    BY <1>13 DEF FetchNothing, Poll, Goto
  <2> QED
    BY <2>1
<1>16. CASE FindUnused(c)
  <2>1. /\ pc[c] = "begin" /\ UNCHANGED <<graph, ranked, pushed>>
        /\ pc' = [pc EXCEPT ![c] = "collect"]
        /\ \E w : wave' = [wave EXCEPT ![c] = w]
    BY <1>16 DEF FindUnused, Goto
  <2> QED
    BY <1>0, <2>1 DEF Types
<1>17. CASE Collect(c)
  <2>1. /\ pc[c] = "collect" /\ UNCHANGED <<graph, ranked, pushed, wave>>
        /\ \E l \in {"removed", "not removed"} : pc' = [pc EXCEPT ![c] = l]
    BY <1>17 DEF Collect, Goto
  <2> QED
    BY <2>1
<1> QED
  BY <1>1, <1>2, <1>3, <1>4, <1>5, <1>6, <1>7, <1>8, <1>9, <1>10, <1>11, <1>12, <1>13, <1>16, <1>17
  DEF Step, Crawling

(* What is read of a wave, and the ranks that are made of it.              *)
LEMMA Reads ==
    ASSUME Inv, Tabled, NEW c \in Processes, ReadLinkage(c)
    PROVE  /\ pc[c] = "linkage" /\ pc' = [pc EXCEPT ![c] = "push"]
           /\ UNCHANGED <<waves, ranks, wave, pushed>>
           /\ \E E \in SUBSET (Pages \X Pages) :
                /\ graph' = [graph EXCEPT ![c] = E]
                /\ \E list : ranked' = [ranked EXCEPT ![c] = list] /\ Lists(list, Pages, E)
<1> DEFINE E == Edges(wave[c])
           rows == {r \in linkage : r[1] = wave[c] /\ r[3] \in Ahref[r[2]]
                                    /\ status[wave[c]][r[2]] = "closed" /\ status[wave[c]][r[3]] = "closed"}
           edge == [row \in rows |-> <<row[2], row[3]>>]
<1>1. RowTypes
  BY DEF Tabled
<1>2. E \in SUBSET (Pages \X Pages)
  BY <1>1 DEF Edges, RowTypes
<1>3. IsFiniteSet(E)
  <2>1. IsFiniteSet(rows)
    BY <1>1, FS_Subset DEF RowTypes
  <2>2. edge \in [rows -> E] /\ \A e \in E : \E row \in rows : edge[row] = e
    BY DEF Edges
  <2>3. edge \in Surjection(rows, E)
    BY <2>2 DEF Surjection
  <2> HIDE DEF E, rows, edge
  <2> QED
    BY <2>1, <2>3, FS_Surjection
<1>4. /\ pc[c] = "linkage" /\ pc' = [pc EXCEPT ![c] = "push"]
      /\ UNCHANGED <<waves, ranks, wave, pushed>>
      /\ graph' = [graph EXCEPT ![c] = E]
      /\ \E edges \in SetToSeqs(E) : ranked' = [ranked EXCEPT ![c] = PowerIteration(edges)]
  BY DEF ReadLinkage, At, Goto, tables
<1> HIDE DEF E, rows, edge
<1>5. PICK edges \in SetToSeqs(E) : ranked' = [ranked EXCEPT ![c] = PowerIteration(edges)]
  BY <1>4
<1> DEFINE list == PowerIteration(edges)
<1>6. Lists(list, Pages, E)
  <2> DEFINE P == Pages
  <2>1. E \in SUBSET (P \X P)
    BY <1>2
  <2> HIDE DEF P
  <2>2. Lists(PowerIteration(edges), P, E)
    BY <1>3, <2>1, RanksAreRight
  <2> QED
    BY <2>2 DEF P
<1>7. ranked' = [ranked EXCEPT ![c] = list]
  BY <1>5
<1> HIDE DEF list
<1> QED
  BY <1>2, <1>4, <1>6, <1>7

(* Every process has ranked the graph that it has read.                    *)
LEMMA NextRanked ==
    ASSUME Inv, Tabled, Ranked, NEW c \in Processes, Step(c) \/ Crash(c)
    PROVE  Ranked'
<1>0. /\ pc \in [Processes -> Labels]
      /\ graph \in [Processes -> SUBSET (Pages \X Pages)]
      /\ ranked \in [Processes -> Seq(Pages \X Nat)]
      /\ pushed \in [Processes -> Nat]
      /\ BatchSize \in Nat \ {0}
  BY WavesAssumption DEF Inv, Types, Ranked
<1>1. CASE ReadLinkage(c)
  <2>1. /\ pc[c] = "linkage" /\ pc' = [pc EXCEPT ![c] = "push"] /\ UNCHANGED pushed
    BY <1>1, Reads
  <2>7. PICK E \in SUBSET (Pages \X Pages) :
            /\ graph' = [graph EXCEPT ![c] = E]
            /\ \E list : ranked' = [ranked EXCEPT ![c] = list] /\ Lists(list, Pages, E)
    BY <1>1, Reads
  <2>2. PICK list : ranked' = [ranked EXCEPT ![c] = list] /\ Lists(list, Pages, E)
    BY <2>7
  <2>3. list \in Seq(Pages \X Nat) /\ Len(list) \in Nat
    BY <2>2 DEF Lists
  <2>4. pushed[c] = 0
    <3>1. ranked[c] = << >> /\ pushed[c] \in 0 .. Len(ranked[c])
      BY <2>1 DEF Ranked, Ranking, Advance
    <3> QED
      BY <3>1
  <2>5. ASSUME NEW d \in Processes
        PROVE  /\ Lists(ranked'[d], Pages, graph'[d])
               /\ pc'[d] \notin Ranking => ranked'[d] = << >>
               /\ pushed[d] \in 0 .. Len(ranked'[d])
    <3>1. CASE d = c
      BY <1>0, <2>1, <2>7, <2>2, <2>3, <2>4, <3>1 DEF Ranking
    <3>2. CASE d # c
      <4>1. ranked'[d] = ranked[d] /\ graph'[d] = graph[d] /\ pc'[d] = pc[d]
        BY <1>0, <2>1, <2>7, <2>2, <3>2
      <4> QED
        BY <4>1 DEF Ranked, Advance
    <3> QED
      BY <3>1, <3>2
  <2>6. /\ graph' \in [Processes -> SUBSET (Pages \X Pages)]
        /\ ranked' \in [Processes -> Seq(Pages \X Nat)]
    BY <1>0, <2>7, <2>2, <2>3
  <2> QED
    BY <2>1, <2>5, <2>6, <1>0 DEF Ranked, Advance
<1>2. CASE PushPageRanks(c)
  <2>1. PICK hi \in 0 .. Len(ranked[c]) : Pushing(c, hi)
    BY <1>2, Pushes
  <2>2. UNCHANGED <<graph, ranked>> /\ pc[c] = "push"
    BY <2>1 DEF Pushing
  <2>3. \E l \in Ranking : pc' = [pc EXCEPT ![c] = l]
    BY <2>1 DEF Pushing, Ranking
  <2>4. \/ pushed' = pushed
        \/ /\ pushed' = [pushed EXCEPT ![c] = hi + 1] /\ hi + 1 \in 0 .. Len(ranked[c])
           /\ hi + 1 = pushed[c] + (BatchSize + 1)
    <3>1. Len(ranked[c]) \in Nat /\ pushed[c] \in Nat
      BY <1>0
    <3>2. \/ pushed' = pushed
          \/ /\ hi = pushed[c] + BatchSize /\ hi < Len(ranked[c])
             /\ pushed' = [pushed EXCEPT ![c] = hi + 1]
      BY <2>1 DEF Pushing
    <3>3. ASSUME hi = pushed[c] + BatchSize, hi < Len(ranked[c])
          PROVE  hi + 1 \in 0 .. Len(ranked[c]) /\ hi + 1 = pushed[c] + (BatchSize + 1)
      <4> DEFINE n == Len(ranked[c])
                 k == pushed[c]
      <4>1. n \in Nat /\ k \in Nat /\ hi = k + BatchSize /\ hi < n
        BY <3>1, <3>3
      <4> HIDE DEF n, k
      <4>2. hi + 1 \in 0 .. n /\ hi + 1 = k + (BatchSize + 1)
        BY <1>0, <4>1
      <4> QED
        BY <4>2 DEF n, k
    <3> QED
      BY <3>2, <3>3
  <2>5. \E m \in Nat : pushed[c] + (BatchSize + 1) = m * (BatchSize + 1)
    <3>1. PICK m \in Nat : pushed[c] = m * (BatchSize + 1)
      BY DEF Ranked, Advance
    <3>2. m * (BatchSize + 1) + (BatchSize + 1) = (m + 1) * (BatchSize + 1)
      BY <1>0
    <3> QED
      BY <3>1, <3>2
  <2>6. ASSUME NEW d \in Processes
        PROVE  (pc'[d] \notin Ranking => ranked[d] = << >>) /\ Advance(d)'
    <3>1. pc'[d] \notin Ranking => ranked[d] = << >>
      BY <1>0, <2>2, <2>3 DEF Ranked
    <3>2. pushed'[d] \in 0 .. Len(ranked[d]) /\ \E m \in Nat : pushed'[d] = m * (BatchSize + 1)
      <4>1. CASE pushed'[d] = pushed[d]
        BY <4>1 DEF Ranked, Advance
      <4>2. CASE pushed'[d] # pushed[d]
        <5>1. d = c /\ pushed'[d] = hi + 1 /\ hi + 1 \in 0 .. Len(ranked[c])
              /\ hi + 1 = pushed[c] + (BatchSize + 1)
          BY <1>0, <2>4, <4>2
        <5> QED
          BY <2>5, <5>1
      <4> QED
        BY <4>1, <4>2
    <3> QED
      BY <2>2, <3>1, <3>2 DEF Advance
  <2>7. pushed' \in [Processes -> Nat]
    <3>1. hi + 1 \in Nat
      OBVIOUS
    <3> QED
      BY <1>0, <2>4, <3>1
  <2>8. \A d \in Processes : Lists(ranked[d], Pages, graph[d])
    BY DEF Ranked
  <2> QED
    BY <1>0, <2>2, <2>6, <2>7, <2>8 DEF Ranked
<1>3. CASE ~ ReadLinkage(c) /\ ~ PushPageRanks(c)
  <2>1. /\ UNCHANGED <<graph, ranked, pushed>>
        /\ \E l \in Labels : pc' = [pc EXCEPT ![c] = l] /\ (pc[c] \in Ranking => l \in Ranking)
    BY <1>3, Stays
  <2> QED
    BY <1>0, <2>1 DEF Ranked, Advance
<1> QED
  BY <1>1, <1>2, <1>3

(* A wave that exists after a step of a process that pushes no ranks and   *)
(* was some process' before has existed, and keeps the rows it had.        *)
LEMMA Lasts ==
    ASSUME Inv, Tabled, NEW c \in Processes, Step(c) \/ Crash(c), ~ PushPageRanks(c),
           NEW d \in Processes, wave'[d] = wave[d], Exists(wave[d])'
    PROVE  /\ Exists(wave[d])
           /\ \A row \in ranks : row[1] = wave[d] => row \in ranks'
<1>0. Types /\ Fresh /\ Gone
  BY DEF Inv, Tabled
<1>1. CASE Collect(c)
  <2>1. /\ waves' = [v \in Ids |-> IF v = wave[c] THEN NoWave ELSE waves[v]]
        /\ ranks' = {row \in ranks : row[1] # wave[c]}
    BY <1>1 DEF Collect, Cascade
  <2> QED
    BY <2>1 DEF Exists
<1>2. CASE ~ Collect(c)
  <2>1. ranks' = ranks
    BY <1>0, <1>2, RanksStay
  <2>2. wave[d] \in Ids /\ waves'[wave[d]] # NoWave
    BY DEF Exists
  <2>3. Exists(wave[d])
    <3>1. CASE EnsureWave(c)
      <4>1. (waves' = waves \/ waves' = [waves EXCEPT ![c] = command[c].wave]) /\ pc[c] = "ensure"
        BY <3>1 DEF EnsureWave
      <4>2. wave[d] # c
        BY <1>0, <4>1 DEF Fresh
      <4> QED
        BY <1>0, <2>2, <4>1, <4>2 DEF Exists, Types
    <3>2. CASE ~ EnsureWave(c)
      <4>1. waves' = waves
        BY <1>0, <1>2, <3>2, Keeps
      <4> QED
        BY <2>2, <4>1 DEF Exists
    <3> QED
      BY <3>1, <3>2
  <2> QED
    BY <2>1, <2>3
<1> QED
  BY <1>1, <1>2

(* What a push adds.                                                       *)
LEMMA AddedIs ==
    ASSUME Ranked, NEW c \in Processes, NEW hi \in 0 .. Len(ranked[c]), Pushing(c, hi),
           NEW row \in Added(c, hi)
    PROVE  /\ row[1] = wave[c] /\ ~ HasRow(wave[c], row[2])
           /\ \E i \in 1 .. Len(ranked[c]) :
                /\ row = <<wave[c], ranked[c][i][1], ranked[c][i][2]>>
                /\ ranked[c][i] = <<row[2], row[3]>> /\ IsKept(i)
<1> DEFINE n == Len(ranked[c])
           k == pushed[c]
           d == BatchSize + 1
<1>0. BatchSize \in Nat \ {0} /\ ranked[c] \in Seq(Pages \X Nat) /\ k \in 0 .. n
  BY WavesAssumption DEF Ranked, Lists, Advance
<1>1. n \in Nat /\ hi \in 0 .. n /\ hi <= k + BatchSize
  BY <1>0 DEF Pushing
<1>2. PICK i \in k + 1 .. hi :
        row = <<wave[c], ranked[c][i][1], ranked[c][i][2]>> /\ ~ HasRow(wave[c], ranked[c][i][1])
  BY DEF Added
<1>3. PICK m \in Nat : k = m * d
  BY DEF Ranked, Advance
<1> HIDE DEF n, k
<1>4. i \in 1 .. n
  BY <1>0, <1>1
<1>5. IsKept(i)
  <2>1. i - k \in 0 .. d - 1 /\ i - k # 0 /\ k + (i - k) = i
    BY <1>0, <1>1
  <2>2. d \in Nat \ {0}
    BY <1>0
  <2> HIDE DEF d
  <2>3. (m * d + (i - k)) % d = i - k
    BY <2>1, <2>2, Remainders
  <2>4. i % d = i - k
    BY <1>3, <2>1, <2>3
  <2> QED
    BY <2>1, <2>4 DEF IsKept, d
<1>6. ranked[c][i] \in Pages \X Nat
  BY <1>0, <1>4 DEF n
<1>7. ranked[c][i] = <<row[2], row[3]>> /\ row[1] = wave[c] /\ row[2] = ranked[c][i][1]
  BY <1>2, <1>6
<1> QED
  BY <1>2, <1>4, <1>5, <1>7 DEF n

(* One row for each page of a wave, of a rank that was made for it.        *)
LEMMA NextWhose ==
    ASSUME Inv, Tabled, Ranked, Whose, NEW c \in Processes, Step(c) \/ Crash(c)
    PROVE  Whose'
<1>0. /\ RowTypes /\ ranked \in [Processes -> Seq(Pages \X Nat)]
      /\ \A d \in Processes : pc[d] \notin Ranking => ranked[d] = << >>
  BY DEF Tabled, Ranked
<1>1. CASE ReadLinkage(c)
  <2>1. pc[c] = "linkage" /\ UNCHANGED <<ranks, wave>>
    BY <1>1, Reads
  <2>2. \E list : ranked' = [ranked EXCEPT ![c] = list]
    BY <1>1, Reads
  <2>3. ranked[c] = << >>
    BY <1>0, <2>1 DEF Ranking
  <2>4. ASSUME NEW r \in ranks
        PROVE  \E d \in Processes : \E j \in 1 .. Len(ranked'[d]) :
                    wave[d] = r[1] /\ <<r[2], r[3]>> = ranked'[d][j] /\ IsKept(j)
    <3>0. PICK d \in Processes : \E j \in 1 .. Len(ranked[d]) :
                wave[d] = r[1] /\ <<r[2], r[3]>> = ranked[d][j] /\ IsKept(j)
      BY DEF Whose
    <3>1. PICK j \in 1 .. Len(ranked[d]) :
                wave[d] = r[1] /\ <<r[2], r[3]>> = ranked[d][j] /\ IsKept(j)
      BY <3>0
    <3>2. d # c
      BY <2>3, <3>1
    <3>3. ranked'[d] = ranked[d]
      BY <1>0, <2>2, <3>2
    <3> QED
      BY <3>1, <3>3
  <2> QED
    BY <2>1, <2>4 DEF Whose
<1>2. CASE PushPageRanks(c)
  <2>1. PICK hi \in 0 .. Len(ranked[c]) : Pushing(c, hi)
    BY <1>2, Pushes
  <2>2. /\ UNCHANGED <<wave, ranked>>
        /\ ranks' = ranks \/ ranks' = ranks \cup Added(c, hi)
    BY <2>1 DEF Pushing
  <2>3. ASSUME NEW r \in Added(c, hi)
        PROVE  \E d \in Processes : \E j \in 1 .. Len(ranked[d]) :
                    wave[d] = r[1] /\ <<r[2], r[3]>> = ranked[d][j] /\ IsKept(j)
    <3>1. r[1] = wave[c]
      BY <2>1, AddedIs
    <3>2. \E j \in 1 .. Len(ranked[c]) : ranked[c][j] = <<r[2], r[3]>> /\ IsKept(j)
      BY <2>1, AddedIs
    <3> QED
      BY <3>1, <3>2
  <2>4. ASSUME NEW r \in ranks, NEW s \in Added(c, hi) PROVE ~ (r[1] = s[1] /\ r[2] = s[2])
    BY <2>1, AddedIs DEF HasRow
  <2>5. ASSUME NEW r \in Added(c, hi), NEW s \in Added(c, hi), r[2] = s[2] PROVE r = s
    <3>1. PICK i \in 1 .. Len(ranked[c]) : r = <<wave[c], ranked[c][i][1], ranked[c][i][2]>>
      BY <2>1, AddedIs
    <3>2. PICK j \in 1 .. Len(ranked[c]) : s = <<wave[c], ranked[c][j][1], ranked[c][j][2]>>
      BY <2>1, AddedIs
    <3>3. ranked[c][i][1] = ranked[c][j][1]
      BY <2>5, <3>1, <3>2
    <3>4. i = j
      BY <3>3 DEF Ranked, Lists
    <3> QED
      BY <3>1, <3>2, <3>4
  <2> QED
    BY <2>2, <2>3, <2>4, <2>5 DEF Whose
<1>3. CASE ~ ReadLinkage(c) /\ ~ PushPageRanks(c)
  <2>1. /\ UNCHANGED ranked
        /\ \A d \in Processes : wave'[d] # wave[d] => pc[d] \notin Ranking
    BY <1>3, Stays
  <2>2. ranks' \subseteq ranks
    <3>1. CASE Collect(c)
      BY <3>1 DEF Collect, Cascade
    <3>2. CASE ~ Collect(c)
      BY <1>3, <3>2, RanksStay DEF Inv
    <3> QED
      BY <3>1, <3>2
  <2>3. ASSUME NEW r \in ranks
        PROVE  \E d \in Processes : \E j \in 1 .. Len(ranked[d]) :
                    wave'[d] = r[1] /\ <<r[2], r[3]>> = ranked[d][j] /\ IsKept(j)
    <3>0. PICK d \in Processes : \E j \in 1 .. Len(ranked[d]) :
                wave[d] = r[1] /\ <<r[2], r[3]>> = ranked[d][j] /\ IsKept(j)
      BY DEF Whose
    <3>1. PICK j \in 1 .. Len(ranked[d]) :
                wave[d] = r[1] /\ <<r[2], r[3]>> = ranked[d][j] /\ IsKept(j)
      BY <3>0
    <3>2. ranked[d] # << >>
      BY <3>1
    <3>3. wave'[d] = wave[d]
      BY <1>0, <2>1, <3>2
    <3> QED
      BY <3>1, <3>3
  <2> QED
    BY <2>1, <2>2, <2>3 DEF Whose
<1> QED
  BY <1>1, <1>2, <1>3

(* What has been pushed has its rows.                                      *)
LEMMA NextRows ==
    ASSUME Inv, Tabled, Ranked, Rows, NEW c \in Processes, Step(c) \/ Crash(c)
    PROVE  Rows'
<1>0. /\ ranked \in [Processes -> Seq(Pages \X Nat)] /\ pushed \in [Processes -> Nat]
      /\ pc \in [Processes -> Labels]
      /\ \A d \in Processes : pc[d] \notin Ranking => ranked[d] = << >>
  BY DEF Ranked, Inv, Types
<1>1. CASE ReadLinkage(c)
  <2>1. /\ pc[c] = "linkage" /\ pc' = [pc EXCEPT ![c] = "push"]
        /\ UNCHANGED <<waves, ranks, wave, pushed>>
    BY <1>1, Reads
  <2>2. \E list : ranked' = [ranked EXCEPT ![c] = list]
    BY <1>1, Reads
  <2>3. pushed[c] = 0
    <3>1. ranked[c] = << >> /\ pushed[c] \in 0 .. Len(ranked[c])
      BY <1>0, <2>1 DEF Ranked, Ranking, Advance
    <3> QED
      BY <3>1
  <2>4. ASSUME NEW d \in Processes, d # c PROVE ranked'[d] = ranked[d] /\ pc'[d] = pc[d]
    BY <1>0, <2>1, <2>2, <2>4
  <2>5. pc'[c] = "push" /\ \A i \in 1 .. Len(ranked'[c]) : ~ (i <= pushed[c])
    BY <1>0, <2>1, <2>3
  <2> QED
    BY <2>1, <2>4, <2>5 DEF Rows, HasRow, Exists
<1>2. CASE PushPageRanks(c)
  <2>1. PICK hi \in 0 .. Len(ranked[c]) : Pushing(c, hi)
    BY <1>2, Pushes
  <2>2. /\ pc[c] = "push" /\ UNCHANGED <<waves, wave, ranked>>
        /\ ranks' = IF Exists(wave[c]) THEN ranks \cup Added(c, hi) ELSE ranks
    BY <2>1 DEF Pushing
  <2>3. ASSUME NEW d \in Processes, d # c, Exists(wave[d]),
               NEW i \in 1 .. Len(ranked[d]), IsKept(i),
               pc'[d] = "done" \/ (pc'[d] = "push" /\ i <= pushed'[d])
        PROVE  HasRow(wave[d], ranked[d][i][1])'
    <3>1. pc'[d] = pc[d] /\ pushed'[d] = pushed[d]
      BY <1>0, <2>1, <2>3 DEF Pushing
    <3>2. HasRow(wave[d], ranked[d][i][1])
      BY <2>3, <3>1 DEF Rows
    <3> QED
      BY <2>2, <3>2 DEF HasRow
  <2>4. ASSUME Exists(wave[c]), NEW i \in 1 .. Len(ranked[c]), IsKept(i),
               pc'[c] = "done" \/ (pc'[c] = "push" /\ i <= pushed'[c])
        PROVE  HasRow(wave[c], ranked[c][i][1])'
    <3> DEFINE n == Len(ranked[c])
               k == pushed[c]
    <3>1. n \in Nat /\ k \in Nat /\ i \in 1 .. n /\ hi \in 0 .. n /\ BatchSize \in Nat \ {0}
      BY <1>0, WavesAssumption
    <3>2. i <= hi
      <4>1. CASE hi = n
        BY <3>1, <4>1
      <4>2. CASE hi = k + BatchSize /\ pushed' = [pushed EXCEPT ![c] = hi + 1] /\ pc' = [pc EXCEPT ![c] = "push"]
        <5>1. i <= hi + 1
          BY <1>0, <2>4, <4>2
        <5>2. PICK m \in Nat : k = m * (BatchSize + 1)
          BY DEF Ranked, Advance
        <5> DEFINE d == BatchSize + 1
        <5>3. d \in Nat \ {0} /\ m + 1 \in Nat /\ 0 \in 0 .. d - 1
          BY <3>1
        <5>4. hi + 1 = m * d + d
          BY <3>1, <4>2, <5>2
        <5> HIDE DEF d
        <5>5. m * d + d = (m + 1) * d + 0
          BY <5>3
        <5>6. ((m + 1) * d + 0) % d = 0
          BY <5>3, Remainders
        <5>7. i # hi + 1
          BY <2>4, <5>4, <5>5, <5>6 DEF IsKept, d
        <5> HIDE DEF n, k
        <5> QED
          BY <3>1, <5>1, <5>7
      <4>3. CASE ~ Exists(wave[c])
        BY <2>4, <4>3
      <4> QED
        BY <2>1, <4>1, <4>2, <4>3 DEF Pushing
    <3>3. CASE i <= k
      <4>1. HasRow(wave[c], ranked[c][i][1])
        BY <2>2, <2>4, <3>3 DEF Rows
      <4> QED
        BY <2>2, <4>1 DEF HasRow
    <3>4. CASE ~ (i <= k)
      <4>1. i \in k + 1 .. hi
        <5> HIDE DEF n, k
        <5> QED
          BY <3>1, <3>2, <3>4
      <4>2. CASE HasRow(wave[c], ranked[c][i][1])
        BY <2>2, <4>2 DEF HasRow
      <4>3. CASE ~ HasRow(wave[c], ranked[c][i][1])
        <5>1. <<wave[c], ranked[c][i][1], ranked[c][i][2]>> \in Added(c, hi)
          BY <4>1, <4>3 DEF Added
        <5> QED
          BY <2>2, <2>4, <5>1 DEF HasRow
      <4> QED
        BY <4>2, <4>3
    <3> QED
      BY <3>3, <3>4
  <2> QED
    BY <2>2, <2>3, <2>4 DEF Rows, Exists
<1>3. CASE ~ ReadLinkage(c) /\ ~ PushPageRanks(c)
  <2>1. UNCHANGED <<ranked, pushed>> /\ \A d \in Processes : wave'[d] # wave[d] => pc[d] \notin Ranking
    BY <1>3, Stays
  <2>2. PICK l \in Labels \ {"push"} :
            pc' = [pc EXCEPT ![c] = l] /\ (l = "done" => pc[c] \notin Ranking)
    BY <1>3, Stays
  <2>3. ASSUME NEW d \in Processes, Exists(wave[d])', NEW i \in 1 .. Len(ranked[d]), IsKept(i),
               pc'[d] = "done" \/ (pc'[d] = "push" /\ i <= pushed[d])
        PROVE  HasRow(wave[d], ranked[d][i][1])'
    <3>1. pc[d] \in Ranking
      BY <1>0
    <3>2. wave'[d] = wave[d]
      BY <2>1, <3>1
    <3>3. d # c
      BY <1>0, <2>2, <2>3, <3>1
    <3>4. pc'[d] = pc[d]
      BY <1>0, <2>2, <3>3
    <3>5. Exists(wave[d]) /\ \A row \in ranks : row[1] = wave[d] => row \in ranks'
      BY <1>3, <2>3, <3>2, Lasts
    <3>6. HasRow(wave[d], ranked[d][i][1])
      BY <2>3, <3>4, <3>5 DEF Rows
    <3> QED
      BY <2>1, <3>2, <3>5, <3>6 DEF HasRow
  <2> QED
    BY <2>1, <2>3 DEF Rows
<1> QED
  BY <1>1, <1>2, <1>3

-----------------------------------------------------------------------------
(* The theorems.                                                           *)

(* The list of no graph.                                                   *)
LEMMA EmptyList == Lists(<< >>, Pages, {})
<1>1. PagesOf({}) = {}
  BY DEF PagesOf
<1>2. << >> \in Seq(Pages \X Nat) /\ Len(<< >>) = 0
  OBVIOUS
<1> QED
  BY <1>1, <1>2 DEF Lists

(* At first nothing is ranked.                                             *)
LEMMA InitRank == Init => RankInv
<1> SUFFICES ASSUME Init PROVE RankInv
  OBVIOUS
<1>1. Inv /\ Tabled
  BY InitInv, InitTabled
<1>2. /\ ranks = {} /\ pc = [c \in Processes |-> "begin"]
      /\ graph = [c \in Processes |-> {}] /\ ranked = [c \in Processes |-> << >>]
      /\ pushed = [c \in Processes |-> 0]
  BY DEF Init
<1>3. ASSUME NEW c \in Processes PROVE Advance(c)
  <2>1. pushed[c] = 0 /\ Len(ranked[c]) = 0 /\ 0 * (BatchSize + 1) = 0
    BY <1>2, WavesAssumption
  <2> QED
    BY <2>1 DEF Advance
<1>4. ASSUME NEW c \in Processes PROVE Lists(ranked[c], Pages, graph[c]) /\ ranked[c] = << >>
  <2>1. ranked[c] = << >> /\ graph[c] = {}
    BY <1>2
  <2> QED
    BY <2>1, EmptyList
<1>5. Ranked
  <2>1. /\ graph \in [Processes -> SUBSET (Pages \X Pages)]
        /\ ranked \in [Processes -> Seq(Pages \X Nat)] /\ pushed \in [Processes -> Nat]
    BY <1>2
  <2> QED
    BY <1>3, <1>4, <2>1 DEF Ranked
<1>6. Whose
  BY <1>2 DEF Whose
<1>7. Rows
  BY <1>2 DEF Rows
<1> QED
  BY <1>1, <1>5, <1>6, <1>7 DEF RankInv

(* One step after another.                                                 *)
LEMMA NextRank == RankInv /\ [Next]_vars => RankInv'
<1> SUFFICES ASSUME RankInv, [Next]_vars PROVE RankInv'
  OBVIOUS
<1>0. Inv /\ Tabled /\ Ranked /\ Whose /\ Rows
  BY DEF RankInv
<1>1. Inv'
  BY <1>0, NextInv
<1>2. CASE UNCHANGED vars
  <2>1. UNCHANGED <<waves, status, linkage, ranks, pc, wave, page, graph, ranked, pushed>>
    BY <1>2 DEF vars, tables
  <2>2. Tabled'
    BY <1>0, <2>1 DEF Tabled, Paged, Named, RowTypes, Gone, Exists
  <2>3. Ranked'
    BY <1>0, <2>1 DEF Ranked, Advance
  <2>4. Whose' /\ Rows'
    BY <1>0, <2>1 DEF Whose, Rows, HasRow, Exists
  <2> QED
    BY <1>1, <2>2, <2>3, <2>4 DEF RankInv
<1>3. ASSUME NEW c \in Processes, Step(c) \/ Crash(c) PROVE RankInv'
  BY <1>0, <1>1, <1>3, NextTabled, NextRanked, NextWhose, NextRows DEF RankInv
<1> QED
  BY <1>2, <1>3 DEF Next

(* All that is in a wave's rows has its type, a name has one wave, of a    *)
(* wave that does not exist there are no rows, and a run is at a page when *)
(* it visits one.                                                          *)
THEOREM WavesTyped == Spec => []TypeOK
<1>1. RankInv => TypeOK
  <2> SUFFICES ASSUME RankInv PROVE TypeOK
    OBVIOUS
  <2>0. Types /\ Paged /\ Named /\ RowTypes /\ Gone /\ Ranked
    BY DEF RankInv, Inv, Tabled
  <2>1. ASSUME NEW n \in Names PROVE Cardinality(Called(n)) <= 1
    <3>1. n # NoWave
      BY WavesAssumption
    <3>2. \A v, w \in Called(n) : v = w
      BY <2>0, <3>1 DEF Called, Named, Exists
    <3>3. CASE Called(n) = {}
      <4>1. Cardinality({}) = 0
        BY FS_EmptySet
      <4> QED
        BY <3>3, <4>1
    <3>4. CASE Called(n) # {}
      <4>1. PICK w : Called(n) = {w}
        BY <3>2, <3>4
      <4>2. Cardinality({w}) = 1
        BY FS_Singleton
      <4> QED
        BY <4>1, <4>2
    <3> QED
      BY <3>3, <3>4
  <2>2. /\ linkage \subseteq Ids \X Pages \X Pages
        /\ \A r \in ranks : r[1] \in Ids /\ r[2] \in Pages /\ r[3] \in Nat
    BY <2>0 DEF RowTypes
  <2>3. \A w \in Ids : \/ Exists(w)
                       \/ /\ \A p \in Pages : status[w][p] = "absent"
                          /\ \A row \in linkage \cup ranks : row[1] # w
    BY <2>0 DEF Gone
  <2>4. \A c \in Processes : (page[c] # NoPage) = (pc[c] \in Visiting)
    <3> SUFFICES ASSUME NEW c \in Processes
                 PROVE  (page[c] # NoPage) = (pc[c] \in Visiting)
      OBVIOUS
    <3>1. page[c] # NoPage <=> pc[c] \in Visiting
      BY <2>0 DEF Paged, Visiting
    <3> QED
      BY <3>1
  <2>5. \A c \in Processes : seen[c] \subseteq Ids /\ pushed[c] \in 0 .. Len(ranked[c])
    BY <2>0 DEF Types, Ranked, Advance
  <2> QED
    BY <2>0, <2>1, <2>2, <2>3, <2>4, <2>5 DEF TypeOK, Types, Labels
<1> QED
  BY <1>1, InitRank, NextRank, PTL DEF Spec

(* The ranks of a process are those of the surfer on the graph it has read *)
(* and when it is done and has lost no wave, each page has one row in      *)
(* page_rank, of a rank that some process made for the wave, but the pages *)
(* that came when a batch was full: whatever else runs or is removed.      *)
THEOREM RanksWhole == Spec => []RanksAreWhole
<1>1. RankInv => RanksAreWhole
  <2> SUFFICES ASSUME RankInv, NEW c \in Processes
               PROVE  /\ pc[c] = "push" /\ pushed[c] = 0 =>
                            \A i \in DOMAIN ranked[c] : ranked[c][i][2] = RanksOf(graph[c])[ranked[c][i][1]]
                      /\ pc[c] = "done" /\ Exists(wave[c]) =>
                            \A i \in DOMAIN ranked[c] :
                                LET rows == {row \in ranks : row[1] = wave[c] /\ row[2] = ranked[c][i][1]}
                                IN  /\ IsKept(i) => Cardinality(rows) = 1
                                    /\ \A row \in rows : \E d \in Processes : \E j \in DOMAIN ranked[d] :
                                            wave[d] = wave[c] /\ <<row[2], row[3]>> = ranked[d][j] /\ IsKept(j)
    BY DEF RanksAreWhole
  <2>0. Ranked /\ Whose /\ Rows
    BY DEF RankInv
  <2>1. \A d \in Processes : DOMAIN ranked[d] = 1 .. Len(ranked[d])
    BY <2>0 DEF Ranked
  <2>2. \A i \in DOMAIN ranked[c] : ranked[c][i][2] = RanksOf(graph[c])[ranked[c][i][1]]
    <3> DEFINE g == graph[c]
               l == ranked[c]
    <3>1. Lists(l, Pages, g) /\ DOMAIN l = 1 .. Len(l)
      BY <2>0, <2>1 DEF Ranked
    <3> HIDE DEF g, l
    <3>2. \A i \in DOMAIN l : l[i][2] = RanksOf(g)[l[i][1]]
      BY <3>1 DEF Lists
    <3> QED
      BY <3>2 DEF g, l
  <2>3. ASSUME pc[c] = "done", Exists(wave[c]), NEW i \in DOMAIN ranked[c],
               NEW rows, rows = {row \in ranks : row[1] = wave[c] /\ row[2] = ranked[c][i][1]}
        PROVE  /\ IsKept(i) => Cardinality(rows) = 1
               /\ \A row \in rows : \E d \in Processes : \E j \in DOMAIN ranked[d] :
                        wave[d] = wave[c] /\ <<row[2], row[3]>> = ranked[d][j] /\ IsKept(j)
    <3>1. ASSUME IsKept(i) PROVE Cardinality(rows) = 1
      <4>1. PICK row \in ranks : row[1] = wave[c] /\ row[2] = ranked[c][i][1]
        BY <2>0, <2>1, <2>3, <3>1 DEF Rows, HasRow
      <4>2. rows = {row}
        BY <2>0, <2>3, <4>1 DEF Whose
      <4> QED
        BY <4>2, FS_Singleton
    <3>2. ASSUME NEW row \in rows
          PROVE  \E d \in Processes : \E j \in DOMAIN ranked[d] :
                    wave[d] = wave[c] /\ <<row[2], row[3]>> = ranked[d][j] /\ IsKept(j)
      <4>1. row \in ranks /\ row[1] = wave[c]
        BY <2>3
      <4>2. PICK d \in Processes : \E j \in 1 .. Len(ranked[d]) :
                wave[d] = row[1] /\ <<row[2], row[3]>> = ranked[d][j] /\ IsKept(j)
        BY <2>0, <4>1 DEF Whose
      <4> QED
        BY <2>1, <4>1, <4>2
    <3> QED
      BY <3>1, <3>2
  <2> QED
    BY <2>2, <2>3
<1> QED
  BY <1>1, InitRank, NextRank, PTL DEF Spec

=============================================================================
