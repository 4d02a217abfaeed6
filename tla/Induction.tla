----------------------------- MODULE Induction -----------------------------
(***************************************************************************)
(* Induction and recursion over the naturals, in terms of sets: what is to *)
(* hold of every number is the set of the numbers of which it holds, and   *)
(* what a recursive function does in one step is a function itself.  So no *)
(* lemma has an operator for its parameter, and each can be cited with     *)
(* what the provers here can instantiate.  Then sums over finite sets,     *)
(* which the community modules define by a fold: they do not depend on the *)
(* order in which it takes the elements.  And sorting: what can be put in  *)
(* order can be sorted, in one way.                                        *)
(***************************************************************************)
EXTENDS Integers, FiniteSetTheorems, TLAPS

(* Every set of naturals that has an element has a least one: of the       *)
(* intervals from zero up to its elements one is within no other.          *)
LEMMA Least ==
    ASSUME NEW T \in SUBSET Nat, T # {}
    PROVE  \E m \in T : \A k \in T : m <= k
<1> DEFINE Below == {0 .. x : x \in T}
<1>1. Below \subseteq FiniteSubsetsOf(Nat)
  <2> SUFFICES ASSUME NEW X \in Below PROVE X \in FiniteSubsetsOf(Nat)
    OBVIOUS
  <2>1. PICK x \in T : X = 0 .. x
    OBVIOUS
  <2>2. IsFiniteSet(0 .. x)
    BY FS_Interval
  <2> QED
    BY <2>1, <2>2 DEF FiniteSubsetsOf
<1>2. Below # {}
  OBVIOUS
<1>3. PICK X \in Below : \A Y \in Below : <<Y, X>> \notin StrictSubsetOrdering(Nat)
  <2> HIDE DEF Below
  <2> QED
    BY <1>1, <1>2, FS_StrictSubsetOrderingWellFounded, WFMin
<1>4. PICK m \in T : X = 0 .. m
  OBVIOUS
<1>5. ASSUME NEW k \in T, ~ m <= k PROVE FALSE
  <2>1. 0 .. k \subseteq 0 .. m /\ m \in 0 .. m /\ m \notin 0 .. k
    BY <1>5
  <2>2. 0 .. k \in SUBSET Nat /\ 0 .. m \in SUBSET Nat
    BY <1>5
  <2>3. <<0 .. k, X>> \in StrictSubsetOrdering(Nat)
    BY <2>1, <2>2, <1>4 DEF StrictSubsetOrdering
  <2> QED
    BY <2>3, <1>3
<1> QED
  BY <1>5

(* Of a set with zero in it, and the successor of each natural in it, no   *)
(* natural is missing: there would be a first one.                         *)
LEMMA Induction ==
    ASSUME NEW S, 0 \in S, \A n \in Nat : n \in S => n + 1 \in S
    PROVE  Nat \subseteq S
<1> DEFINE T == Nat \ S
<1> SUFFICES ASSUME T # {} PROVE FALSE
  OBVIOUS
<1>1. PICK x \in T : \A y \in T : x <= y
  <2>1. T \in SUBSET Nat
    OBVIOUS
  <2> HIDE DEF T
  <2> QED
    BY <2>1, Least
<1>2. x \in Nat /\ x # 0 /\ x - 1 \in Nat /\ (x - 1) + 1 = x
  OBVIOUS
<1>3. x - 1 \in T
  BY <1>2
<1> QED
  BY <1>1, <1>3

(* The same up to a bound.                                                 *)
LEMMA InductionUpTo ==
    ASSUME NEW N \in Nat, NEW S, 0 \in S, \A n \in 0 .. N - 1 : n \in S => n + 1 \in S
    PROVE  0 .. N \subseteq S
<1> DEFINE T == {n \in Nat : n <= N => n \in S}
<1>1. 0 \in T
  OBVIOUS
<1>2. \A n \in Nat : n \in T => n + 1 \in T
  OBVIOUS
<1>3. Nat \subseteq T
  <2> HIDE DEF T
  <2> QED
    BY <1>1, <1>2, Induction
<1> QED
  BY <1>3

(* What N steps F, one after the other, make of c.                         *)
Steps(N, S) == [1 .. N -> [S -> S]]

Chains(N, S, c, F) == {g \in [0 .. N -> S] : g[0] = c /\ \A i \in 1 .. N : g[i] = F[i][g[i - 1]]}

(* A first value and a step make a function: it is what a recursive        *)
(* definition stands for, which is the CHOOSE of one and says nothing as   *)
(* long as there is none.                                                  *)
LEMMA Recursion ==
    ASSUME NEW N \in Nat, NEW S, NEW c \in S, NEW F \in Steps(N, S)
    PROVE  Chains(N, S, c, F) # {}
<1> DEFINE Right(g, k) == g[0] = c /\ \A i \in 1 .. k : g[i] = F[i][g[i - 1]]
           T == {k \in Nat : \E g \in [0 .. k -> S] : Right(g, k)}
<1>1. 0 \in T
  <2>1. [i \in 0 .. 0 |-> c] \in [0 .. 0 -> S] /\ Right([i \in 0 .. 0 |-> c], 0)
    OBVIOUS
  <2> QED
    BY <2>1
<1>2. ASSUME NEW k \in 0 .. N - 1, k \in T PROVE k + 1 \in T
  <2>1. PICK g \in [0 .. k -> S] : Right(g, k)
    BY <1>2
  <2> DEFINE h == [i \in 0 .. k + 1 |-> IF i = k + 1 THEN F[k + 1][g[k]] ELSE g[i]]
  <2>2. F[k + 1][g[k]] \in S
    <3> USE DEF Steps
    <3>1. k + 1 \in 1 .. N /\ g[k] \in S
      BY <1>2, <2>1
    <3> QED
      BY <3>1
  <2>3. h \in [0 .. k + 1 -> S]
    BY <2>1, <2>2
  <2>4. ASSUME NEW i \in 1 .. k + 1 PROVE h[i] = F[i][h[i - 1]]
    <3>1. CASE i = k + 1
      <4>1. h[k + 1] = F[k + 1][g[k]] /\ h[k] = g[k] /\ i - 1 = k
        BY <3>1, <1>2
      <4> HIDE DEF h
      <4> QED
        BY <3>1, <4>1
    <3>2. CASE i # k + 1
      <4>1. i \in 1 .. k /\ i - 1 \in 0 .. k /\ i \in 0 .. k + 1 /\ i - 1 # k + 1
        BY <3>2, <1>2
      <4>2. h[i] = g[i] /\ h[i - 1] = g[i - 1]
        BY <4>1, <3>2
      <4> QED
        BY <2>1, <4>1, <4>2
    <3> QED
      BY <3>1, <3>2
  <2>5. h[0] = c
    BY <2>1, <1>2
  <2>6. Right(h, k + 1)
    <3> HIDE DEF h
    <3> QED
      BY <2>4, <2>5
  <2>7. \E f \in [0 .. k + 1 -> S] : Right(f, k + 1)
    <3> HIDE DEF h, Right
    <3> QED
      BY <2>3, <2>6
  <2>8. k + 1 \in Nat
    BY <1>2
  <2> HIDE DEF Right
  <2> QED
    BY <2>7, <2>8
<1>3. 0 .. N \subseteq T
  <2> HIDE DEF T
  <2> QED
    BY <1>1, <1>2, InductionUpTo
<1>4. N \in T
  <2> HIDE DEF T
  <2> QED
    BY <1>3
<1>5. PICK g \in [0 .. N -> S] : Right(g, N)
  BY <1>4
<1> QED
  BY <1>5 DEF Chains

-----------------------------------------------------------------------------
(* Every set of parts of a finite set that has the empty one, and with     *)
(* each what it is with one element more, has the set itself.              *)
LEMMA SetInduction ==
    ASSUME NEW S, IsFiniteSet(S), NEW T \in SUBSET SUBSET S, {} \in T,
           \A U \in T : \A x \in S \ U : U \cup {x} \in T
    PROVE  S \in T
<1> DEFINE N == {n \in Nat : \A U \in SUBSET S : Cardinality(U) = n => U \in T}
<1>1. 0 \in N
  BY FS_Subset, FS_EmptySet
<1>2. ASSUME NEW n \in Nat, n \in N PROVE n + 1 \in N
  <2> SUFFICES ASSUME NEW U \in SUBSET S, Cardinality(U) = n + 1 PROVE U \in T
    OBVIOUS
  <2>1. IsFiniteSet(U)
    BY FS_Subset
  <2>2. PICK x \in U : TRUE
    BY <2>1, FS_EmptySet
  <2>3. Cardinality(U \ {x}) = n
    <3>1. Cardinality(U \ {x}) = Cardinality(U) - 1
      BY <2>1, <2>2, FS_RemoveElement
    <3> QED
      BY <3>1
  <2>4. U \ {x} \in T
    BY <1>2, <2>3
  <2>5. (U \ {x}) \cup {x} = U /\ x \in S \ (U \ {x})
    BY <2>2
  <2> QED
    BY <2>4, <2>5
<1>3. Nat \subseteq N
  <2> HIDE DEF N
  <2> QED
    BY <1>1, <1>2, Induction
<1>4. Cardinality(S) \in Nat
  BY FS_CardinalityType
<1> QED
  BY <1>3, <1>4

(* What the sum of f over S is said to be: the value of the function that  *)
(* takes one element out after another.                                    *)
Taken(f, S, g) == g = [s \in SUBSET S |-> IF s = {} THEN 0
                        ELSE LET x == CHOOSE x \in s : TRUE IN f[x] + g[s \ {x}]]

(* The fold behind SumFunctionOnSet does nothing else.                     *)
LEMMA SumIs ==
    ASSUME NEW f, NEW S
    PROVE  SumFunctionOnSet(f, S) = (CHOOSE g : Taken(f, S, g))[S]
  BY DEF SumFunctionOnSet, FoldFunctionOnSet, MapThenFoldSet, Taken

(* There is such a function.                                               *)
LEMMA TakenExists ==
    ASSUME NEW S, IsFiniteSet(S), NEW f, \A x \in S : f[x] \in Int
    PROVE  \E g \in [SUBSET S -> Int] : Taken(f, S, g)
<1> DEFINE G == [SUBSET S -> Int]
           N == Cardinality(S)
           Picked(s) == CHOOSE x \in s : TRUE
           Body(g) == [s \in SUBSET S |-> IF s = {} THEN 0 ELSE f[Picked(s)] + g[s \ {Picked(s)}]]
           F == [i \in 1 .. N |-> [g \in G |-> Body(g)]]
           c == [s \in SUBSET S |-> 0]
<1>1. \A s \in SUBSET S : s # {} => Picked(s) \in s
  OBVIOUS
<1>2. \A g \in G : Body(g) \in G
  <2> SUFFICES ASSUME NEW g \in G, NEW s \in SUBSET S, s # {}
               PROVE  f[Picked(s)] + g[s \ {Picked(s)}] \in Int
    OBVIOUS
  <2>1. Picked(s) \in S /\ s \ {Picked(s)} \in SUBSET S
    BY <1>1
  <2> HIDE DEF Picked
  <2>2. f[Picked(s)] \in Int /\ g[s \ {Picked(s)}] \in Int
    BY <2>1
  <2> QED
    BY <2>2
<1>3. N \in Nat /\ c \in G
  BY FS_CardinalityType
<1>4. F \in Steps(N, G)
  <2> HIDE DEF Body, G, N
  <2> QED
    BY <1>2 DEF Steps
<1>5. PICK h \in [0 .. N -> G] : h[0] = c /\ \A i \in 1 .. N : h[i] = F[i][h[i - 1]]
  <2> HIDE DEF F, G, N, c
  <2> QED
    BY <1>3, <1>4, Recursion DEF Chains
<1>6. \A k \in 0 .. N - 1 : h[k + 1] = Body(h[k])
  <2> SUFFICES ASSUME NEW k \in 0 .. N - 1 PROVE h[k + 1] = Body(h[k])
    OBVIOUS
  <2> HIDE DEF G, N, Body
  <2>1. k + 1 \in 1 .. N /\ (k + 1) - 1 = k /\ h[k] \in G
    BY <1>3, <1>5
  <2> QED
    BY <1>5, <2>1
<1> DEFINE Good(k) == \A s \in SUBSET S : Cardinality(s) <= k => Body(h[k])[s] = h[k][s]
           T == {k \in Nat : Good(k)}
<1>7. Good(0)
  <2>1. ASSUME NEW s \in SUBSET S, Cardinality(s) <= 0 PROVE s = {}
    BY <2>1, FS_Subset, FS_CardinalityType, FS_EmptySet
  <2>2. Body(h[0])[{}] = 0 /\ h[0][{}] = 0
    BY <1>5
  <2> HIDE DEF Body
  <2> QED
    BY <2>1, <2>2
<1>8. ASSUME NEW k \in 0 .. N - 1, Good(k) PROVE Good(k + 1)
  <2> SUFFICES ASSUME NEW s \in SUBSET S, Cardinality(s) <= k + 1
               PROVE  Body(h[k + 1])[s] = h[k + 1][s]
    <3> HIDE DEF Body
    <3> QED
      OBVIOUS
  <2>1. CASE s = {}
    BY <1>6, <2>1
  <2>2. CASE s # {}
    <3>1. Picked(s) \in s
      BY <2>2
    <3> DEFINE r == s \ {Picked(s)}
    <3>2. r \in SUBSET S
      OBVIOUS
    <3>3. Cardinality(r) <= k
      <4>1. IsFiniteSet(s) /\ Cardinality(s) \in Nat
        BY FS_Subset, FS_CardinalityType
      <4>2. Cardinality(r) = Cardinality(s) - 1
        BY <3>1, <4>1, FS_RemoveElement
      <4> HIDE DEF r
      <4> QED
        BY <4>1, <4>2
    <3>4. Body(h[k])[r] = h[k][r]
      BY <1>8, <3>2, <3>3
    <3>5. Body(h[k + 1])[s] = f[Picked(s)] + h[k + 1][r]
      BY <2>2
    <3>6. Body(h[k])[s] = f[Picked(s)] + h[k][r]
      BY <2>2
    <3> HIDE DEF Body, r, Picked
    <3> QED
      BY <1>6, <3>4, <3>5, <3>6
  <2> QED
    BY <2>1, <2>2
<1>9. Good(N)
  <2> HIDE DEF Good, N
  <2>1. 0 \in T
    BY <1>7
  <2>2. \A k \in 0 .. N - 1 : k \in T => k + 1 \in T
    BY <1>3, <1>8
  <2>3. 0 .. N \subseteq T
    <3> HIDE DEF T
    <3> QED
      BY <1>3, <2>1, <2>2, InductionUpTo
  <2> QED
    BY <1>3, <2>3
<1>10. Body(h[N]) = h[N]
  <2>1. h[N] \in G /\ Body(h[N]) \in G
    BY <1>2, <1>3, <1>5
  <2>2. \A s \in SUBSET S : Cardinality(s) <= N
    BY FS_Subset
  <2> HIDE DEF Body, N
  <2> QED
    BY <1>9, <2>1, <2>2
<1>11. Taken(f, S, h[N])
  BY <1>10 DEF Taken
<1>12. h[N] \in [SUBSET S -> Int]
  BY <1>3, <1>5
<1> QED
  BY <1>11, <1>12

(* And it is the same on the parts of S and on those of a part of S.       *)
LEMMA TakenSame ==
    ASSUME NEW S, IsFiniteSet(S), NEW R \in SUBSET S, NEW f, NEW g, NEW h,
           Taken(f, S, g), Taken(f, R, h)
    PROVE  g[R] = h[R]
<1> DEFINE Picked(s) == CHOOSE x \in s : TRUE
           T == {n \in Nat : \A s \in SUBSET R : Cardinality(s) = n => g[s] = h[s]}
<1>1. g[{}] = 0 /\ h[{}] = 0
  BY DEF Taken
<1>2. \A s \in SUBSET R : s # {} =>
        /\ Picked(s) \in s
        /\ g[s] = f[Picked(s)] + g[s \ {Picked(s)}]
        /\ h[s] = f[Picked(s)] + h[s \ {Picked(s)}]
  BY DEF Taken
<1>3. \A s \in SUBSET R : IsFiniteSet(s) /\ Cardinality(s) \in Nat
  BY FS_Subset, FS_CardinalityType
<1> HIDE DEF Picked
<1>4. 0 \in T
  BY <1>1, <1>3, FS_EmptySet
<1>5. ASSUME NEW n \in Nat, n \in T PROVE n + 1 \in T
  <2> SUFFICES ASSUME NEW s \in SUBSET R, Cardinality(s) = n + 1 PROVE g[s] = h[s]
    OBVIOUS
  <2>1. s # {}
    BY FS_EmptySet
  <2>2. Cardinality(s \ {Picked(s)}) = n
    <3>1. Cardinality(s \ {Picked(s)}) = Cardinality(s) - 1
      BY <1>2, <1>3, <2>1, FS_RemoveElement
    <3> QED
      BY <3>1
  <2>3. g[s \ {Picked(s)}] = h[s \ {Picked(s)}]
    BY <1>5, <2>2
  <2> QED
    BY <1>2, <2>1, <2>3
<1>6. Nat \subseteq T
  <2> HIDE DEF T
  <2> QED
    BY <1>4, <1>5, Induction
<1> QED
  BY <1>3, <1>6

-----------------------------------------------------------------------------
(* Sums of integers.                                                       *)

(* Nothing sums up to zero, and from what is something one element can be  *)
(* taken out; a sum is an integer.                                         *)
LEMMA SumStep ==
    ASSUME NEW S, IsFiniteSet(S), NEW f, \A x \in S : f[x] \in Int
    PROVE  /\ SumFunctionOnSet(f, S) \in Int
           /\ S = {} => SumFunctionOnSet(f, S) = 0
           /\ S # {} => \E x \in S : SumFunctionOnSet(f, S) = f[x] + SumFunctionOnSet(f, S \ {x})
<1> DEFINE g == CHOOSE g : Taken(f, S, g)
<1>1. PICK g0 \in [SUBSET S -> Int] : Taken(f, S, g0)
  BY TakenExists
<1>2. Taken(f, S, g) /\ SumFunctionOnSet(f, S) = g[S]
  BY <1>1, SumIs
<1> HIDE DEF g
<1>3. g[S] = g0[S]
  BY <1>1, <1>2, TakenSame
<1>4. S = {} => g[S] = 0
  BY <1>2 DEF Taken
<1>5. ASSUME S # {} PROVE \E x \in S : g[S] = f[x] + SumFunctionOnSet(f, S \ {x})
  <2> DEFINE x == CHOOSE x \in S : TRUE
             r == S \ {x}
             h == CHOOSE h : Taken(f, r, h)
  <2>1. x \in S
    BY <1>5
  <2>2. g[S] = f[x] + g[r]
    BY <1>2, <1>5 DEF Taken
  <2> HIDE DEF x
  <2>3. IsFiniteSet(r) /\ \A y \in r : f[y] \in Int
    BY FS_Subset
  <2>4. r \in SUBSET S
    OBVIOUS
  <2> HIDE DEF r
  <2>5. PICK h0 \in [SUBSET r -> Int] : Taken(f, r, h0)
    BY <2>3, TakenExists
  <2>6. Taken(f, r, h) /\ SumFunctionOnSet(f, r) = h[r]
    BY <2>5, SumIs
  <2> HIDE DEF h
  <2>7. g[r] = h[r]
    BY <1>2, <2>4, <2>6, TakenSame
  <2> QED
    BY <2>1, <2>2, <2>6, <2>7 DEF r
<1> QED
  BY <1>1, <1>2, <1>3, <1>4, <1>5

(* No matter which.                                                        *)
LEMMA SumRemove ==
    ASSUME NEW S, IsFiniteSet(S), NEW f, \A x \in S : f[x] \in Int, NEW x \in S
    PROVE  SumFunctionOnSet(f, S) = f[x] + SumFunctionOnSet(f, S \ {x})
<1> DEFINE Sum(s) == SumFunctionOnSet(f, s)
           Good(s) == \A y \in s : Sum(s) = f[y] + Sum(s \ {y})
           T == {n \in Nat : \A s \in SUBSET S : Cardinality(s) = n => Good(s)}
<1>1. \A s \in SUBSET S : IsFiniteSet(s) /\ Cardinality(s) \in Nat /\ Sum(s) \in Int
  <2> SUFFICES ASSUME NEW s \in SUBSET S
               PROVE  IsFiniteSet(s) /\ Cardinality(s) \in Nat /\ Sum(s) \in Int
    OBVIOUS
  <2>1. IsFiniteSet(s)
    BY FS_Subset
  <2> QED
    BY <2>1, FS_CardinalityType, SumStep
<1>2. \A s \in SUBSET S : s # {} => \E y \in s : Sum(s) = f[y] + Sum(s \ {y})
  BY <1>1, SumStep
<1> HIDE DEF Sum
<1>3. 0 \in T
  BY <1>1, FS_EmptySet
<1>4. ASSUME NEW n \in Nat, n \in T PROVE n + 1 \in T
  <2> SUFFICES ASSUME NEW s \in SUBSET S, Cardinality(s) = n + 1, NEW y \in s
               PROVE  Sum(s) = f[y] + Sum(s \ {y})
    OBVIOUS
  <2>1. PICK z \in s : Sum(s) = f[z] + Sum(s \ {z})
    BY <1>2
  <2>2. CASE y # z
    <3>1. Cardinality(s \ {z}) = n /\ Cardinality(s \ {y}) = n
      <4>1. Cardinality(s \ {z}) = Cardinality(s) - 1
        BY <1>1, FS_RemoveElement
      <4>2. Cardinality(s \ {y}) = Cardinality(s) - 1
        BY <1>1, FS_RemoveElement
      <4> QED
        BY <4>1, <4>2
    <3>2. Sum(s \ {z}) = f[y] + Sum((s \ {z}) \ {y})
      BY <1>4, <2>2, <3>1
    <3>3. Sum(s \ {y}) = f[z] + Sum((s \ {y}) \ {z})
      BY <1>4, <2>2, <3>1
    <3>4. (s \ {z}) \ {y} = (s \ {y}) \ {z} /\ (s \ {y}) \ {z} \in SUBSET S
      OBVIOUS
    <3>5. f[y] \in Int /\ f[z] \in Int /\ Sum((s \ {y}) \ {z}) \in Int
      BY <1>1, <3>4
    <3>6. \A a, b, c \in Int : a + (b + c) = b + (a + c)
      OBVIOUS
    <3>7. f[z] + (f[y] + Sum((s \ {y}) \ {z})) = f[y] + (f[z] + Sum((s \ {y}) \ {z}))
      BY <3>5, <3>6, Zenon
    <3> QED
      BY <2>1, <3>2, <3>3, <3>4, <3>7, Zenon
  <2> QED
    BY <2>1, <2>2
<1>5. Nat \subseteq T
  <2> HIDE DEF T
  <2> QED
    BY <1>3, <1>4, Induction
<1>6. Good(S)
  BY <1>1, <1>5
<1> QED
  BY <1>6 DEF Sum

(* One element more adds its value.                                        *)
LEMMA SumAdd ==
    ASSUME NEW S, IsFiniteSet(S), NEW f, \A x \in S : f[x] \in Int, NEW U \in SUBSET S, NEW x \in S \ U
    PROVE  SumFunctionOnSet(f, U \cup {x}) = f[x] + SumFunctionOnSet(f, U)
<1>1. IsFiniteSet(U \cup {x})
  BY FS_Subset
<1>2. (U \cup {x}) \ {x} = U
  OBVIOUS
<1>3. \A y \in U \cup {x} : f[y] \in Int
  OBVIOUS
<1>4. SumFunctionOnSet(f, U \cup {x}) = f[x] + SumFunctionOnSet(f, (U \cup {x}) \ {x})
  BY <1>1, <1>3, SumRemove
<1> QED
  BY <1>2, <1>4

(* Naturals add up to a natural.                                           *)
LEMMA SumNat ==
    ASSUME NEW S, IsFiniteSet(S), NEW f, \A x \in S : f[x] \in Nat
    PROVE  SumFunctionOnSet(f, S) \in Nat
<1> DEFINE T == {U \in SUBSET S : SumFunctionOnSet(f, U) \in Nat}
<1>1. {} \in T
  BY SumStep, FS_EmptySet
<1>2. ASSUME NEW U \in T, NEW x \in S \ U PROVE U \cup {x} \in T
  <2>1. SumFunctionOnSet(f, U \cup {x}) = f[x] + SumFunctionOnSet(f, U)
    BY SumAdd
  <2> QED
    BY <2>1
<1>3. T \in SUBSET SUBSET S
  OBVIOUS
<1> HIDE DEF T
<1>4. S \in T
  BY <1>1, <1>2, <1>3, SetInduction
<1> QED
  BY <1>4 DEF T

(* The sum of what is the same, one by one, is the same.                   *)
LEMMA SumBijection ==
    ASSUME NEW S, IsFiniteSet(S), NEW R, NEW h \in Bijection(S, R), NEW f, NEW g,
           \A x \in S : f[x] \in Int /\ f[x] = g[h[x]]
    PROVE  SumFunctionOnSet(f, S) = SumFunctionOnSet(g, R)
<1> DEFINE Image(U) == {h[x] : x \in U}
           T == {U \in SUBSET S : SumFunctionOnSet(f, U) = SumFunctionOnSet(g, Image(U))}
<1>1. /\ \A x \in S : h[x] \in R
      /\ \A x, y \in S : h[x] = h[y] => x = y
      /\ \A y \in R : \E x \in S : h[x] = y
  BY DEF Bijection, Injection, Surjection, IsInjective
<1>2. IsFiniteSet(R)
  BY FS_Bijection DEF ExistsBijection
<1>3. \A y \in R : g[y] \in Int
  BY <1>1
<1>4. {} \in T
  <2>1. SumFunctionOnSet(f, {}) = 0 /\ SumFunctionOnSet(g, {}) = 0
    BY SumStep, FS_EmptySet
  <2>2. Image({}) = {}
    OBVIOUS
  <2> QED
    BY <2>1, <2>2
<1>5. ASSUME NEW U \in T, NEW x \in S \ U PROVE U \cup {x} \in T
  <2>1. Image(U \cup {x}) = Image(U) \cup {h[x]}
    OBVIOUS
  <2>2. Image(U) \in SUBSET R /\ h[x] \in R \ Image(U)
    BY <1>1
  <2>3. U \in SUBSET S /\ SumFunctionOnSet(f, U) = SumFunctionOnSet(g, Image(U))
    OBVIOUS
  <2> HIDE DEF Image
  <2>4. SumFunctionOnSet(f, U \cup {x}) = f[x] + SumFunctionOnSet(f, U)
    BY <2>3, SumAdd
  <2>5. SumFunctionOnSet(g, Image(U) \cup {h[x]}) = g[h[x]] + SumFunctionOnSet(g, Image(U))
    BY <1>2, <1>3, <2>2, SumAdd
  <2> QED
    BY <2>1, <2>3, <2>4, <2>5
<1>6. S \in T
  <2>1. T \in SUBSET SUBSET S
    OBVIOUS
  <2> HIDE DEF T
  <2> QED
    BY <2>1, <1>4, <1>5, SetInduction
<1>7. Image(S) = R
  BY <1>1
<1> QED
  BY <1>6, <1>7

(* In particular a sum is of what is summed up, by whatever function.      *)
LEMMA SumSame ==
    ASSUME NEW S, IsFiniteSet(S), NEW f, NEW g, \A x \in S : f[x] \in Int /\ f[x] = g[x]
    PROVE  SumFunctionOnSet(f, S) = SumFunctionOnSet(g, S)
<1> DEFINE h == [x \in S |-> x]
<1>1. h \in Bijection(S, S)
  BY DEF Bijection, Injection, Surjection, IsInjective
<1>2. \A x \in S : f[x] \in Int /\ f[x] = g[h[x]]
  OBVIOUS
<1> HIDE DEF h
<1> QED
  BY <1>1, <1>2, SumBijection

(* What is summed up in two parts.                                         *)
LEMMA SumParts ==
    ASSUME NEW A, IsFiniteSet(A), NEW B, IsFiniteSet(B), A \cap B = {},
           NEW f, \A x \in A \cup B : f[x] \in Int
    PROVE  SumFunctionOnSet(f, A \cup B) = SumFunctionOnSet(f, A) + SumFunctionOnSet(f, B)
<1> DEFINE S == A \cup B
           T == {U \in SUBSET B : SumFunctionOnSet(f, A \cup U) =
                                    SumFunctionOnSet(f, A) + SumFunctionOnSet(f, U)}
<1>1. IsFiniteSet(S) /\ \A x \in S : f[x] \in Int
  BY FS_Union
<1>2. \A U \in SUBSET B : SumFunctionOnSet(f, U) \in Int
  <2> SUFFICES ASSUME NEW U \in SUBSET B PROVE SumFunctionOnSet(f, U) \in Int
    OBVIOUS
  <2>1. IsFiniteSet(U) /\ \A x \in U : f[x] \in Int
    BY FS_Subset
  <2> QED
    BY <2>1, SumStep
<1>3. SumFunctionOnSet(f, A) \in Int
  BY SumStep
<1>4. {} \in T
  <2>1. SumFunctionOnSet(f, {}) = 0
    BY SumStep, FS_EmptySet
  <2>2. A \cup {} = A
    OBVIOUS
  <2> QED
    BY <1>3, <2>1, <2>2
<1>5. ASSUME NEW U \in T, NEW x \in B \ U PROVE U \cup {x} \in T
  <2>1. A \cup U \in SUBSET S /\ x \in S \ (A \cup U) /\ A \cup (U \cup {x}) = (A \cup U) \cup {x}
    OBVIOUS
  <2>2. U \in SUBSET B /\ SumFunctionOnSet(f, A \cup U) = SumFunctionOnSet(f, A) + SumFunctionOnSet(f, U)
    OBVIOUS
  <2>3. SumFunctionOnSet(f, U \cup {x}) = f[x] + SumFunctionOnSet(f, U)
    BY <2>2, SumAdd
  <2>4. f[x] \in Int
    OBVIOUS
  <2>5. SumFunctionOnSet(f, (A \cup U) \cup {x}) = f[x] + SumFunctionOnSet(f, A \cup U)
    <3> DEFINE V == A \cup U
    <3>1. V \in SUBSET S /\ x \in S \ V
      BY <2>1
    <3>2. SumFunctionOnSet(f, V \cup {x}) = f[x] + SumFunctionOnSet(f, V)
      <4> HIDE DEF S, V
      <4> QED
        BY <1>1, <3>1, SumAdd
    <3> QED
      BY <3>2
  <2>6. SumFunctionOnSet(f, U) \in Int
    BY <1>2
  <2>7. SumFunctionOnSet(f, A \cup (U \cup {x})) = SumFunctionOnSet(f, A) + SumFunctionOnSet(f, U \cup {x})
    <3> DEFINE Sum(s) == SumFunctionOnSet(f, s)
    <3>1. /\ Sum(A \cup (U \cup {x})) = f[x] + Sum(A \cup U) /\ Sum(A \cup U) = Sum(A) + Sum(U)
          /\ Sum(U \cup {x}) = f[x] + Sum(U)
      BY <2>1, <2>2, <2>3, <2>5
    <3>2. Sum(A) \in Int /\ Sum(U) \in Int
      BY <1>3, <2>6
    <3> HIDE DEF Sum
    <3>3. Sum(A \cup (U \cup {x})) = Sum(A) + Sum(U \cup {x})
      BY <2>4, <3>1, <3>2
    <3> QED
      BY <3>3 DEF Sum
  <2> QED
    BY <2>7
<1>6. B \in T
  <2>1. T \in SUBSET SUBSET B
    OBVIOUS
  <2> HIDE DEF T
  <2> QED
    BY <2>1, <1>4, <1>5, SetInduction
<1> QED
  BY <1>6

(* And in any number of tiles that have nothing in common.                 *)
LEMMA SumTiles ==
    ASSUME NEW I, IsFiniteSet(I), NEW S, IsFiniteSet(S), NEW tile \in [I -> SUBSET S],
           \A i, j \in I : i # j => tile[i] \cap tile[j] = {},
           NEW f, \A x \in S : f[x] \in Int,
           NEW q, \A i \in I : q[i] = SumFunctionOnSet(f, tile[i])
    PROVE  SumFunctionOnSet(q, I) = SumFunctionOnSet(f, UNION {tile[i] : i \in I})
<1> DEFINE Laid(U) == UNION {tile[i] : i \in U}
           T == {U \in SUBSET I : SumFunctionOnSet(q, U) = SumFunctionOnSet(f, Laid(U))}
<1>1. ASSUME NEW R \in SUBSET S
      PROVE  IsFiniteSet(R) /\ (\A x \in R : f[x] \in Int) /\ SumFunctionOnSet(f, R) \in Int
  <2>1. IsFiniteSet(R) /\ \A x \in R : f[x] \in Int
    BY FS_Subset
  <2> QED
    BY <2>1, SumStep
<1>2. \A i \in I : q[i] \in Int
  BY <1>1
<1>3. {} \in T
  <2>1. SumFunctionOnSet(f, {}) = 0 /\ SumFunctionOnSet(q, {}) = 0
    BY SumStep, FS_EmptySet
  <2>2. Laid({}) = {}
    OBVIOUS
  <2> QED
    BY <2>1, <2>2
<1>4. ASSUME NEW U \in T, NEW i \in I \ U PROVE U \cup {i} \in T
  <2>1. Laid(U \cup {i}) = Laid(U) \cup tile[i]
    OBVIOUS
  <2>2. Laid(U) \in SUBSET S /\ tile[i] \in SUBSET S /\ Laid(U) \cap tile[i] = {}
    OBVIOUS
  <2>3. U \in SUBSET I /\ SumFunctionOnSet(q, U) = SumFunctionOnSet(f, Laid(U))
    OBVIOUS
  <2> HIDE DEF Laid
  <2>4. SumFunctionOnSet(q, U \cup {i}) = q[i] + SumFunctionOnSet(q, U)
    BY <1>2, <2>3, SumAdd
  <2>5. IsFiniteSet(Laid(U)) /\ IsFiniteSet(tile[i])
    BY <1>1, <2>2
  <2>6. \A x \in Laid(U) \cup tile[i] : f[x] \in Int
    BY <2>2
  <2>7. SumFunctionOnSet(f, Laid(U) \cup tile[i]) = SumFunctionOnSet(f, Laid(U)) + SumFunctionOnSet(f, tile[i])
    BY <2>2, <2>5, <2>6, SumParts
  <2>8. SumFunctionOnSet(f, Laid(U)) \in Int /\ SumFunctionOnSet(f, tile[i]) \in Int
    BY <1>1, <2>2
  <2>9. SumFunctionOnSet(q, U \cup {i}) = SumFunctionOnSet(f, Laid(U \cup {i}))
    <3>1. q[i] = SumFunctionOnSet(f, tile[i])
      OBVIOUS
    <3> DEFINE Sum(s) == SumFunctionOnSet(f, s)
    <3>2. /\ Sum(Laid(U \cup {i})) = Sum(Laid(U)) + Sum(tile[i])
          /\ SumFunctionOnSet(q, U \cup {i}) = Sum(tile[i]) + Sum(Laid(U))
          /\ Sum(Laid(U)) \in Int /\ Sum(tile[i]) \in Int
      BY <2>1, <2>3, <2>4, <2>7, <2>8, <3>1
    <3> HIDE DEF Sum
    <3>3. SumFunctionOnSet(q, U \cup {i}) = Sum(Laid(U \cup {i}))
      BY <3>2
    <3> QED
      BY <3>3 DEF Sum
  <2> QED
    BY <2>3, <2>9
<1>5. I \in T
  <2>1. T \in SUBSET SUBSET I
    OBVIOUS
  <2> HIDE DEF T
  <2> QED
    BY <2>1, <1>3, <1>4, SetInduction
<1> QED
  BY <1>5

-----------------------------------------------------------------------------
(* The pairs le put any two of R in order.                                 *)
Ordered(R, le) ==
    /\ \A u, v \in R : <<u, v>> \in le \/ <<v, u>> \in le
    /\ \A u, v, w \in R : <<u, v>> \in le /\ <<v, w>> \in le => <<u, w>> \in le

(* And in one order only.                                                  *)
Linear(R, le) == Ordered(R, le) /\ \A u, v \in R : <<u, v>> \in le /\ <<v, u>> \in le => u = v

(* Each value before those that are to come after it.                      *)
Ascending(m, s, le) == \A i, j \in 1 .. m : i < j => <<s[i], s[j]>> \in le

(* Anything that can be put in order can be sorted: a value has its place  *)
(* after all that are to come before it.                                   *)
LEMMA SortExists ==
    ASSUME NEW R, NEW le, Ordered(R, le), NEW m \in Nat, NEW s, \A i \in 1 .. m : s[i] \in R
    PROVE  \E q \in Bijection(1 .. m, 1 .. m) : \A i, j \in 1 .. m : i < j => <<s[q[i]], s[q[j]]>> \in le
<1> DEFINE D == 1 .. m
           le_(k, l) == <<s[k], s[l]>> \in le
           Before(k) == {l \in D : ~ le_(k, l) \/ (le_(l, k) /\ l < k)}
           place == [k \in D |-> Cardinality(Before(k)) + 1]
           q == [i \in D |-> CHOOSE k \in D : place[k] = i]
<1>1. IsFiniteSet(D) /\ Cardinality(D) = m
  BY FS_Interval
<1>2. /\ \A k, l \in D : le_(k, l) \/ le_(l, k)
      /\ \A k, l, j \in D : le_(k, l) /\ le_(l, j) => le_(k, j)
  BY DEF Ordered
<1> HIDE DEF le_
<1>3. \A k \in D : Before(k) \subseteq D \ {k}
  BY <1>2
<1>4. \A k, l \in D : l \in Before(k) => Before(l) \subseteq Before(k) \ {l}
  BY <1>2
<1>5. \A k, l \in D : k = l \/ k \in Before(l) \/ l \in Before(k)
  BY <1>2
<1>6. \A k, l \in D : ~ le_(k, l) => l \in Before(k)
  OBVIOUS
<1> HIDE DEF Before, D
<1>7. ASSUME NEW k \in D
      PROVE  IsFiniteSet(Before(k)) /\ Cardinality(Before(k)) \in Nat /\ place[k] = Cardinality(Before(k)) + 1
  BY <1>1, <1>3, FS_Subset, FS_CardinalityType
<1>8. ASSUME NEW k \in D PROVE place[k] \in D
  <2>1. IsFiniteSet(D \ {k}) /\ Cardinality(D \ {k}) = m - 1
    BY <1>1, FS_RemoveElement
  <2>2. Cardinality(Before(k)) <= m - 1
    BY <1>3, <2>1, FS_Subset
  <2> QED
    BY <1>7, <2>2 DEF D
<1>9. ASSUME NEW k \in D, NEW l \in Before(k) PROVE l \in D /\ place[l] < place[k]
  <2>1. l \in D
    BY <1>3
  <2>2. IsFiniteSet(Before(k) \ {l}) /\ Cardinality(Before(k) \ {l}) = Cardinality(Before(k)) - 1
    BY <1>7, FS_RemoveElement
  <2>3. Cardinality(Before(l)) <= Cardinality(Before(k)) - 1
    BY <1>4, <2>1, <2>2, FS_Subset
  <2>4. /\ Cardinality(Before(l)) \in Nat /\ Cardinality(Before(k)) \in Nat
        /\ place[l] = Cardinality(Before(l)) + 1 /\ place[k] = Cardinality(Before(k)) + 1
    BY <1>7, <2>1
  <2> HIDE DEF place
  <2> QED
    BY <2>1, <2>3, <2>4
<1>10. place \in [D -> D]
  BY <1>8
<1> HIDE DEF place
<1>11. \A k \in D : place[k] \in Nat
  BY <1>10 DEF D
<1>12. \A k, l \in D : place[k] = place[l] => k = l
  BY <1>5, <1>9, <1>11
<1>13. place \in Injection(D, D)
  BY <1>10, <1>12 DEF Injection, IsInjective
<1>14. place \in Surjection(D, D)
  BY <1>1, <1>13, FS_Injection
<1>15. \A i \in D : q[i] \in D /\ place[q[i]] = i
  BY <1>14 DEF Surjection
<1> HIDE DEF q
<1>16. q \in [D -> D]
  BY <1>15 DEF q
<1>17. q \in Bijection(D, D)
  <2>1. \A i, j \in D : q[i] = q[j] => i = j
    BY <1>15
  <2>2. \A k \in D : q[place[k]] = k
    BY <1>10, <1>12, <1>15
  <2>3. \A k \in D : \E i \in D : q[i] = k
    BY <1>10, <2>2
  <2> QED
    BY <1>16, <2>1, <2>3 DEF Bijection, Injection, Surjection, IsInjective
<1>18. ASSUME NEW i \in D, NEW j \in D, i < j PROVE le_(q[i], q[j])
  <2>1. q[i] \in D /\ q[j] \in D /\ place[q[i]] = i /\ place[q[j]] = j
    BY <1>15
  <2>2. CASE ~ le_(q[i], q[j])
    <3>1. place[q[j]] < place[q[i]]
      BY <1>6, <1>9, <2>1, <2>2
    <3> QED
      BY <1>18, <2>1, <3>1 DEF D
  <2> QED
    BY <2>2
<1> QED
  BY <1>17, <1>18 DEF D, le_

(* Values that come in order, up to v.                                     *)
UpTo(m, s, le, v) == {k \in 1 .. m : <<s[k], v>> \in le}

(* Of two that are in order, with as many values up to each, neither is    *)
(* ahead.                                                                  *)
LEMMA NotAhead ==
    ASSUME NEW R, NEW le, Ordered(R, le), NEW m \in Nat, NEW s, NEW t,
           \A i \in 1 .. m : s[i] \in R /\ t[i] \in R,
           Ascending(m, s, le), Ascending(m, t, le),
           \A v \in R : Cardinality(UpTo(m, s, le, v)) = Cardinality(UpTo(m, t, le, v)),
           NEW i \in 1 .. m
    PROVE  <<t[i], s[i]>> \in le
<1> SUFFICES ASSUME <<t[i], s[i]>> \notin le PROVE FALSE
  OBVIOUS
<1> DEFINE A == UpTo(m, s, le, s[i])
           B == UpTo(m, t, le, s[i])
<1>1. /\ IsFiniteSet(1 .. m)
      /\ IsFiniteSet(1 .. i) /\ Cardinality(1 .. i) = i
      /\ IsFiniteSet(1 .. i - 1) /\ Cardinality(1 .. i - 1) = i - 1
  <2>1. IsFiniteSet(1 .. m)
    BY FS_Interval
  <2>2. IsFiniteSet(1 .. i) /\ Cardinality(1 .. i) = i
    BY FS_Interval
  <2>3. i - 1 \in Int /\ (1 > i - 1 => i - 1 = 0)
    OBVIOUS
  <2>4. IsFiniteSet(1 .. i - 1) /\ Cardinality(1 .. i - 1) = i - 1
    BY <2>3, FS_Interval
  <2> QED
    BY <2>1, <2>2, <2>4
<1>2. 1 .. i \subseteq A
  <2> SUFFICES ASSUME NEW k \in 1 .. i PROVE <<s[k], s[i]>> \in le
    BY DEF UpTo
  <2>1. k \in 1 .. m /\ (k < i \/ k = i)
    OBVIOUS
  <2> QED
    BY <2>1 DEF Ascending, Ordered
<1>3. B \subseteq 1 .. i - 1
  <2> SUFFICES ASSUME NEW k \in 1 .. m, <<t[k], s[i]>> \in le, k >= i PROVE FALSE
    BY DEF UpTo
  <2>1. <<t[i], t[k]>> \in le
    BY DEF Ascending, Ordered
  <2>2. <<t[i], s[i]>> \in le
    BY <2>1 DEF Ordered
  <2> QED
    BY <2>2
<1>4. IsFiniteSet(A) /\ Cardinality(A) \in Nat
  BY <1>1, FS_Subset, FS_CardinalityType DEF UpTo
<1>5. i <= Cardinality(A)
  <2> HIDE DEF A
  <2> QED
    BY <1>1, <1>2, <1>4, FS_Subset
<1>6. Cardinality(B) <= i - 1
  <2> HIDE DEF B
  <2>1. Cardinality(B) <= Cardinality(1 .. i - 1)
    BY <1>1, <1>3, FS_Subset
  <2> QED
    BY <1>1, <2>1
<1>7. Cardinality(A) = Cardinality(B)
  OBVIOUS
<1> HIDE DEF A, B
<1> QED
  BY <1>4, <1>5, <1>6, <1>7

(* A rearrangement has as many of anything.                                *)
LEMMA Recounted ==
    ASSUME NEW D, IsFiniteSet(D), NEW q \in Bijection(D, D), NEW A \in SUBSET D, NEW B \in SUBSET D,
           \A k \in D : k \in B <=> q[k] \in A
    PROVE  Cardinality(B) = Cardinality(A)
<1> DEFINE h == [k \in B |-> q[k]]
<1>1. /\ \A x \in D : q[x] \in D
      /\ \A x, y \in D : q[x] = q[y] => x = y
      /\ \A y \in D : \E x \in D : q[x] = y
  BY DEF Bijection, Injection, Surjection, IsInjective
<1>2. h \in Bijection(B, A)
  <2>1. \A x \in B : h[x] = q[x] /\ q[x] \in A
    OBVIOUS
  <2>2. h \in [B -> A]
    BY <2>1
  <2>3. \A x, y \in B : h[x] = h[y] => x = y
    BY <1>1, <2>1
  <2>4. \A y \in A : \E x \in B : h[x] = y
    BY <1>1, <2>1
  <2> HIDE DEF h
  <2> QED
    BY <2>2, <2>3, <2>4 DEF Bijection, Injection, Surjection, IsInjective
<1>3. IsFiniteSet(B)
  BY FS_Subset
<1> HIDE DEF h
<1>4. ExistsBijection(B, A)
  BY <1>2 DEF ExistsBijection
<1> QED
  BY <1>3, <1>4, FS_Bijection

(* Sorting has one outcome only: what is in order, rearranged and still in *)
(* order, is the same, if no two values may come in either order.          *)
LEMMA SortedOnce ==
    ASSUME NEW R, NEW le, Linear(R, le), NEW m \in Nat, NEW s, NEW t, \A i \in 1 .. m : s[i] \in R,
           NEW q \in Bijection(1 .. m, 1 .. m), \A i \in 1 .. m : t[i] = s[q[i]],
           Ascending(m, s, le), Ascending(m, t, le)
    PROVE  \A i \in 1 .. m : t[i] = s[i]
<1>0. Ordered(R, le) /\ \A u, v \in R : <<u, v>> \in le /\ <<v, u>> \in le => u = v
  BY DEF Linear
<1>1. \A k \in 1 .. m : q[k] \in 1 .. m
  BY DEF Bijection, Injection
<1>2. \A k \in 1 .. m : t[k] \in R
  BY <1>1
<1>3. ASSUME NEW v \in R PROVE Cardinality(UpTo(m, t, le, v)) = Cardinality(UpTo(m, s, le, v))
  <2>1. PICK A : A = UpTo(m, s, le, v)
    OBVIOUS
  <2>2. PICK B : B = UpTo(m, t, le, v)
    OBVIOUS
  <2>3. A \in SUBSET (1 .. m) /\ B \in SUBSET (1 .. m)
    BY <2>1, <2>2 DEF UpTo
  <2>4. \A k \in 1 .. m : k \in B <=> q[k] \in A
    BY <1>1, <2>1, <2>2 DEF UpTo
  <2>5. PICK D : D = 1 .. m
    OBVIOUS
  <2>6. Cardinality(B) = Cardinality(A)
    <3>1. IsFiniteSet(D)
      BY <2>5, FS_Interval
    <3>2. /\ q \in Bijection(D, D) /\ A \in SUBSET D /\ B \in SUBSET D
          /\ \A k \in D : k \in B <=> q[k] \in A
      BY <2>3, <2>4, <2>5
    <3> QED
      BY <3>1, <3>2, Recounted
  <2> QED
    BY <2>1, <2>2, <2>6
<1>4. ASSUME NEW i \in 1 .. m PROVE <<t[i], s[i]>> \in le
  BY <1>0, <1>2, <1>3, NotAhead
<1>5. ASSUME NEW i \in 1 .. m PROVE <<s[i], t[i]>> \in le
  BY <1>0, <1>2, <1>3, NotAhead
<1> QED
  BY <1>0, <1>2, <1>4, <1>5

=============================================================================
