------------------------------ MODULE PageRank ------------------------------
(***************************************************************************)
(* The power iteration of page_rank.rs, on the pages of a finite list of   *)
(* edges.                                                                  *)
(*                                                                         *)
(* Ranks are exact here: after k iterations the rank of a page is its      *)
(* number here divided by Whole(n, k).  The code's f32 round them, and     *)
(* neither that nor the order in which its threads add pieces is modelled. *)
(***************************************************************************)
EXTENDS Naturals, Sequences, SequencesExt

CONSTANTS
    Stride,         \* 2048 in the code, the side of a tile
    Iterations      \* 8 in the code

ASSUME PageRankAssumption == Stride \in Nat \ {0} /\ Iterations \in Nat

(* A common multiple of all numbers of links of n pages.                   *)
Multiple(n) ==
    LET product[k \in 0 .. n] == IF k = 0 THEN 1 ELSE k * product[k - 1]
    IN  product[n]

(* What one iteration multiplies the denominator by.                       *)
Scale(n) == 20 * Multiple(n) * n

Whole(n, k) ==
    LET whole[i \in 0 .. k] == IF i = 0 THEN n ELSE Scale(n) * whole[i - 1]
    IN  whole[k]

-----------------------------------------------------------------------------
Remember(known, node) == IF Contains(known, node) THEN known ELSE Append(known, node)

(* The states of the chain: nodes in the order they come first in edges.   *)
States(edges) ==
    LET known[k \in 0 .. Len(edges)] ==
            IF k = 0 THEN << >> ELSE Remember(Remember(known[k - 1], edges[k][1]), edges[k][2])
    IN  known[Len(edges)]

IdFor(states, node) == (CHOOSE i \in DOMAIN states : states[i] = node) - 1

(* Variant: the transitions stay in the order of the edges.                *)
AsRead(list) == list

(* Those from the same node come in any order.                             *)
SortedByFrom(list) ==
    LET order == CHOOSE order \in Bijection(DOMAIN list, DOMAIN list) :
            \A i, j \in DOMAIN list : i < j => list[order[i]][1] <= list[order[j]][1]
    IN  [i \in DOMAIN list |-> list[order[i]]]

Transition(edges) ==
    LET states == States(edges)
    IN  SortedByFrom([i \in DOMAIN edges |->
            <<IdFor(states, edges[i][1]), IdFor(states, edges[i][2])>>])

(* The transitions that are taken to begin at a node: all between the      *)
(* first one and the last one that do.                                     *)
OffsetLength(transition, from) ==
    {k \in DOMAIN transition : \E first, last \in DOMAIN transition :
        /\ transition[first][1] = from /\ transition[last][1] = from
        /\ first <= k /\ k <= last}

StrideOf(n, i) == {k \in 0 .. n - 1 : i * Stride <= k /\ k < (i + 1) * Stride}

NStrides(n) == IF n % Stride = 0 THEN n \div Stride ELSE n \div Stride + 1

Share(transition, n, state, from) ==
    (Multiple(n) * state[from]) \div Cardinality(OffsetLength(transition, from))

(* The piece at a column of the tile of from-states i: the shares that     *)
(* their transitions carry to it.  The code asserts of each of these that  *)
(* it begins at the state it is taken for.                                 *)
Tile(transition, n, state, i, column) ==
    LET carried == UNION {OffsetLength(transition, from) : from \in StrideOf(n, i)}
    IN  SumFunctionOnSet([t \in DOMAIN transition |-> Share(transition, n, state, transition[t][1])],
                         {t \in carried : transition[t][2] = column})

Strides(n) == 0 .. NStrides(n) - 1

Arrived(transition, n, state, column) ==
    SumFunctionOnSet([i \in Strides(n) |-> Tile(transition, n, state, i, column)], Strides(n))

LostJuice(transition, state) ==
    SumFunctionOnSet(state, {i \in DOMAIN state : OffsetLength(transition, i) = {}})

(* One iteration, with whole the denominator of state.  A column that no   *)
(* tile covers keeps an even share.                                        *)
Iterate(transition, n, state, whole) ==
    LET restart == Multiple(n) * (3 * whole + 17 * LostJuice(transition, state))
    IN  [column \in 0 .. n - 1 |->
            IF \E j \in Strides(n) : column \in StrideOf(n, j)
            THEN 17 * n * Arrived(transition, n, state, column) + restart
            ELSE Scale(n) * (whole \div n)]

Power(transition, n) ==
    LET state[k \in 0 .. Iterations] ==
            IF k = 0 THEN [i \in 0 .. n - 1 |-> 1]
            ELSE Iterate(transition, n, state[k - 1], Whole(n, k - 1))
    IN  state

(* The pages with their ranks, in the order of the states.                 *)
PowerIteration(edges) ==
    LET states == States(edges)
        final == Power(Transition(edges), Len(states))[Iterations]
    IN  [i \in DOMAIN states |-> <<states[i], final[i - 1]>>]

-----------------------------------------------------------------------------
(* What it is to compute: a surfer who follows one of the links of a page  *)
(* with probability 0.85, and otherwise, or where there is none, goes to   *)
(* any page.                                                               *)
PagesOf(edges) == UNION {{e[1], e[2]} : e \in edges}

Out(edges, p) == {e \in edges : e[1] = p}

Surf(edges, rank, whole) ==
    LET n == Cardinality(PagesOf(edges))
        follows == [e \in edges |-> (Multiple(n) * rank[e[1]]) \div Cardinality(Out(edges, e[1]))]
        lost == SumFunctionOnSet(rank, {p \in PagesOf(edges) : Out(edges, p) = {}})
    IN  [p \in PagesOf(edges) |->
            17 * n * SumFunctionOnSet(follows, {e \in edges : e[2] = p})
            + Multiple(n) * (3 * whole + 17 * lost)]

Surfed(edges) ==
    LET n == Cardinality(PagesOf(edges))
        rank[k \in 0 .. Iterations] ==
            IF k = 0 THEN [p \in PagesOf(edges) |-> 1] ELSE Surf(edges, rank[k - 1], Whole(n, k - 1))
    IN  rank

RanksOf(edges) == Surfed(edges)[Iterations]

=============================================================================
