---------------------------- MODULE GraphSearch ----------------------------
(***************************************************************************)
(* What a crawl promises, without processes, batches, quotas or failures:  *)
(* a search of the web from the seeds.  A page that is found gets a level, *)
(* one more than the page that led to it, and keeps it.  A page is done    *)
(* only when every link of an answer that it gave has been found, once and *)
(* for all; pages deeper than MaxLevel are found and never expanded.       *)
(*                                                                         *)
(* The search promises neither the shortest distance, for the level is     *)
(* that of the first page to lead there, nor that it goes on.              *)
(***************************************************************************)
EXTENDS Naturals

CONSTANTS
    Nodes,
    Roots,     \* where the search starts
    Edges,     \* Edges[n]: the sets of links that n may be seen to have
    MaxLevel   \* the deepest level that is expanded

VARIABLES
    found,     \* the nodes found so far
    level,     \* their levels, 0 for a node not found
    done       \* the nodes expanded for good

search == <<found, level, done>>

Init ==
    /\ found = {}
    /\ level = [n \in Nodes |-> 0]
    /\ done = {}

(* The new nodes ns are found at level d.                                  *)
Find(ns, d) ==
    /\ found' = found \cup ns
    /\ level' = [n \in Nodes |-> IF n \in ns \ found THEN d ELSE level[n]]
    /\ UNCHANGED done

Pending(n) == n \in found \ done /\ level[n] <= MaxLevel

(* The search starts, or starts again on what it has found.                *)
Begin == Find(Roots, 0)

Discover(n) ==
    /\ Pending(n)
    /\ \E ns \in Edges[n] : Find(ns, level[n] + 1)

Complete(n) ==
    /\ Pending(n)
    /\ \E ns \in Edges[n] : ns \subseteq found
    /\ done' = done \cup {n}
    /\ UNCHANGED <<found, level>>

Next == Begin \/ \E n \in Nodes : Discover(n) \/ Complete(n)

Spec == Init /\ [][Next]_search

=============================================================================
