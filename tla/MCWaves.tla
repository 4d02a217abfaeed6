------------------------------ MODULE MCWaves -------------------------------
(***************************************************************************)
(* Three commands at a time, on two waves and three pages.                 *)
(***************************************************************************)
EXTENDS Waves

CONSTANTS a, b, x, w1, w2

SomeLinks == (a :> {b, x}) @@ (b :> {a, x}) @@ (x :> {})

(* The canonical form of b is x.                                           *)
SomeAhref == (a :> {b, x}) @@ (b :> {a}) @@ (x :> {})

SomeSeeds == (w1 :> {a}) @@ (w2 :> {x})

Run(w) == [verb |-> "run", wave |-> w, ranks |-> FALSE]
RunRanked(w) == [verb |-> "run", wave |-> w, ranks |-> TRUE]
Rm(w) == [verb |-> "rm", wave |-> w, ranks |-> FALSE]
Rank(w) == [verb |-> "page-rank", wave |-> w, ranks |-> TRUE]

SomeScenarios ==
    {<<Run(w1), Run(w2), Rm(w1)>>,
     <<Run(w1), Run(w1), Rm(w1)>>,
     <<RunRanked(w1), Rank(w1), Rm(w1)>>,
     <<RunRanked(w1), RunRanked(w1), Rank(w1)>>,
     <<RunRanked(w2), Rank(w1), Rm(w2)>>,
     <<Run(w2), Rm(w1), Rm(w2)>>}

=============================================================================
