----------------------------- MODULE MCOrigins -----------------------------
(***************************************************************************)
(* Small instances of Origins.                                             *)
(***************************************************************************)
EXTENDS Origins

OneSite == [t \in Tasks |-> "a"]

TwoSites == [t \in Tasks |-> IF t = "t4" THEN "b" ELSE "a"]

(* A robots.txt that cannot be loaded, one that asks for less and one that *)
(* asks for more than the default, which also disallows a page.            *)
SomeRobots == [s \in Sites |->
    IF s = "a"
    THEN {NoRules, [delay |-> 1, disallow |-> {}], [delay |-> 3, disallow |-> {"t3"}]}
    ELSE {NoRules}]

NoRobots == [s \in Sites |-> {NoRules}]

=============================================================================
