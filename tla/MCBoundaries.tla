---------------------------- MODULE MCBoundaries ----------------------------
(***************************************************************************)
(* What keeps pages out of a crawl, on small instances: the boundaries of  *)
(* directives, and robots.txt.  The two share no state; a behaviour is of  *)
(* one of them, while the other has ended without a result.                *)
(***************************************************************************)
EXTENDS MCDirectives, MCRobots

(* A load that has found no file, and so no pages.                         *)
NoDirectives ==
    /\ disk = [f \in {} |-> << >>]
    /\ modules = [n \in {} |-> << >>]
    /\ stack = << >> /\ phase = "failed"
    /\ queue = {} /\ visited = {}

(* A host of two labels that has been asked, and has no robots.txt.        *)
NoRobots ==
    /\ host = <<"b", "com">> /\ base = host
    /\ hops = 0 /\ asked = <<host>>
    /\ stage = "none" /\ text = << >>

BoundariesInit == (Init /\ NoRobots) \/ (RobotsInit /\ NoDirectives)

(* As RobotsNext; TLC need not try all responses on what has ended.        *)
Answer == stage = "ask" /\ RobotsNext

BoundariesNext ==
    \/ Next /\ UNCHANGED robotsVars
    \/ Answer /\ UNCHANGED directivesVars

BoundariesSpec ==
    /\ BoundariesInit
    /\ [][BoundariesNext]_<<directivesVars, robotsVars>>
    /\ WF_directivesVars(Load) /\ WF_robotsVars(Answer)

=============================================================================
