------------------------------ MODULE Origins ------------------------------
(***************************************************************************)
(* How one worker keeps its distance (crawler/worker/origins.rs): the      *)
(* Origin values that its tasks share, and the wait of a task for its turn *)
(* to download a page.                                                     *)
(*                                                                         *)
(* The worker is one thread, where only an await lets another task run: a  *)
(* task is interrupted while it loads robots.txt, sleeps and downloads.    *)
(* An Origin value is named after the task that loaded it.                 *)
(***************************************************************************)
EXTENDS Integers, FiniteSets

CONSTANTS
    Tasks,          \* the pages that the worker is sent, one task each
    Sites,          \* the origins of their URLs
    Site,           \* Site[t]
    Robots,         \* Robots[s]: what loading the robots.txt of s may give
    DefaultDelay,   \* 1 / max_hits_per_sec
    NoOne,          \* no task
    MaxTasks,       \* profile.max_tasks_per_worker
    Horizon         \* bound: time passes beyond it only for a task that sleeps

(* What is left of a robots.txt: a delay, 0 where it asks for none or could *)
(* not be loaded, and the pages that it disallows.                         *)
Rules == [delay : Nat, disallow : SUBSET Tasks]

ASSUME SitesAssumption ==
    /\ IsFiniteSet(Tasks)
    /\ NoOne \notin Tasks
    /\ Site \in [Tasks -> Sites]
    /\ Robots \in [Sites -> SUBSET Rules]

ASSUME LimitAssumption ==
    /\ DefaultDelay \in Nat
    /\ MaxTasks \in Nat \ {0}
    /\ Horizon \in Nat

NoTime == -1

VARIABLES
    now,
    origins,       \* the map of Origins, from sites to Origin values
    rules,         \* the robots.txt of each Origin value
    lastInstant,   \* its last_instant
    pc,            \* the state of each task
    origin,        \* the Origin value that it was given
    slot,          \* when block() said that it may go
    hit            \* when its request was sent

vars == <<now, origins, rules, lastInstant, pc, origin, slot, hit>>

NoRules == [delay |-> 0, disallow |-> {}]

TypeOK ==
    /\ now \in Nat
    /\ origins \in [Sites -> Tasks \cup {NoOne}]
    /\ rules \in [Tasks -> Rules]
    /\ lastInstant \in [Tasks -> Nat]
    /\ pc \in [Tasks -> {"idle", "loading", "sleeping", "download", "done"}]
    /\ origin \in [Tasks -> Tasks \cup {NoOne}]
    /\ slot \in [Tasks -> Nat \cup {NoTime}]
    /\ hit \in [Tasks -> Nat \cup {NoTime}]

Init ==
    /\ now = 0
    /\ origins = [s \in Sites |-> NoOne]
    /\ rules = [t \in Tasks |-> NoRules]
    /\ lastInstant = [t \in Tasks |-> 0]
    /\ pc = [t \in Tasks |-> "idle"]
    /\ origin = [t \in Tasks |-> NoOne]
    /\ slot = [t \in Tasks |-> NoTime]
    /\ hit = [t \in Tasks |-> NoTime]

-----------------------------------------------------------------------------
Running == {t \in Tasks : pc[t] \notin {"idle", "done"}}

(* Variant: every task loads the origin of its page.                       *)
NeverKnown(s) == FALSE

(* contains_key *)
Known(s) == origins[s] # NoOne

(* Variant: what robots.txt asks for replaces the default.                 *)
AskedDelay(r) == IF r.delay > 0 THEN r.delay ELSE DefaultDelay

(* f64::max *)
CrawlDelay(r) == IF r.delay > DefaultDelay THEN r.delay ELSE DefaultDelay

(* Variant: the next slot is counted from now, also where tasks wait.      *)
AfterNow(last, d) == now + d

(* Variant: the delay is taken off.                                        *)
Backwards(last, d) == IF last > now THEN last - d ELSE now - d

(* What block() makes of last_instant.                                     *)
NextInstant(last, d) == IF last > now THEN last + d ELSE now + d

(* allows(), then block() up to its sleep, without an await before it, for *)
(* a task t with Origin value o.  The value may be one that t has made     *)
(* just now, with the rules and the last_instant given.                    *)
Turn(t, o, r, last) ==
    /\ origin' = [origin EXCEPT ![t] = o]
    /\ IF t \in r.disallow
       THEN /\ pc' = [pc EXCEPT ![t] = "done"]
            /\ lastInstant' = [lastInstant EXCEPT ![o] = last]
            /\ UNCHANGED <<slot, hit>>
       ELSE /\ lastInstant' = [lastInstant EXCEPT ![o] = NextInstant(last, CrawlDelay(r))]
            /\ IF last > now
               THEN /\ slot' = [slot EXCEPT ![t] = last]
                    /\ pc' = [pc EXCEPT ![t] = "sleeping"]
                    /\ UNCHANGED hit
               ELSE /\ slot' = [slot EXCEPT ![t] = now]
                    /\ hit' = [hit EXCEPT ![t] = now]
                    /\ pc' = [pc EXCEPT ![t] = "download"]

(* get_origin_for_url on a site that the map has already.                  *)
Share(t) ==
    /\ pc[t] = "idle"
    /\ Cardinality(Running) < MaxTasks
    /\ Known(Site[t])
    /\ Turn(t, origins[Site[t]], rules[origins[Site[t]]], lastInstant[origins[Site[t]]])
    /\ UNCHANGED <<now, origins, rules>>

(* The map has no value for the site yet: load() waits for robots.txt.     *)
Load(t) ==
    /\ pc[t] = "idle"
    /\ Cardinality(Running) < MaxTasks
    /\ ~ Known(Site[t])
    /\ pc' = [pc EXCEPT ![t] = "loading"]
    /\ UNCHANGED <<now, origins, rules, lastInstant, origin, slot, hit>>

(* The value is put into the map, over whatever is there by now.           *)
Loaded(t) ==
    /\ pc[t] = "loading"
    /\ \E r \in Robots[Site[t]] :
        /\ rules' = [rules EXCEPT ![t] = r]
        /\ origins' = [origins EXCEPT ![Site[t]] = t]
        /\ Turn(t, t, r, now)
    /\ UNCHANGED now

(* Variant: a sleep that ends at its deadline or not at all.               *)
DueNow(t) == now = slot[t]

Due(t) == now >= slot[t]

(* A sleep ends at its deadline, or later when the thread was busy.        *)
Wake(t) ==
    /\ pc[t] = "sleeping"
    /\ Due(t)
    /\ hit' = [hit EXCEPT ![t] = now]
    /\ pc' = [pc EXCEPT ![t] = "download"]
    /\ UNCHANGED <<now, origins, rules, lastInstant, origin, slot>>

(* The download and what is stored of it.                                  *)
Finish(t) ==
    /\ pc[t] = "download"
    /\ pc' = [pc EXCEPT ![t] = "done"]
    /\ UNCHANGED <<now, origins, rules, lastInstant, origin, slot, hit>>

Tick ==
    /\ now < Horizon \/ \E t \in Tasks : pc[t] = "sleeping" /\ now < slot[t]
    /\ now' = now + 1
    /\ UNCHANGED <<origins, rules, lastInstant, pc, origin, slot, hit>>

TaskStep(t) == Share(t) \/ Load(t) \/ Loaded(t) \/ Wake(t) \/ Finish(t)

Next == Tick \/ \E t \in Tasks : TaskStep(t)

Spec == Init /\ [][Next]_vars

(* Time passes and the thread polls a task whose timer has fired.  Nothing *)
(* is assumed of a load: no timeout guards it.                             *)
Fairness == WF_vars(Tick) /\ \A t \in Tasks : WF_vars(Wake(t))

FairSpec == Spec /\ Fairness

-----------------------------------------------------------------------------
(* Correctness.                                                            *)

Values == {o \in Tasks : origin[o] = o}

SlotsOf(o) == {t \in Tasks : origin[t] = o /\ slot[t] # NoTime}

HitsOf(o) == {t \in SlotsOf(o) : hit[t] # NoTime}

(* The slots that an Origin value gives are the default delay apart and    *)
(* what its robots.txt asks for, and no request goes out before its slot,  *)
(* however many tasks wait and whenever they come.                         *)
Paced ==
    \A o \in Values :
        /\ \A t, u \in SlotsOf(o) :
            t # u =>
                \/ slot[t] + DefaultDelay <= slot[u] /\ slot[t] + rules[o].delay <= slot[u]
                \/ slot[u] + DefaultDelay <= slot[t] /\ slot[u] + rules[o].delay <= slot[t]
        /\ \A t \in HitsOf(o) : slot[t] <= hit[t]

(* From the slot of a task in S on, the requests of S are within a rate of *)
(* one in d.                                                               *)
Limited(S, d) ==
    \A t \in S : (Cardinality({u \in S : slot[u] >= slot[t]}) - 1) * d <= now - slot[t]

(* Each Origin value keeps the rate, also when timers fire late.           *)
EachIsLimited == \A o \in Values : Limited(HitsOf(o), DefaultDelay)

(* Tasks that load the same site at once each make a value of their own;   *)
(* there are never more of them than the worker runs tasks at once, so     *)
(* that a site sees at most MaxTasks times the rate.                       *)
ValuesOf(s) == {o \in Values : Site[o] = s}

FewValues == \A s \in Sites : Cardinality(ValuesOf(s)) <= MaxTasks

(* A task that waits for its turn gets it.                                 *)
EveryTurnComes == \A t \in Tasks : pc[t] = "sleeping" ~> pc[t] # "sleeping"

(* "crawling is limited by default to 2.5 hits per second per origin": the *)
(* requests to a site keep the rate, whatever Origin value they go by.     *)
LimitedPerOrigin ==
    \A s \in Sites :
        Limited({t \in Tasks : Site[t] = s /\ hit[t] # NoTime}, DefaultDelay)

=============================================================================
