------------------------------ MODULE Delivery ------------------------------
(***************************************************************************)
(* What the master may count on of its worker handlers, local or remote    *)
(* (trait WorkerHandler): a job reaches its worker only after the master   *)
(* asked for it and while the worker runs, at most MaxRetries times, and   *)
(* at least once when the master was told Ok.  Told Err, the master knows  *)
(* nothing of the job.                                                     *)
(***************************************************************************)
EXTENDS Naturals

CONSTANTS Workers, Jobs, Chosen, MaxRetries

VARIABLES
    worker,         \* worker[w]: "none", "up" or "down"
    told,           \* told[j]: what the master knows of the job
    delivered       \* how many times the job entered the queue of its worker

vars == <<worker, told, delivered>>

Init ==
    /\ worker = [w \in Workers |-> "none"]
    /\ told = [j \in Jobs |-> "unsent"]
    /\ delivered = [j \in Jobs |-> 0]

Start(w) ==
    /\ worker[w] = "none"
    /\ worker' = [worker EXCEPT ![w] = "up"]
    /\ UNCHANGED <<told, delivered>>

(* Workers stop alone, or together with their machine.                     *)
Stop(gone) ==
    /\ worker' = [w \in Workers |->
                    IF w \in gone /\ worker[w] = "up" THEN "down" ELSE worker[w]]
    /\ UNCHANGED <<told, delivered>>

Ask(j) ==
    /\ told[j] = "unsent"
    /\ told' = [told EXCEPT ![j] = "asked"]
    /\ UNCHANGED <<worker, delivered>>

Deliver(j) ==
    /\ told[j] # "unsent"
    /\ worker[Chosen[j]] = "up"
    /\ delivered[j] < MaxRetries
    /\ delivered' = [delivered EXCEPT ![j] = @ + 1]
    /\ UNCHANGED <<worker, told>>

Tell(j, r) ==
    /\ told[j] \in {"unsent", "asked"}
    /\ r = "ok" => delivered[j] > 0
    /\ told' = [told EXCEPT ![j] = r]
    /\ UNCHANGED <<worker, delivered>>

Next ==
    \/ \E w \in Workers : Start(w)
    \/ \E gone \in SUBSET Workers : Stop(gone)
    \/ \E j \in Jobs : Ask(j) \/ Deliver(j) \/ \E r \in {"ok", "err"} : Tell(j, r)

Spec == Init /\ [][Next]_vars

=============================================================================
