--------------------------- MODULE RemoteWorkers ----------------------------
(***************************************************************************)
(* Workers on other machines (server/mod.rs, server/rpc.rs): the master's  *)
(* handlers, which call a server over a connection and try again, and the  *)
(* server's handlers, which share one table of workers under a RwLock.     *)
(*                                                                         *)
(* The master makes one call at a time.  A call that it gives up goes on   *)
(* in the server until the server drops it, at any of its awaits.  A call  *)
(* is named after what it is for and which try it is; the random id of a   *)
(* remote worker after the worker_id that it was built for.                *)
(***************************************************************************)
EXTENDS Naturals, FiniteSets, SequencesExt

CONSTANTS
    NWorkers,       \* profile.workers
    NServers,       \* the length of the pool
    Jobs,           \* what the master has to send
    Chosen,         \* Chosen[j]: the worker of the origin of j
    MaxRetries,
    Trusting,       \* the servers that have the token of the master
    Capacity,       \* of the channel of a worker
    NoCall

Workers == 0 .. NWorkers - 1

Servers == 0 .. NServers - 1

Calls == [op : {"build"}, who : Workers, try : {1}]
            \cup [op : {"send"}, who : Jobs, try : 1 .. MaxRetries]
            \cup [op : {"terminate"}, who : Workers, try : 1 .. MaxRetries]

ASSUME PoolAssumption ==
    /\ NWorkers \in Nat
    /\ NServers \in Nat \ {0}
    /\ Trusting \subseteq Servers

ASSUME JobsAssumption ==
    /\ Chosen \in [Jobs -> Workers]
    /\ MaxRetries \in Nat
    /\ Capacity \in Nat \ {0}
    /\ NoCall \notin Calls

VARIABLES
    phase,          \* what CrawlMaster::start is at
    call,           \* the call whose answer the master awaits
    built,          \* what it knows of the build of a worker,
    told,           \* of a job,
    ended,          \* and of the termination of a worker
    serving,        \* serving[s]: a server that stops is not connected to again
    at,             \* how far each call is in its server
    answer,         \* the answer to the call of the master, once it is sent
    lock,           \* the RwLock of each server: who has it or waits, in order
    table,          \* the workers in the table of their server
    worker,         \* the thread of each worker
    chan,           \* how many jobs its channel holds
    delivered       \* how many times each job entered the channel

master == <<phase, call, built, told, ended>>
serverData == <<lock, table, worker, chan, delivered>>
vars == <<master, serving, at, answer, serverData>>

ServerOf(w) == w % NServers

WorkerOf(c) == IF c.op = "send" THEN Chosen[c.who] ELSE c.who

Lock(c) == lock[ServerOf(WorkerOf(c))]

TypeOK ==
    /\ phase \in {"build", "send", "terminate", "end"}
    /\ call \in Calls \cup {NoCall}
    /\ built \in [Workers -> {"no", "ok", "failed"}]
    /\ told \in [Jobs -> {"unsent", "ok", "err"}]
    /\ ended \in [Workers -> {"no", "terminated", "dangling"}]
    /\ serving \in [Servers -> BOOLEAN]
    /\ at \in [Calls -> {"none", "request", "queued", "sending", "cancelling", "over"}]
    /\ answer \in {"none", "ok", "err"}
    /\ lock \in [Servers -> Seq(Calls)]
    /\ table \subseteq Workers
    /\ worker \in [Workers -> {"none", "up", "down"}]
    /\ chan \in [Workers -> 0 .. Capacity]
    /\ delivered \in [Jobs -> Nat]

Init ==
    /\ phase = "build"
    /\ call = NoCall
    /\ built = [w \in Workers |-> "no"]
    /\ told = [j \in Jobs |-> "unsent"]
    /\ ended = [w \in Workers |-> "no"]
    /\ serving = [s \in Servers |-> TRUE]
    /\ at = [c \in Calls |-> "none"]
    /\ answer = "none"
    /\ lock = [s \in Servers |-> << >>]
    /\ table = {}
    /\ worker = [w \in Workers |-> "none"]
    /\ chan = [w \in Workers |-> 0]
    /\ delivered = [j \in Jobs |-> 0]

-----------------------------------------------------------------------------
(* The master.                                                             *)

Request(c) ==
    /\ call' = c
    /\ at' = [at EXCEPT ![c] = "request"]
    /\ answer' = "none"

(* Variant: a loop that does not count.                                    *)
Endless(op, who, n) ==
    Request([op |-> op, who |-> who, try |-> 1]) /\ UNCHANGED <<phase, told, ended>>

(* The head of the while loop of send_task and terminate, at its n-th try. *)
Try(op, who, n) ==
    IF n <= MaxRetries
    THEN Request([op |-> op, who |-> who, try |-> n]) /\ UNCHANGED <<phase, told, ended>>
    ELSE /\ call' = NoCall
         /\ IF op = "send"
            THEN told' = [told EXCEPT ![who] = "err"] /\ phase' = "terminate" /\ UNCHANGED ended
            ELSE ended' = [ended EXCEPT ![who] = "dangling"] /\ UNCHANGED <<told, phase>>
         /\ UNCHANGED <<at, answer>>

(* The master builds its workers one after another, the failed ones too.   *)
Build(w) ==
    /\ phase = "build" /\ call = NoCall
    /\ built[w] = "no"
    /\ \A v \in 0 .. w - 1 : built[v] # "no"
    /\ Request([op |-> "build", who |-> w, try |-> 1])
    /\ UNCHANGED <<phase, built, told, ended, serving, serverData>>

(* One failed build and the run is over: the handlers of the others are    *)
(* dropped, which tells their server nothing.                              *)
AllBuilt ==
    /\ phase = "build"
    /\ \A w \in Workers : built[w] # "no"
    /\ phase' = IF \A w \in Workers : built[w] = "ok" THEN "send" ELSE "end"
    /\ UNCHANGED <<call, built, told, ended, serving, at, answer, serverData>>

Send(j) ==
    /\ phase = "send" /\ call = NoCall
    /\ told[j] = "unsent"
    /\ Try("send", j, 1)
    /\ UNCHANGED <<built, serving, serverData>>

(* There is nothing more to send, or a statement of the master failed.     *)
StopSending ==
    /\ phase = "send" /\ call = NoCall
    /\ phase' = "terminate"
    /\ UNCHANGED <<call, built, told, ended, serving, at, answer, serverData>>

Terminate(w) ==
    /\ phase = "terminate" /\ call = NoCall
    /\ ended[w] = "no"
    /\ \A v \in 0 .. w - 1 : ended[v] # "no"
    /\ Try("terminate", w, 1)
    /\ UNCHANGED <<built, serving, serverData>>

AllTerminated ==
    /\ phase = "terminate"
    /\ \A w \in Workers : ended[w] # "no"
    /\ phase' = "end"
    /\ UNCHANGED <<call, built, told, ended, serving, at, answer, serverData>>

(* A transport error: the deadline of the call, or a lost connection (of   *)
(* which every later call is given up too).  build_worker is not tried     *)
(* again.                                                                  *)
GiveUp ==
    /\ call # NoCall
    /\ IF call.op = "build"
       THEN /\ built' = [built EXCEPT ![call.who] = "failed"]
            /\ call' = NoCall
            /\ UNCHANGED <<phase, told, ended, at, answer>>
       ELSE Try(call.op, call.who, call.try + 1) /\ UNCHANGED built
    /\ UNCHANGED <<serving, serverData>>

(* Variant: the result within the answer is not looked at.                 *)
AnyAnswer == "ok"

Outcome == answer

(* An answer ends the call, whatever it says.                              *)
Answered ==
    /\ call # NoCall
    /\ answer # "none"
    /\ call' = NoCall
    /\ CASE call.op = "build" ->
                /\ built' = [built EXCEPT ![call.who] = IF Outcome = "ok" THEN "ok" ELSE "failed"]
                /\ UNCHANGED <<phase, told, ended>>
         [] call.op = "send" ->
                /\ told' = [told EXCEPT ![call.who] = Outcome]
                /\ phase' = IF Outcome = "ok" THEN phase ELSE "terminate"
                /\ UNCHANGED <<built, ended>>
         [] call.op = "terminate" ->
                /\ ended' = [ended EXCEPT ![call.who] = "terminated"]
                /\ UNCHANGED <<phase, built, told>>
    /\ UNCHANGED <<serving, at, answer, serverData>>

-----------------------------------------------------------------------------
(* The server.                                                             *)

(* A call queues once.                                                     *)
Without(queue, c) ==
    IF Contains(queue, c) THEN RemoveAt(queue, CHOOSE i \in DOMAIN queue : queue[i] = c) ELSE queue

Leaves(c) == [lock EXCEPT ![ServerOf(WorkerOf(c))] = Without(@, c)]

(* An answer that nobody awaits any more is lost.                          *)
Answer(c, r) ==
    /\ at' = [at EXCEPT ![c] = "over"]
    /\ answer' = IF c = call THEN r ELSE answer

(* The token is compared, build_worker starts the thread of the worker,    *)
(* and all queue for the table.                                            *)
Receive(c) ==
    /\ at[c] = "request"
    /\ serving[ServerOf(WorkerOf(c))]
    /\ IF ServerOf(WorkerOf(c)) \in Trusting
       THEN /\ lock' = [lock EXCEPT ![ServerOf(WorkerOf(c))] = Append(@, c)]
            /\ at' = [at EXCEPT ![c] = "queued"]
            /\ worker' = IF c.op = "build" THEN [worker EXCEPT ![c.who] = "up"] ELSE worker
            /\ UNCHANGED answer
       ELSE Answer(c, "err") /\ UNCHANGED <<lock, worker>>
    /\ UNCHANGED <<master, serving, table, chan, delivered>>

(* Variant: no lock.                                                       *)
AlwaysGranted(c) == \E i \in DOMAIN Lock(c) : Lock(c)[i] = c

(* The lock of tokio is fair: a reader does not pass a writer that waits.  *)
Granted(c) ==
    \E i \in DOMAIN Lock(c) :
        /\ Lock(c)[i] = c
        /\ i = 1 \/ \A k \in 1 .. i : Lock(c)[k].op = "send"

InsertWorker(c) ==
    /\ c.op = "build" /\ at[c] = "queued" /\ Granted(c)
    /\ table' = table \cup {c.who}
    /\ lock' = Leaves(c)
    /\ Answer(c, "ok")
    /\ UNCHANGED <<master, serving, worker, chan, delivered>>

(* The guard of the if let lives until its end: a call that has found its  *)
(* worker keeps the read lock while it waits for room in the channel.      *)
Find(c) ==
    /\ c.op = "send" /\ at[c] = "queued" /\ Granted(c)
    /\ IF WorkerOf(c) \in table
       THEN at' = [at EXCEPT ![c] = "sending"] /\ UNCHANGED <<lock, answer>>
       ELSE lock' = Leaves(c) /\ Answer(c, "err")
    /\ UNCHANGED <<master, serving, table, worker, chan, delivered>>

(* Variant: one too many.                                                  *)
HasOneMore(w) == chan[w] <= Capacity

HasRoom(w) == chan[w] < Capacity

Deliver(c) ==
    /\ at[c] = "sending"
    /\ lock' = Leaves(c)
    /\ IF worker[WorkerOf(c)] = "up"
       THEN /\ HasRoom(WorkerOf(c))
            /\ chan' = [chan EXCEPT ![WorkerOf(c)] = @ + 1]
            /\ delivered' = [delivered EXCEPT ![c.who] = @ + 1]
            /\ Answer(c, "ok")
       ELSE Answer(c, "err") /\ UNCHANGED <<chan, delivered>>
    /\ UNCHANGED <<master, serving, table, worker>>

RemoveWorker(c) ==
    /\ c.op = "terminate" /\ at[c] = "queued" /\ Granted(c)
    /\ lock' = Leaves(c)
    /\ IF c.who \in table
       THEN /\ table' = table \ {c.who}
            /\ at' = [at EXCEPT ![c] = "cancelling"]
            /\ UNCHANGED answer
       ELSE Answer(c, "err") /\ UNCHANGED table
    /\ UNCHANGED <<master, serving, worker, chan, delivered>>

Stops(w) ==
    /\ worker' = [worker EXCEPT ![w] = IF @ = "up" THEN "down" ELSE @]
    /\ chan' = [chan EXCEPT ![w] = 0]

(* Canceler::cancel waits for the thread, whose jobs are lost.             *)
Cancelled(c) ==
    /\ at[c] = "cancelling"
    /\ Stops(c.who)
    /\ Answer(c, "ok")
    /\ UNCHANGED <<master, serving, lock, table, delivered>>

(* Variant: a dropped terminate leaves its worker running.                 *)
OnlyBuild(c) == c.op = "build" /\ at[c] = "queued"

(* A handler that goes with its call stops its worker.                     *)
OwnsWorker(c) == (c.op = "build" /\ at[c] = "queued") \/ at[c] = "cancelling"

(* Variant: a send has no deadline.                                        *)
NeverSends(c) == at[c] \in {"request", "queued", "cancelling"}

Droppable(c) == at[c] \in {"request", "queued", "sending", "cancelling"}

(* The server drops a call that the master gave up.                        *)
Drop(c) ==
    /\ c # call
    /\ Droppable(c)
    /\ at' = [at EXCEPT ![c] = "over"]
    /\ lock' = Leaves(c)
    /\ IF OwnsWorker(c) THEN Stops(c.who) ELSE UNCHANGED <<worker, chan>>
    /\ UNCHANGED <<master, serving, answer, table, delivered>>

(* The server stops, with its workers, its table and its calls.            *)
Crash(s) ==
    LET gone == {w \in Workers : ServerOf(w) = s} IN
    /\ serving[s]
    /\ serving' = [serving EXCEPT ![s] = FALSE]
    /\ at' = [c \in Calls |-> IF at[c] # "none" /\ WorkerOf(c) \in gone THEN "over" ELSE at[c]]
    /\ lock' = [lock EXCEPT ![s] = << >>]
    /\ table' = table \ gone
    /\ worker' = [w \in Workers |-> IF w \in gone /\ worker[w] = "up" THEN "down" ELSE worker[w]]
    /\ chan' = [w \in Workers |-> IF w \in gone THEN 0 ELSE chan[w]]
    /\ UNCHANGED <<master, answer, delivered>>

(* A worker takes a job from its channel.                                  *)
TakeJob(w) ==
    /\ worker[w] = "up" /\ chan[w] > 0
    /\ chan' = [chan EXCEPT ![w] = @ - 1]
    /\ UNCHANGED <<master, serving, at, answer, lock, table, worker, delivered>>

(* Its backends cannot be built: the thread ends and drops the channel.    *)
WorkerDies(w) ==
    /\ worker[w] = "up"
    /\ Stops(w)
    /\ UNCHANGED <<master, serving, at, answer, lock, table, delivered>>

-----------------------------------------------------------------------------
MasterStep ==
    \/ \E w \in Workers : Build(w) \/ Terminate(w)
    \/ \E j \in Jobs : Send(j)
    \/ AllBuilt \/ StopSending \/ AllTerminated \/ GiveUp \/ Answered

ServerStep(c) ==
    Receive(c) \/ InsertWorker(c) \/ Find(c) \/ Deliver(c) \/ RemoveWorker(c) \/ Cancelled(c)

Next ==
    \/ MasterStep
    \/ \E c \in Calls : ServerStep(c) \/ Drop(c)
    \/ \E w \in Workers : TakeJob(w) \/ WorkerDies(w)
    \/ \E s \in Servers : Crash(s)

Spec == Init /\ [][Next]_vars

(* The deadline of a call passes on both sides; calls are finitely many,   *)
(* so that each is dropped.  Nothing is assumed of the network, of the     *)
(* rest of the server, or of the workers.                                  *)
Fairness == WF_vars(MasterStep) /\ WF_vars(\E c \in Calls : Drop(c))

FairSpec == Spec /\ Fairness

-----------------------------------------------------------------------------
(* Correctness.                                                            *)

(* A call that waits for room in a channel keeps its worker in the table   *)
(* (the read guard, against the write guard of terminate).                 *)
SendsHoldTheirWorker == \A c \in Calls : at[c] = "sending" => WorkerOf(c) \in table

BeingCancelled(w) == \E c \in Calls : c.who = w /\ at[c] = "cancelling"

(* A worker that the master has terminated is out of the table, so that no *)
(* later try finds it; if its thread still runs, it is being cancelled by  *)
(* a call that the master gave up.  And a run that has ended leaves no     *)
(* other worker running, but where a build failed or was not answered, or  *)
(* no try to terminate the worker was.                                     *)
WorkersAreStopped ==
    /\ \A w \in Workers :
        ended[w] = "terminated" => w \notin table /\ (worker[w] = "up" => BeingCancelled(w))
    /\ phase = "end" =>
        \/ \E w \in Workers : built[w] = "failed"
        \/ \A w \in Workers : worker[w] = "up" => ended[w] = "dangling" \/ BeingCancelled(w)

(* The handlers deliver as the master may expect: nothing before it asks   *)
(* or after the worker stopped, at most once a try, and Ok says that the   *)
(* job is there.                                                           *)
Asked(j) == call # NoCall /\ call.op = "send" /\ call.who = j

D == INSTANCE Delivery WITH
        told <- [j \in Jobs |-> IF Asked(j) THEN "asked" ELSE told[j]]

IsDelivery == D!Spec

(* Every run ends, also when a worker takes no job any more or the network *)
(* is gone.                                                                *)
RunEnds == <>(phase = "end")

(* No call keeps the table for ever: a full channel stops the others, and  *)
(* terminate with them, for as long as a deadline.                         *)
LockIsFreed == \A s \in Servers : lock[s] # << >> ~> lock[s] = << >>

=============================================================================
