------------------------------- MODULE Crawl -------------------------------
(***************************************************************************)
(* A crawl of one wave by one process: the master (crawler/master.rs), its *)
(* workers (crawler/worker/mod.rs, one thread each), the channels between  *)
(* them, and the tables they share.  The process may crash or end at any   *)
(* point and be started again on the same wave, which it then resumes.     *)
(*                                                                         *)
(* The master takes open pages from the table in batches and sends each to *)
(* the worker that owns its origin; a worker crawls up to MaxTasks pages   *)
(* at once and writes what it finds in five separate SQL statements.  The  *)
(* master learns that work is finished only by polling the table.          *)
(***************************************************************************)
EXTENDS StatusTable, Integers, Sequences

CONSTANTS
    Seeds,       \* configuration.seeds()
    Web,         \* Web[p]: the answers that a download of p may give
    Disallowed,  \* the pages that the robots.txt of their origin disallows
    Workers,
    Route,       \* Route[p]: the worker that the hash of p's origin chooses
    Quota,       \* parameters.quota
    MaxQuotas,   \* the values of profile.max_quota a run may be given
    MaxDepth,    \* parameters.max_depth
    BatchSize,   \* profile.batch_size
    MaxTasks,    \* profile.max_tasks_per_worker
    Faults       \* what may fail: "crash", "worker", "statement"

Kinds == {"none", "page", "status", "redirect", "bad_location", "failed"}

(* What crawl() makes of a download.  "page" is Success, "status" is       *)
(* BadStatus, "redirect" and "bad_location" are Redirect with a location   *)
(* that checked_join accepts or refuses, "failed" is Error or TimedOut.    *)
(* The links are those that the boundaries let through; analyses tells     *)
(* whether the directives compute anything from this page.                 *)
Answer == [kind : Kinds, links : SUBSET Pages, analyses : BOOLEAN]

NoAnswer == [kind |-> "none", links |-> {}, analyses |-> FALSE]

ASSUME WebAssumption ==
    /\ Web \in [Pages -> SUBSET Answer]
    /\ \A p \in Pages : \A a \in Web[p] :
        /\ a.kind # "none"
        /\ a.kind \notin {"page", "redirect"} => a.links = {}
        /\ a.kind = "redirect" => \A x, y \in a.links : x = y

ASSUME WorkAssumption ==
    /\ Seeds \subseteq Pages
    /\ Disallowed \subseteq Pages
    /\ Route \in [Pages -> Workers]

ASSUME ProfileAssumption ==
    /\ Quota \in Nat
    /\ MaxQuotas \subseteq Nat
    /\ MaxDepth \in 0 .. 32766
    /\ BatchSize \in Nat \ {0}
    /\ MaxTasks \in Nat \ {0}
    /\ Faults \subseteq {"crash", "worker", "statement"}

VARIABLES
    mpc,         \* where the master is
    batch,       \* the jobs of the last fetch that are not sent yet
    nSent,       \* n_sent
    remaining,   \* remaining_quota
    willEnd,     \* will_crawl_end
    interrupted, \* is_interrupted
    outcome,     \* how the last run ended
    wpc,         \* the state of each worker thread
    chan,        \* the jobs in the channel of each worker
    tasks        \* the tasks that the workers are running

master == <<mpc, batch, nSent, remaining, willEnd, interrupted, outcome>>

workers == <<wpc, chan, tasks>>

vars == <<tables, master, workers>>

Job == [page : Pages, depth : Nat]

Steps == {"crawl", "analyze", "links", "names", "status", "close", "error"}

Task == [worker : Workers, page : Pages, depth : Nat, step : Steps, answer : Answer]

MasterStates == {"off", "seed_names", "seed_status", "reset", "fetch", "poll",
                 "send", "parked", "await", "terminate"}

Booting == {"seed_names", "seed_status", "reset"}

Outcomes == {"none", "pending", "empty", "done", "incomplete", "interrupted",
             "failed", "crashed"}

TypeOK ==
    /\ TablesTypeOK
    /\ mpc \in MasterStates
    /\ batch \subseteq Job
    /\ nSent \in Nat
    /\ remaining \in Nat
    /\ willEnd \in BOOLEAN
    /\ interrupted \in BOOLEAN
    /\ outcome \in Outcomes
    /\ wpc \in [Workers -> {"off", "starting", "up"}]
    /\ chan \in [Workers -> Seq(Job)]
    /\ tasks \subseteq Task

Init ==
    /\ TablesInit
    /\ mpc = "off"
    /\ batch = {}
    /\ nSent = 0
    /\ remaining = 0
    /\ willEnd = FALSE
    /\ interrupted = FALSE
    /\ outcome = "none"
    /\ wpc = [w \in Workers |-> "off"]
    /\ chan = [w \in Workers |-> <<>>]
    /\ tasks = {}

-----------------------------------------------------------------------------
(* Worker threads.  Dropping a handler, cancelling it and losing it to a   *)
(* panic all drop the receiver of its channel and every task at its await. *)

StopWorker(w) ==
    /\ wpc' = [wpc EXCEPT ![w] = "off"]
    /\ chan' = [chan EXCEPT ![w] = <<>>]
    /\ tasks' = {t \in tasks : t.worker # w}

StopAllWorkers ==
    /\ wpc' = [w \in Workers |-> "off"]
    /\ chan' = [w \in Workers |-> <<>>]
    /\ tasks' = {}

WorkerStart(w) ==
    /\ wpc[w] = "starting"
    /\ wpc' = [wpc EXCEPT ![w] = "up"]
    /\ UNCHANGED <<tables, master, chan, tasks>>

(* A backend that cannot be built, or a panic in a task, ends the thread;  *)
(* nobody is told.                                                         *)
WorkerDies(w) ==
    /\ "worker" \in Faults
    /\ wpc[w] # "off"
    /\ StopWorker(w)
    /\ UNCHANGED <<tables, master>>

(* for_each_concurrent takes from the channel while it has a free place.   *)
Dequeue(w) ==
    /\ wpc[w] = "up"
    /\ chan[w] # <<>>
    /\ Cardinality({t \in tasks : t.worker = w}) < MaxTasks
    /\ chan' = [chan EXCEPT ![w] = Tail(@)]
    /\ tasks' = tasks \cup
        {[worker |-> w, page |-> Head(chan[w]).page, depth |-> Head(chan[w]).depth,
          step |-> "crawl", answer |-> NoAnswer]}
    /\ UNCHANGED <<tables, master, wpc>>

-----------------------------------------------------------------------------
(* One task: crawl_task() up to the end of crawl(), then store(), one      *)
(* statement at a time.                                                    *)

Finished(t) == tasks' = tasks \ {t}

FirstStep(answer) ==
    CASE answer.kind = "page"   -> "analyze"
      [] answer.kind = "failed" -> "error"
      [] OTHER                  -> "links"

(* Variant: the row is closed before the rows it leads to are inserted.    *)
CloseEarly == [analyze |-> "links", links |-> "names", names |-> "close", status |-> "close"]

(* Variant: rows are inserted before their names, which are never.         *)
ForgetNames == [analyze |-> "links", links |-> "status", names |-> "status", status |-> "close"]

(* The order in which store() and ensure_explored() issue the statements.  *)
StepAfter == [analyze |-> "links", links |-> "names", names |-> "status", status |-> "close"]

(* Variant: the links of a page are as deep as the page.                   *)
SameDepth(d) == d

(* depth + 1 of store(); it fits the smallint column, by MaxDepth's type.  *)
LinkDepth(d) == d + 1

Advance(t) == tasks' = (tasks \ {t}) \cup {[t EXCEPT !.step = StepAfter[t.step]]}

(* Everything up to the answer touches no state of this module: the origin *)
(* is looked up, the task waits for its turn and downloads.  A disallowed  *)
(* page and a redirect to a bad location end the task with its row as it   *)
(* was.                                                                    *)
Download(t) ==
    /\ t.step = "crawl"
    /\ \/ t.page \in Disallowed /\ Finished(t)
       \/ /\ t.page \notin Disallowed
          /\ \E a \in Web[t.page] :
                IF a.kind = "bad_location"
                THEN Finished(t)
                ELSE tasks' = (tasks \ {t}) \cup
                        {[t EXCEPT !.step = FirstStep(a), !.answer = a]}
    /\ UNCHANGED <<tables, master, wpc, chan>>

StoreAnalyses(t) ==
    /\ t.step = "analyze"
    /\ IF t.answer.analyses
       THEN \/ EnsureAnalyzed(t.page) /\ Advance(t)
            \/ ~ CanAnalyze(t.page) /\ Finished(t) /\ UNCHANGED analyzed
       ELSE Advance(t) /\ UNCHANGED analyzed
    /\ UNCHANGED <<status, depth, names, linkage, master, wpc, chan>>

StoreLinks(t) ==
    /\ t.step = "links"
    /\ EnsureLinks(t.page, t.answer.links,
                   IF t.answer.kind = "redirect" THEN "redirect" ELSE "ahref")
    /\ Advance(t)
    /\ UNCHANGED <<status, depth, names, analyzed, master, wpc, chan>>

StoreNames(t) ==
    /\ t.step = "names"
    /\ EnsureNames(t.answer.links)
    /\ Advance(t)
    /\ UNCHANGED <<status, depth, linkage, analyzed, master, wpc, chan>>

StoreStatus(t) ==
    /\ t.step = "status"
    /\ EnsureStatus(t.answer.links, LinkDepth(t.depth))
    /\ Advance(t)
    /\ UNCHANGED <<names, linkage, analyzed, master, wpc, chan>>

StoreClosed(t) ==
    /\ t.step = "close"
    /\ EnsureClosed(t.page)
    /\ Finished(t)
    /\ UNCHANGED <<depth, names, linkage, analyzed, master, wpc, chan>>

StoreError(t) ==
    /\ t.step = "error"
    /\ EnsureError(t.page)
    /\ Finished(t)
    /\ UNCHANGED <<depth, names, linkage, analyzed, master, wpc, chan>>

(* A statement fails (a lost connection, a deadlock that the database      *)
(* breaks): the error is logged and the row of the page stays as it was.   *)
StatementFails(t) ==
    /\ "statement" \in Faults
    /\ t.step # "crawl"
    /\ Finished(t)
    /\ UNCHANGED <<tables, master, wpc, chan>>

TaskStep(t) ==
    \/ Download(t)
    \/ StoreAnalyses(t)
    \/ StoreLinks(t)
    \/ StoreNames(t)
    \/ StoreStatus(t)
    \/ StoreClosed(t)
    \/ StoreError(t)

-----------------------------------------------------------------------------
(* The master, CrawlMaster::start.                                         *)

Least(a, b) == IF a <= b THEN a ELSE b

(* Variant: an ordinary subtraction.                                       *)
PlainSub(a, b) == a - b

SaturatingSub(a, b) == IF a <= b THEN 0 ELSE a - b

(* The wave is opened, what it has consumed counted, the workers spawned.  *)
Start(maxQuota) ==
    /\ mpc = "off"
    /\ mpc' = "seed_names"
    /\ remaining' = SaturatingSub(Least(maxQuota, Quota), CountCrawled)
    /\ willEnd' = (Quota <= maxQuota)
    /\ nSent' = 0
    /\ interrupted' = FALSE
    /\ outcome' = "pending"
    /\ wpc' = [w \in Workers |-> "starting"]
    /\ UNCHANGED <<tables, batch, chan, tasks>>

SeedNames ==
    /\ mpc = "seed_names"
    /\ EnsureNames(Seeds)
    /\ mpc' = "seed_status"
    /\ UNCHANGED <<status, depth, linkage, analyzed, batch, nSent, remaining, willEnd,
                   interrupted, outcome, workers>>

SeedStatus ==
    /\ mpc = "seed_status"
    /\ EnsureStatus(Seeds, 0)
    /\ mpc' = "reset"
    /\ UNCHANGED <<names, linkage, analyzed, batch, nSent, remaining, willEnd,
                   interrupted, outcome, workers>>

(* With no quota left the run ends here and its handlers are dropped.      *)
ResetQueue ==
    /\ mpc = "reset"
    /\ ResetTaken
    /\ IF remaining = 0
       THEN mpc' = "off" /\ outcome' = "empty" /\ StopAllWorkers
       ELSE mpc' = "fetch" /\ UNCHANGED <<outcome, workers>>
    /\ UNCHANGED <<depth, names, linkage, analyzed, batch, nSent, remaining, willEnd,
                   interrupted>>

Fetch ==
    /\ mpc = "fetch"
    /\ \E b \in Batches(BatchSize, MaxDepth) :
        /\ Take(b)
        /\ batch' = {[page |-> p, depth |-> depth[p]] : p \in b}
        /\ mpc' = IF b = {} THEN "poll" ELSE "send"
    /\ UNCHANGED <<depth, names, linkage, analyzed, nSent, remaining, willEnd,
                   interrupted, outcome, workers>>

(* Nothing to fetch: the crawl has ended, or else sleep and fetch again.   *)
Poll ==
    /\ mpc = "poll"
    /\ mpc' = IF ExistsTaken THEN "fetch" ELSE "terminate"
    /\ UNCHANGED <<tables, batch, nSent, remaining, willEnd, interrupted, outcome, workers>>

(* The channel holds 2 * MaxTasks jobs and one more, whose sender waits.   *)
HasRoom(queue) == Len(queue) <= 2 * MaxTasks

Shallowest == {j \in batch : \A k \in batch : j.depth <= k.depth}

SendTask ==
    /\ mpc = "send"
    /\ \E j \in Shallowest :
        /\ wpc[Route[j.page]] # "off"
        /\ batch' = batch \ {j}
        /\ chan' = [chan EXCEPT ![Route[j.page]] = Append(@, j)]
        /\ IF HasRoom(chan'[Route[j.page]])
           THEN nSent' = nSent + 1 /\ UNCHANGED mpc
           ELSE mpc' = "parked" /\ UNCHANGED nSent
    /\ UNCHANGED <<tables, remaining, willEnd, interrupted, outcome, wpc, tasks>>

(* The job was in the channel already; now its sender goes on.             *)
Unpark ==
    /\ mpc = "parked"
    /\ \A w \in Workers : HasRoom(chan[w])
    /\ mpc' = "send"
    /\ nSent' = nSent + 1
    /\ UNCHANGED <<tables, batch, remaining, willEnd, interrupted, outcome, workers>>

(* The rest of the batch is dropped; its pages stay taken.                 *)
SendFails ==
    /\ mpc = "send"
    /\ \E j \in Shallowest : wpc[Route[j.page]] = "off"
    /\ interrupted' = TRUE
    /\ batch' = {}
    /\ mpc' = "terminate"
    /\ UNCHANGED <<tables, nSent, remaining, willEnd, outcome, workers>>

(* Variant: off by one.                                                    *)
QuotaPassed == nSent > remaining

QuotaReached == nSent >= remaining

BatchSent ==
    /\ mpc = "send"
    /\ batch = {}
    /\ mpc' = IF QuotaReached THEN "await" ELSE "fetch"
    /\ UNCHANGED <<tables, batch, nSent, remaining, willEnd, interrupted, outcome, workers>>

(* The quota is reached: wait for what was sent, without fetching.         *)
AwaitCompletion ==
    /\ mpc = "await"
    /\ ~ ExistsTaken
    /\ mpc' = "terminate"
    /\ UNCHANGED <<tables, batch, nSent, remaining, willEnd, interrupted, outcome, workers>>

(* `?' ends the run while it boots; later the loop is left, as if done.    *)
MasterStatementFails ==
    /\ "statement" \in Faults
    /\ \/ mpc \in Booting /\ mpc' = "off" /\ outcome' = "failed" /\ StopAllWorkers
       \/ mpc \in {"fetch", "poll", "await"} /\ mpc' = "terminate" /\ UNCHANGED <<outcome, workers>>
    /\ UNCHANGED <<tables, batch, nSent, remaining, willEnd, interrupted>>

(* handler.terminate() for each worker; a cancelled task stops for good.   *)
Terminate(w) ==
    /\ mpc = "terminate"
    /\ wpc[w] # "off"
    /\ StopWorker(w)
    /\ UNCHANGED <<tables, master>>

Finish ==
    /\ mpc = "terminate"
    /\ \A w \in Workers : wpc[w] = "off"
    /\ mpc' = "off"
    /\ outcome' = IF interrupted THEN "interrupted"
                  ELSE IF willEnd THEN "done" ELSE "incomplete"
    /\ UNCHANGED <<tables, batch, nSent, remaining, willEnd, interrupted, workers>>

Crash ==
    /\ "crash" \in Faults
    /\ mpc # "off"
    /\ mpc' = "off"
    /\ batch' = {}
    /\ outcome' = "crashed"
    /\ StopAllWorkers
    /\ UNCHANGED <<tables, nSent, remaining, willEnd, interrupted>>

-----------------------------------------------------------------------------

(* What a run that was started does by itself.                             *)
MasterStep ==
    \/ SeedNames
    \/ SeedStatus
    \/ ResetQueue
    \/ Fetch
    \/ Poll
    \/ SendTask
    \/ Unpark
    \/ SendFails
    \/ BatchSent
    \/ AwaitCompletion
    \/ \E w \in Workers : Terminate(w)
    \/ Finish

WorkerStep ==
    \/ \E w \in Workers : WorkerStart(w) \/ Dequeue(w)
    \/ \E t \in tasks : TaskStep(t)

FaultStep ==
    \/ \E t \in tasks : StatementFails(t)
    \/ \E w \in Workers : WorkerDies(w)
    \/ MasterStatementFails
    \/ Crash

Next ==
    \/ \E maxQuota \in MaxQuotas : Start(maxQuota)
    \/ MasterStep
    \/ WorkerStep
    \/ FaultStep

Spec == Init /\ [][Next]_vars

(* The runtimes of the master and of each worker poll every future that is *)
(* ready, every statement is answered, and a download ends or times out.   *)
(* Nobody has to start another run.                                        *)
Fairness ==
    /\ WF_vars(MasterStep)
    /\ \A w \in Workers : WF_vars(WorkerStart(w) \/ Dequeue(w))
    /\ \A p \in Pages : WF_vars(\E t \in tasks : t.page = p /\ TaskStep(t))

FairSpec == Spec /\ Fairness

-----------------------------------------------------------------------------
(* Correctness.                                                            *)

(* The jobs that the process is holding, wherever they are: in a batch, in *)
(* a channel or in a task.                                                 *)
InChannel(w) == {chan[w][i] : i \in DOMAIN chan[w]}

Holds(p) ==
    \/ \E j \in batch : j.page = p
    \/ \E w \in Workers : \E j \in InChannel(w) : j.page = p
    \/ \E t \in tasks : t.page = p

(* Every row has a name.  fetch.sql joins "status" to pages, and           *)
(* exists_taken.sql does not: a row without a name would never be fetched. *)
RowsAreNamed == Rows \subseteq names

(* A job that the process holds has a taken row.  The master polls only    *)
(* the table: this is why finding no taken row means that nothing is going *)
(* on, and why reset_queue takes no page away from a running task.         *)
WorkIsTaken == \A p \in Pages : Holds(p) => status[p] = "taken"

(* No page is held twice: a page is sent once, and crawled by one task.    *)
HeldOnce ==
    /\ \A t, u \in tasks : t.page = u.page => t = u
    /\ \A j, k \in batch : j.page = k.page => j = k
    /\ \A v, w \in Workers : \A i \in DOMAIN chan[v], k \in DOMAIN chan[w] :
        chan[v][i].page = chan[w][k].page => v = w /\ i = k
    /\ \A t \in tasks, j \in batch : t.page # j.page
    /\ \A w \in Workers : \A j \in InChannel(w) :
        /\ \A t \in tasks : t.page # j.page
        /\ \A k \in batch : k.page # j.page

(* The rows that an answer of page p leads to, all there.                  *)
Explored(p, a) ==
    /\ a.kind \in {"page", "status", "redirect"}
    /\ a.links \subseteq Rows
    /\ \A q \in a.links : \E row \in linkage :
        /\ row.from = p
        /\ row.to = q \/ (a.kind = "redirect" /\ row.reason = "redirect")

(* A closed page has been explored in full: of some answer that it gave,   *)
(* every link is a row of "status" and of linkage.  The statements of      *)
(* ensure_explored are not a transaction; this is what their order gives,  *)
(* across every crash between two of them and every resumption.            *)
ClosedIsExplored == \A p \in Closed : \E a \in Web[p] : Explored(p, a)

(* A row at depth d > 0 was put there by a row at depth d - 1, through an  *)
(* answer of that page; a row at depth 0 is a seed.  The depth travels     *)
(* with the job through the batch and the channel, and is not read again.  *)
DepthIsReal ==
    \A p \in Rows :
        IF depth[p] = 0
        THEN p \in Seeds
        ELSE \E q \in Rows : depth[q] + 1 = depth[p] /\ \E a \in Web[q] : p \in a.links

(* A run sends at most BatchSize - 1 jobs more than what was left of the   *)
(* quota: the quota is looked at only after a whole batch is sent.         *)
SentBounded == nSent > 0 => nSent < remaining + BatchSize

(* However often the crawl crashes or is resumed, and with whatever quota  *)
(* each run is given, it never closes BatchSize pages more than the quota. *)
ClosedBounded == Cardinality(Closed) < Quota + BatchSize

(* Nothing that was found is lost: through runs, crashes and resets, a     *)
(* closed page stays closed, a row keeps its depth, names and links stay.  *)
Grows ==
    /\ Closed \subseteq Closed'
    /\ Rows \subseteq Rows'
    /\ \A p \in Rows : depth'[p] = depth[p]
    /\ names \subseteq names'
    /\ linkage \subseteq linkage'
    /\ analyzed \subseteq analyzed'

NothingLost == [][Grows]_vars

(* The tables are a search of the web from the seeds, whatever fails.      *)
Search == INSTANCE GraphSearch WITH
    Nodes    <- Pages,
    Roots    <- Seeds,
    Edges    <- [p \in Pages |->
                    {a.links : a \in {b \in Web[p] : b.kind \in {"page", "status", "redirect"}}}],
    MaxLevel <- MaxDepth,
    found    <- Rows,
    level    <- depth,
    done     <- Closed

IsSearch == Search!Spec

-----------------------------------------------------------------------------
(* What holds only when nothing fails and the web is kind.                 *)

Healthy ==
    /\ Faults = {}
    /\ Disallowed = {}
    /\ \A p \in Pages : \A a \in Web[p] : a.kind # "bad_location"

(* A row is taken only while the process holds its page ("do not ever,     *)
(* EVER, filter elements of this stream").  While the master serves, a     *)
(* taken row that nobody holds would keep it polling for ever.             *)
TakenIsHeld ==
    mpc \notin {"off"} \cup Booting =>
        \A p \in Pages : status[p] = "taken" => Holds(p)

(* The master terminates its workers only when they have nothing to do, so *)
(* that no page is cut short between two of its statements.                *)
TerminateCutsNothing ==
    mpc = "terminate" /\ ~ interrupted =>
        tasks = {} /\ \A w \in Workers : chan[w] = <<>>

(* Every run ends.                                                         *)
RunEnds == mpc # "off" ~> mpc = "off"

-----------------------------------------------------------------------------
(* What comments of the code say and the code does not do.                 *)

(* "Whether enough juice was given for the crawl to get to the end": a     *)
(* crawl that is done, its quota not used up, has left no page to fetch.   *)
DoneIsDone ==
    outcome = "done" /\ ~ QuotaReached => Fetchable(MaxDepth) = {}

(* "idempotent atomic operations are the key": a statement that was run    *)
(* before can be run again.                                                *)
AnalysesAreIdempotent ==
    \A t \in tasks : t.step = "analyze" /\ t.answer.analyses => CanAnalyze(t.page)

=============================================================================
