---------------------------- MODULE Crawl_proofs ----------------------------
(***************************************************************************)
(* Theorems about Crawl, for every web, every configuration and every set  *)
(* of faults.                                                              *)
(***************************************************************************)
EXTENDS Crawl, FiniteSetTheorems, TLAPS

(* What count_crawled.sql counts is finite.                                *)
LEMMA CountType ==
    CountCrawled \in Nat
<1>1. IsFiniteSet(Closed)
  BY PagesAssumption, FS_Subset DEF Closed
<1> QED
  BY <1>1, FS_CardinalityType DEF CountCrawled

(* The channels that StopAllWorkers leaves are channels.                   *)
LEMMA EmptyChannels ==
    [w \in Workers |-> <<>>] \in [Workers -> Seq(Job)]
<1>1. <<>> \in Seq(Job)
  OBVIOUS
<1> QED
  BY <1>1

(* The types of the variables, at the start and from step to step.         *)
LEMMA InitType == Init => TypeOK
<1> SUFFICES ASSUME Init PROVE TypeOK
  OBVIOUS
<1>1. TablesTypeOK
  BY DEF Init, TablesInit, TablesTypeOK
<1>2. chan \in [Workers -> Seq(Job)]
  BY EmptyChannels DEF Init
<1>3. wpc \in [Workers -> {"off", "starting", "up"}]
  BY DEF Init
<1> QED
  BY <1>1, <1>2, <1>3 DEF Init, TypeOK, MasterStates, Outcomes

(* One step for each action: only SendTask, Dequeue, Fetch and the steps   *)
(* of a task need more than their definitions.                             *)
LEMMA NextType == TypeOK /\ [Next]_vars => TypeOK'
<1> SUFFICES ASSUME TypeOK, [Next]_vars PROVE TypeOK'
  OBVIOUS
<1> USE DEF TypeOK, TablesTypeOK
<1>1. ASSUME NEW q \in MaxQuotas, Start(q) PROVE TypeOK'
  <2>1. remaining' \in Nat
    BY <1>1, CountType, ProfileAssumption DEF Start, SaturatingSub, Least
  <2>2. willEnd' \in BOOLEAN
    BY <1>1 DEF Start
  <2>3. wpc' \in [Workers -> {"off", "starting", "up"}]
    BY <1>1 DEF Start
  <2> QED
    BY <1>1, <2>1, <2>2, <2>3 DEF Start, tables, MasterStates, Outcomes
<1>2. CASE SeedNames
  BY <1>2, WorkAssumption DEF SeedNames, EnsureNames, workers, MasterStates
<1>3. CASE SeedStatus
  BY <1>3 DEF SeedStatus, EnsureStatus, workers, MasterStates, SearchStatus
<1>4. CASE ResetQueue
  BY <1>4, EmptyChannels DEF ResetQueue, ResetTaken, StopAllWorkers, workers, MasterStates, Outcomes, SearchStatus
<1>5. CASE Fetch
  <2>1. PICK b \in Batches(BatchSize, MaxDepth) :
           /\ Take(b)
           /\ batch' = {[page |-> p, depth |-> depth[p]] : p \in b}
           /\ mpc' = IF b = {} THEN "poll" ELSE "send"
    BY <1>5 DEF Fetch
  <2>2. b \subseteq Pages
    BY DEF Batches, Fetchable
  <2>3. batch' \subseteq Job
    BY <2>1, <2>2 DEF Job
  <2> QED
    BY <1>5, <2>1, <2>3 DEF Fetch, Take, workers, MasterStates, SearchStatus
<1>6. CASE Poll
  BY <1>6 DEF Poll, tables, workers, MasterStates
<1>7. CASE SendTask
  <2>1. PICK j \in Shallowest :
           /\ batch' = batch \ {j}
           /\ chan' = [chan EXCEPT ![Route[j.page]] = Append(@, j)]
           /\ IF HasRoom(chan'[Route[j.page]])
              THEN nSent' = nSent + 1 /\ UNCHANGED mpc
              ELSE mpc' = "parked" /\ UNCHANGED nSent
    BY <1>7 DEF SendTask
  <2>2. j \in Job
    BY DEF Shallowest
  <2>3. Append(chan[Route[j.page]], j) \in Seq(Job)
    <3>1. chan[Route[j.page]] \in Seq(Job)
      BY <2>2, WorkAssumption DEF Job
    <3> QED
      BY <2>2, <3>1
  <2>4. chan' \in [Workers -> Seq(Job)]
    BY <2>1, <2>3
  <2> QED
    BY <1>7, <2>1, <2>4 DEF SendTask, tables, MasterStates
<1>8. CASE Unpark
  BY <1>8 DEF Unpark, tables, workers, MasterStates
<1>9. CASE SendFails
  BY <1>9 DEF SendFails, tables, workers, MasterStates
<1>10. CASE BatchSent
  BY <1>10 DEF BatchSent, tables, workers, MasterStates
<1>11. CASE AwaitCompletion
  BY <1>11 DEF AwaitCompletion, tables, workers, MasterStates
<1>12. ASSUME NEW w \in Workers, Terminate(w) PROVE TypeOK'
  BY <1>12 DEF Terminate, StopWorker, tables, master
<1>13. CASE Finish
  BY <1>13 DEF Finish, tables, workers, MasterStates, Outcomes
<1>14. ASSUME NEW w \in Workers, WorkerStart(w) PROVE TypeOK'
  BY <1>14 DEF WorkerStart, tables, master
<1>15. ASSUME NEW w \in Workers, Dequeue(w) PROVE TypeOK'
  <2>1. Head(chan[w]) \in Job /\ Tail(chan[w]) \in Seq(Job)
    BY <1>15 DEF Dequeue
  <2>2. NoAnswer \in Answer
    BY DEF NoAnswer, Answer, Kinds
  <2>3. tasks' \subseteq Task
    BY <1>15, <2>1, <2>2 DEF Dequeue, Job, Task, Steps
  <2> QED
    BY <1>15, <2>1, <2>3 DEF Dequeue, tables, master
<1>16. ASSUME NEW t \in tasks, Download(t) PROVE TypeOK'
  <2>1. t \in Task
    OBVIOUS
  <2>2. ASSUME NEW a \in Web[t.page]
        PROVE  [t EXCEPT !.step = FirstStep(a), !.answer = a] \in Task
    BY <2>1, WebAssumption DEF Task, FirstStep, Steps
  <2> QED
    BY <1>16, <2>2 DEF Download, Finished, tables, master
<1>17. ASSUME NEW t \in tasks, t.step \in DOMAIN StepAfter, Advance(t) PROVE tasks' \subseteq Task
  <2>1. StepAfter[t.step] \in Steps
    BY <1>17 DEF Steps, StepAfter
  <2>2. [t EXCEPT !.step = StepAfter[t.step]] \in Task
    BY <2>1 DEF Task
  <2> QED
    BY <1>17, <2>2 DEF Advance
<1>18. ASSUME NEW t \in tasks, Finished(t) PROVE tasks' \subseteq Task
  BY <1>18 DEF Finished
<1>19. ASSUME NEW t \in tasks, StoreAnalyses(t) PROVE TypeOK'
  <2>1. t.page \in Pages
    BY DEF Task
  <2>2. tasks' \subseteq Task
    BY <1>17, <1>18, <1>19 DEF StoreAnalyses, StepAfter
  <2> QED
    BY <1>19, <2>1, <2>2 DEF StoreAnalyses, EnsureAnalyzed, master
<1>20. ASSUME NEW t \in tasks, StoreLinks(t) PROVE TypeOK'
  <2>1. t.page \in Pages /\ t.answer.links \subseteq Pages
    BY DEF Task, Answer
  <2>2. tasks' \subseteq Task
    BY <1>17, <1>20 DEF StoreLinks, StepAfter
  <2>3. linkage' \subseteq LinkRow
    BY <1>20, <2>1 DEF StoreLinks, EnsureLinks, LinkRow, Reasons
  <2> QED
    BY <1>20, <2>2, <2>3 DEF StoreLinks, master
<1>21. ASSUME NEW t \in tasks, StoreNames(t) PROVE TypeOK'
  <2>1. t.answer.links \subseteq Pages
    BY DEF Task, Answer
  <2>2. tasks' \subseteq Task
    BY <1>17, <1>21 DEF StoreNames, StepAfter
  <2> QED
    BY <1>21, <2>1, <2>2 DEF StoreNames, EnsureNames, master
<1>22. ASSUME NEW t \in tasks, StoreStatus(t) PROVE TypeOK'
  <2>1. LinkDepth(t.depth) \in Nat
    BY DEF Task, LinkDepth
  <2>2. tasks' \subseteq Task
    BY <1>17, <1>22 DEF StoreStatus, StepAfter
  <2> QED
    BY <1>22, <2>1, <2>2 DEF StoreStatus, EnsureStatus, SearchStatus, master
<1>23. ASSUME NEW t \in tasks, StoreClosed(t) PROVE TypeOK'
  BY <1>18, <1>23 DEF StoreClosed, EnsureClosed, SearchStatus, master
<1>24. ASSUME NEW t \in tasks, StoreError(t) PROVE TypeOK'
  BY <1>18, <1>24 DEF StoreError, EnsureError, SearchStatus, master
<1>25. ASSUME NEW t \in tasks, StatementFails(t) PROVE TypeOK'
  BY <1>18, <1>25 DEF StatementFails, tables, master
<1>26. ASSUME NEW w \in Workers, WorkerDies(w) PROVE TypeOK'
  BY <1>26 DEF WorkerDies, StopWorker, tables, master
<1>27. CASE MasterStatementFails
  BY <1>27, EmptyChannels DEF MasterStatementFails, StopAllWorkers, tables, workers, MasterStates, Outcomes
<1>28. CASE Crash
  BY <1>28, EmptyChannels DEF Crash, StopAllWorkers, tables, MasterStates, Outcomes
<1>29. CASE UNCHANGED vars
  BY <1>29 DEF vars, tables, master, workers
<1> QED
  BY <1>1, <1>2, <1>3, <1>4, <1>5, <1>6, <1>7, <1>8, <1>9, <1>10, <1>11, <1>12, <1>13,
     <1>14, <1>15, <1>16, <1>19, <1>20, <1>21, <1>22, <1>23, <1>24, <1>25, <1>26, <1>27,
     <1>28, <1>29
  DEF Next, MasterStep, WorkerStep, FaultStep, TaskStep

(* Every variable keeps to its type.                                       *)
THEOREM TypeCorrect == Spec => []TypeOK
  BY InitType, NextType, PTL DEF Spec


-----------------------------------------------------------------------------
(* What the process holds while the master is not sending or the workers   *)
(* are not up: nothing.  reset_queue may then open every taken row.        *)
Quiet ==
    /\ mpc \notin {"send", "parked"} => batch = {}
    /\ mpc = "off" => \A w \in Workers : wpc[w] = "off"
    /\ mpc \in {"off"} \cup Booting =>
        tasks = {} /\ \A w \in Workers : chan[w] = <<>>
    /\ \A w \in Workers : wpc[w] = "off" => chan[w] = <<>>
    /\ \A t \in tasks : wpc[t.worker] = "up"

(* A step of a task ends it, or changes nothing of it but its step and the *)
(* answer that it got.                                                     *)
LEMMA TaskMoves ==
    ASSUME TypeOK, NEW t \in tasks, TaskStep(t)
    PROVE  \/ tasks' = tasks \ {t}
           \/ \E u \in Task :
                /\ u.page = t.page /\ u.worker = t.worker /\ u.depth = t.depth
                /\ tasks' = (tasks \ {t}) \cup {u}
<1> DEFINE Moved == \/ tasks' = tasks \ {t}
                    \/ \E u \in Task :
                        /\ u.page = t.page /\ u.worker = t.worker /\ u.depth = t.depth
                        /\ tasks' = (tasks \ {t}) \cup {u}
<1>1. t \in Task
  BY DEF TypeOK
<1>2. ASSUME t.step \in DOMAIN StepAfter, Advance(t) PROVE Moved
  <2>1. [t EXCEPT !.step = StepAfter[t.step]] \in Task
    BY <1>1, <1>2 DEF Task, Steps, StepAfter
  <2> QED
    BY <1>1, <1>2, <2>1 DEF Advance, Task
<1>3. ASSUME Download(t) PROVE Moved
  <2>1. ASSUME NEW a \in Web[t.page]
        PROVE  LET u == [t EXCEPT !.step = FirstStep(a), !.answer = a]
               IN  u \in Task /\ u.page = t.page /\ u.worker = t.worker /\ u.depth = t.depth
    BY <1>1, WebAssumption DEF Task, FirstStep, Steps
  <2> QED
    BY <1>3, <2>1 DEF Download, Finished
<1>4. ASSUME StoreAnalyses(t) PROVE Moved
  BY <1>2, <1>4 DEF StoreAnalyses, Finished, StepAfter
<1>5. ASSUME StoreLinks(t) PROVE Moved
  BY <1>2, <1>5 DEF StoreLinks, StepAfter
<1>6. ASSUME StoreNames(t) PROVE Moved
  BY <1>2, <1>6 DEF StoreNames, StepAfter
<1>7. ASSUME StoreStatus(t) PROVE Moved
  BY <1>2, <1>7 DEF StoreStatus, StepAfter
<1>8. ASSUME StoreClosed(t) PROVE Moved
  BY <1>8 DEF StoreClosed, Finished
<1>9. ASSUME StoreError(t) PROVE Moved
  BY <1>9 DEF StoreError, Finished
<1> QED
  BY <1>3, <1>4, <1>5, <1>6, <1>7, <1>8, <1>9 DEF TaskStep

(* Before the first run the process holds nothing.                         *)
LEMMA InitQuiet == Init => Quiet
  BY DEF Init, Quiet, Booting

(* Each step that stops a worker drops its channel and its tasks too, and  *)
(* the master leaves "send" with its batch empty.                          *)
LEMMA NextQuiet == TypeOK /\ Quiet /\ [Next]_vars => Quiet'
<1> SUFFICES ASSUME TypeOK, Quiet, [Next]_vars PROVE Quiet'
  OBVIOUS
<1> USE DEF Quiet, Booting, TypeOK
<1>1. ASSUME NEW q \in MaxQuotas, Start(q) PROVE Quiet'
  BY <1>1 DEF Start
<1>2. CASE SeedNames
  BY <1>2 DEF SeedNames, workers
<1>3. CASE SeedStatus
  BY <1>3 DEF SeedStatus, workers
<1>4. CASE ResetQueue
  BY <1>4 DEF ResetQueue, StopAllWorkers, workers
<1>5. CASE Fetch
  <2>1. PICK b \in Batches(BatchSize, MaxDepth) :
           /\ batch' = {[page |-> p, depth |-> depth[p]] : p \in b}
           /\ mpc' = IF b = {} THEN "poll" ELSE "send"
    BY <1>5 DEF Fetch
  <2>2. mpc' \in {"poll", "send"} /\ (mpc' = "poll" => batch' = {})
    BY <2>1
  <2> QED
    BY <1>5, <2>2 DEF Fetch, workers
<1>6. CASE Poll
  BY <1>6 DEF Poll, workers
<1>7. CASE SendTask
  <2>1. PICK j \in Shallowest :
           /\ wpc[Route[j.page]] # "off"
           /\ chan' = [chan EXCEPT ![Route[j.page]] = Append(@, j)]
           /\ mpc' \in {"send", "parked"}
    BY <1>7 DEF SendTask
  <2>2. \A w \in Workers : w # Route[j.page] => chan'[w] = chan[w]
    BY <2>1
  <2> QED
    BY <1>7, <2>1, <2>2 DEF SendTask
<1>8. CASE Unpark
  BY <1>8 DEF Unpark, workers
<1>9. CASE SendFails
  BY <1>9 DEF SendFails, workers
<1>10. CASE BatchSent
  BY <1>10 DEF BatchSent, workers
<1>11. CASE AwaitCompletion
  BY <1>11 DEF AwaitCompletion, workers
<1>12. ASSUME NEW w \in Workers, Terminate(w) PROVE Quiet'
  BY <1>12 DEF Terminate, StopWorker, master, Task
<1>13. CASE Finish
  BY <1>13 DEF Finish, workers, Task
<1>14. ASSUME NEW w \in Workers, WorkerStart(w) PROVE Quiet'
  BY <1>14 DEF WorkerStart, master
<1>15. ASSUME NEW w \in Workers, Dequeue(w) PROVE Quiet'
  <2>1. mpc \notin {"off"} \cup Booting
    BY <1>15 DEF Dequeue
  <2>2. \A t \in tasks' : t \in tasks \/ t.worker = w
    BY <1>15 DEF Dequeue
  <2> QED
    BY <1>15, <2>1, <2>2 DEF Dequeue, master
<1>16. ASSUME NEW t \in tasks, TaskStep(t) PROVE Quiet'
  <2>1. UNCHANGED <<master, wpc, chan>>
    BY <1>16 DEF TaskStep, Download, StoreAnalyses, StoreLinks, StoreNames, StoreStatus,
                 StoreClosed, StoreError
  <2>2. \A u \in tasks' : \E v \in tasks : u.worker = v.worker
    BY <1>16, TaskMoves
  <2>3. mpc \notin {"off"} \cup Booting
    BY <1>16
  <2> QED
    BY <2>1, <2>2, <2>3 DEF master
<1>17. ASSUME NEW t \in tasks, StatementFails(t) PROVE Quiet'
  BY <1>17 DEF StatementFails, Finished, master
<1>18. ASSUME NEW w \in Workers, WorkerDies(w) PROVE Quiet'
  BY <1>18 DEF WorkerDies, StopWorker, master, Task
<1>19. CASE MasterStatementFails
  BY <1>19 DEF MasterStatementFails, StopAllWorkers, workers
<1>20. CASE Crash
  BY <1>20 DEF Crash, StopAllWorkers
<1>21. CASE UNCHANGED vars
  BY <1>21 DEF vars, master, workers
<1> QED
  BY <1>1, <1>2, <1>3, <1>4, <1>5, <1>6, <1>7, <1>8, <1>9, <1>10, <1>11, <1>12, <1>13,
     <1>14, <1>15, <1>16, <1>17, <1>18, <1>19, <1>20, <1>21
  DEF Next, MasterStep, WorkerStep, FaultStep


-----------------------------------------------------------------------------
(* No page is crawled twice at once, and what is crawled is taken.         *)

Exclusive == WorkIsTaken /\ HeldOnce

(* Losing work, and rows other than the taken ones, disturbs nothing.      *)
LEMMA LessWork ==
    ASSUME TypeOK, Exclusive,
           \A p \in Pages : status[p] = "taken" => status'[p] = "taken",
           batch' \subseteq batch,
           \A w \in Workers : chan'[w] = chan[w] \/ chan'[w] = <<>>,
           tasks' \subseteq tasks
    PROVE  Exclusive'
<1>1. WorkIsTaken'
  BY DEF Exclusive, WorkIsTaken, Holds, InChannel
<1>2. HeldOnce'
  BY DEF Exclusive, HeldOnce, InChannel
<1> QED
  BY <1>1, <1>2 DEF Exclusive

(* Neither does a task that goes on with its page.                         *)
LEMMA SameWork ==
    ASSUME TypeOK, Exclusive,
           \A p \in Pages : status[p] = "taken" => status'[p] = "taken",
           UNCHANGED <<batch, chan>>,
           NEW t \in tasks, NEW u, u.page = t.page,
           tasks' = (tasks \ {t}) \cup {u}
    PROVE  Exclusive'
<1>1. WorkIsTaken'
  BY DEF Exclusive, WorkIsTaken, Holds, InChannel
<1>2. HeldOnce'
  BY DEF Exclusive, HeldOnce, InChannel
<1> QED
  BY <1>1, <1>2 DEF Exclusive

(* A step of a task writes the row of its own page, or rows that were not  *)
(* there.                                                                  *)
LEMMA TaskExclusive ==
    ASSUME TypeOK, Exclusive, NEW t \in tasks, TaskStep(t)
    PROVE  Exclusive'
<1>1. t \in Task
  BY DEF TypeOK
<1>2. UNCHANGED <<batch, chan>>
  BY DEF TaskStep, Download, StoreAnalyses, StoreLinks, StoreNames, StoreStatus,
         StoreClosed, StoreError, master
<1>3. CASE StoreClosed(t) \/ StoreError(t)
  (* The row that changes is that of the only task with this page.         *)
  <2>1. tasks' = tasks \ {t} /\ \A p \in Pages \ {t.page} : status'[p] = status[p]
    BY <1>3 DEF StoreClosed, StoreError, EnsureClosed, EnsureError, Finished
  <2>2. ~ Holds(t.page)'
    BY <1>2, <2>1 DEF Exclusive, HeldOnce, Holds, InChannel
  <2>3. \A p \in Pages : Holds(p)' => Holds(p)
    BY <1>2, <2>1 DEF Holds, InChannel
  <2>4. WorkIsTaken'
    BY <2>1, <2>2, <2>3 DEF Exclusive, WorkIsTaken
  <2>5. HeldOnce'
    BY <1>2, <2>1 DEF Exclusive, HeldOnce, InChannel
  <2> QED
    BY <2>4, <2>5 DEF Exclusive
<1>4. CASE ~ (StoreClosed(t) \/ StoreError(t))
  <2>1. \A p \in Pages : status[p] = "taken" => status'[p] = "taken"
    BY <1>4 DEF TaskStep, Download, StoreAnalyses, StoreLinks, StoreNames, StoreStatus,
                EnsureStatus, Rows, tables
  <2> QED
    BY <1>2, <2>1, TaskMoves, LessWork, SameWork
<1> QED
  BY <1>3, <1>4

(* New work comes only from Fetch, of rows that were open and so not held, *)
(* and moves from the batch to a channel to a task; ResetQueue opens taken *)
(* rows while nothing is held.                                             *)
LEMMA NextExclusive == TypeOK /\ Quiet /\ Exclusive /\ [Next]_vars => Exclusive'
<1> SUFFICES ASSUME TypeOK, Quiet, Exclusive, [Next]_vars PROVE Exclusive'
  OBVIOUS
<1>1. ASSUME NEW q \in MaxQuotas, Start(q) PROVE Exclusive'
  BY <1>1, LessWork DEF Start, tables
<1>2. CASE SeedNames
  BY <1>2, LessWork DEF SeedNames, workers
<1>3. CASE SeedStatus
  <2>1. \A p \in Pages : status[p] = "taken" => status'[p] = "taken"
    BY <1>3 DEF SeedStatus, EnsureStatus, Rows
  <2> QED
    BY <1>3, <2>1, LessWork DEF SeedStatus, workers
<1>4. CASE ResetQueue
  (* The process holds nothing yet.                                        *)
  <2>1. batch' = {} /\ tasks' = {} /\ \A w \in Workers : chan'[w] = <<>>
    BY <1>4 DEF ResetQueue, Quiet, Booting, StopAllWorkers, workers
  <2> QED
    BY <2>1 DEF Exclusive, WorkIsTaken, HeldOnce, Holds, InChannel
<1>5. CASE Fetch
  <2>1. PICK b \in Batches(BatchSize, MaxDepth) :
           /\ Take(b)
           /\ batch' = {[page |-> p, depth |-> depth[p]] : p \in b}
    BY <1>5 DEF Fetch
  <2>2. UNCHANGED <<chan, tasks>> /\ batch = {}
    BY <1>5 DEF Fetch, workers, Quiet
  <2>3. \A p \in b : p \in Pages /\ status[p] = "open"
    BY DEF Batches, Fetchable, TypeOK, TablesTypeOK
  <2>4. \A p \in b : ~ Holds(p)
    BY <2>3 DEF Exclusive, WorkIsTaken
  <2>5. \A j \in batch' : j.page \in b /\ j = [page |-> j.page, depth |-> depth[j.page]]
    BY <2>1
  <2>6. WorkIsTaken'
    BY <2>1, <2>2, <2>5 DEF Exclusive, WorkIsTaken, Holds, InChannel, Take
  <2>7. HeldOnce'
    BY <2>2, <2>4, <2>5 DEF Exclusive, HeldOnce, Holds, InChannel
  <2> QED
    BY <2>6, <2>7 DEF Exclusive
<1>6. CASE Poll
  BY <1>6, LessWork DEF Poll, tables, workers
<1>7. CASE SendTask
  <2>1. PICK j \in batch :
           /\ batch' = batch \ {j}
           /\ chan' = [chan EXCEPT ![Route[j.page]] = Append(@, j)]
    BY <1>7 DEF SendTask, Shallowest
  <2> DEFINE v == Route[j.page]
  <2>2. UNCHANGED <<status, tasks>>
    BY <1>7 DEF SendTask, tables
  <2>3. v \in Workers /\ chan[v] \in Seq(Job) /\ j \in Job
    BY WorkAssumption DEF TypeOK, Job
  <2>4. \A w \in Workers : \A i \in DOMAIN chan'[w] :
           \/ i \in DOMAIN chan[w] /\ chan'[w][i] = chan[w][i]
           \/ w = v /\ i = Len(chan[v]) + 1 /\ chan'[w][i] = j
    BY <2>1, <2>3 DEF TypeOK
  <2>5. \A p \in Pages : Holds(p)' => Holds(p)
    BY <2>1, <2>2, <2>4 DEF Holds, InChannel
  <2>6. WorkIsTaken'
    BY <2>2, <2>5 DEF Exclusive, WorkIsTaken
  <2>7. HeldOnce'
    BY <2>1, <2>2, <2>4 DEF Exclusive, HeldOnce, InChannel
  <2> QED
    BY <2>6, <2>7 DEF Exclusive
<1>8. CASE Unpark
  BY <1>8, LessWork DEF Unpark, tables, workers
<1>9. CASE SendFails
  BY <1>9, LessWork DEF SendFails, tables, workers
<1>10. CASE BatchSent
  BY <1>10, LessWork DEF BatchSent, tables, workers
<1>11. CASE AwaitCompletion
  BY <1>11, LessWork DEF AwaitCompletion, tables, workers
<1>12. ASSUME NEW w \in Workers, Terminate(w) PROVE Exclusive'
  BY <1>12, LessWork DEF Terminate, StopWorker, tables, master, TypeOK
<1>13. CASE Finish
  BY <1>13, LessWork DEF Finish, tables, workers
<1>14. ASSUME NEW w \in Workers, WorkerStart(w) PROVE Exclusive'
  BY <1>14, LessWork DEF WorkerStart, tables, master
<1>15. ASSUME NEW w \in Workers, Dequeue(w) PROVE Exclusive'
  <2>1. PICK u :
           /\ u.page = Head(chan[w]).page
           /\ tasks' = tasks \cup {u}
    BY <1>15 DEF Dequeue
  <2>2. UNCHANGED <<status, batch>> /\ chan' = [chan EXCEPT ![w] = Tail(@)]
    BY <1>15 DEF Dequeue, tables, master
  <2>3. chan[w] \in Seq(Job) /\ chan[w] # <<>> /\ Head(chan[w]) = chan[w][1]
    BY <1>15 DEF Dequeue, TypeOK
  <2>4. 1 \in DOMAIN chan[w]
    BY <2>3
  <2>5. \A v \in Workers : \A i \in DOMAIN chan'[v] :
           \/ v # w /\ i \in DOMAIN chan[v] /\ chan'[v][i] = chan[v][i]
           \/ v = w /\ i \in Nat \ {0} /\ i + 1 \in DOMAIN chan[v] /\ chan'[v][i] = chan[v][i + 1]
    BY <2>2, <2>3 DEF TypeOK
  <2>6. \A p \in Pages : Holds(p)' => Holds(p)
    BY <2>1, <2>2, <2>3, <2>4, <2>5 DEF Holds, InChannel
  <2>7. WorkIsTaken'
    BY <2>2, <2>6 DEF Exclusive, WorkIsTaken
  <2>8. HeldOnce'
    <3>1. \A t \in tasks' : t \in tasks \/ t = u
      BY <2>1
    <3>2. u.page = chan[w][1].page /\ chan[w][1] \in InChannel(w)
      BY <2>1, <2>3, <2>4 DEF InChannel
    <3>3. (\A t \in tasks : t.page # u.page) /\ (\A j \in batch : j.page # u.page)
      BY <3>2 DEF Exclusive, HeldOnce
    <3>4. \A v \in Workers : \A i \in DOMAIN chan'[v] :
             chan'[v][i] \in InChannel(v) /\ chan'[v][i].page # u.page
      <4>1. ASSUME NEW v \in Workers, NEW i \in DOMAIN chan'[v], v # w
            PROVE  chan'[v][i] \in InChannel(v) /\ chan'[v][i].page # u.page
        BY <2>4, <2>5, <3>2, <4>1 DEF Exclusive, HeldOnce, InChannel
      <4>2. ASSUME NEW i \in DOMAIN chan'[w]
            PROVE  chan'[w][i] \in InChannel(w) /\ chan'[w][i].page # u.page
        <5>1. i \in Nat \ {0} /\ i + 1 \in DOMAIN chan[w] /\ chan'[w][i] = chan[w][i + 1]
          BY <2>5
        <5>2. i + 1 # 1
          BY <5>1
        <5> QED
          BY <2>4, <3>2, <5>1, <5>2 DEF Exclusive, HeldOnce, InChannel
      <4> QED
        BY <4>1, <4>2
    <3>5. \A t, s \in tasks' : t.page = s.page => t = s
      BY <3>1, <3>3 DEF Exclusive, HeldOnce
    <3>6. \A v, x \in Workers : \A i \in DOMAIN chan'[v], k \in DOMAIN chan'[x] :
             chan'[v][i].page = chan'[x][k].page => v = x /\ i = k
      BY <2>5 DEF Exclusive, HeldOnce
    <3>7. (\A j, k \in batch' : j.page = k.page => j = k)
          /\ \A t \in tasks', j \in batch' : t.page # j.page
      BY <2>2, <3>1, <3>3 DEF Exclusive, HeldOnce
    <3>8. \A v \in Workers : \A j \in InChannel(v)' :
             (\A t \in tasks' : t.page # j.page) /\ \A k \in batch' : k.page # j.page
      BY <2>2, <3>1, <3>4 DEF Exclusive, HeldOnce, InChannel
    <3> QED
      BY <3>5, <3>6, <3>7, <3>8 DEF HeldOnce
  <2> QED
    BY <2>7, <2>8 DEF Exclusive
<1>16. ASSUME NEW t \in tasks, TaskStep(t) PROVE Exclusive'
  BY <1>16, TaskExclusive
<1>17. ASSUME NEW t \in tasks, StatementFails(t) PROVE Exclusive'
  BY <1>17, LessWork DEF StatementFails, Finished, tables, master
<1>18. ASSUME NEW w \in Workers, WorkerDies(w) PROVE Exclusive'
  BY <1>18, LessWork DEF WorkerDies, StopWorker, tables, master, TypeOK
<1>19. CASE MasterStatementFails
  BY <1>19, LessWork DEF MasterStatementFails, StopAllWorkers, tables, workers
<1>20. CASE Crash
  BY <1>20, LessWork DEF Crash, StopAllWorkers, tables
<1>21. CASE UNCHANGED vars
  BY <1>21, LessWork DEF vars, tables, master, workers
<1> QED
  BY <1>1, <1>2, <1>3, <1>4, <1>5, <1>6, <1>7, <1>8, <1>9, <1>10, <1>11, <1>12, <1>13,
     <1>14, <1>15, <1>16, <1>17, <1>18, <1>19, <1>20, <1>21
  DEF Next, MasterStep, WorkerStep, FaultStep

(* Before the first run the process holds nothing.                         *)
LEMMA InitExclusive == Init => Exclusive
  BY DEF Init, Exclusive, WorkIsTaken, HeldOnce, Holds, InChannel

(* No page is with two tasks, or with a task and in a queue, at once.      *)
THEOREM NoDoubleCrawl == Spec => []HeldOnce
<1>1. Exclusive => HeldOnce
  BY DEF Exclusive
<1> QED
  BY <1>1, InitType, NextType, InitQuiet, NextQuiet, InitExclusive, NextExclusive, PTL DEF Spec

(* Every page that the process holds is taken.                             *)
THEOREM WorkShows == Spec => []WorkIsTaken
<1>1. Exclusive => WorkIsTaken
  BY DEF Exclusive
<1> QED
  BY <1>1, InitType, NextType, InitQuiet, NextQuiet, InitExclusive, NextExclusive, PTL DEF Spec


-----------------------------------------------------------------------------
(* The tables grow.                                                        *)

(* The statements of a task insert rows, and update only the row of its    *)
(* page.                                                                   *)
LEMMA TaskGrows ==
    ASSUME TypeOK, NEW t \in tasks, TaskStep(t)
    PROVE  Grows
<1> USE DEF Grows, Closed, Rows, TypeOK, TablesTypeOK
<1>1. CASE Download(t)
  BY <1>1 DEF Download, tables
<1>2. CASE StoreAnalyses(t)
  BY <1>2 DEF StoreAnalyses, EnsureAnalyzed
<1>3. CASE StoreLinks(t)
  BY <1>3 DEF StoreLinks, EnsureLinks
<1>4. CASE StoreNames(t)
  BY <1>4 DEF StoreNames, EnsureNames
<1>5. CASE StoreStatus(t)
  BY <1>5 DEF StoreStatus, EnsureStatus
<1>6. CASE StoreClosed(t)
  BY <1>6 DEF StoreClosed, EnsureClosed
<1>7. CASE StoreError(t)
  BY <1>7 DEF StoreError, EnsureError
<1> QED
  BY <1>1, <1>2, <1>3, <1>4, <1>5, <1>6, <1>7 DEF TaskStep

(* No other statement deletes a row, or reopens a closed one.              *)
LEMMA NextGrows == TypeOK /\ [Next]_vars => Grows
<1> SUFFICES ASSUME TypeOK, [Next]_vars PROVE Grows
  OBVIOUS
<1>1. CASE UNCHANGED tables
  BY <1>1 DEF Grows, Closed, Rows, tables
<1>2. CASE SeedNames
  BY <1>2 DEF SeedNames, EnsureNames, Grows, Closed, Rows
<1>3. CASE SeedStatus
  BY <1>3 DEF SeedStatus, EnsureStatus, Grows, Closed, Rows, TypeOK, TablesTypeOK
<1>4. CASE ResetQueue
  BY <1>4 DEF ResetQueue, ResetTaken, Grows, Closed, Rows, TypeOK, TablesTypeOK
<1>5. CASE Fetch
  <2>1. PICK b \in Batches(BatchSize, MaxDepth) : Take(b)
    BY <1>5 DEF Fetch
  <2>2. \A p \in b : status[p] = "open"
    BY DEF Batches, Fetchable
  <2> QED
    BY <1>5, <2>1, <2>2 DEF Fetch, Take, Grows, Closed, Rows, TypeOK, TablesTypeOK
<1>6. ASSUME NEW t \in tasks, TaskStep(t) PROVE Grows
  BY <1>6, TaskGrows
<1>7. UNCHANGED tables \/ SeedNames \/ SeedStatus \/ ResetQueue \/ Fetch
      \/ \E t \in tasks : TaskStep(t)
  BY DEF Next, MasterStep, WorkerStep, FaultStep, vars, Start, Poll, SendTask, Unpark, SendFails,
         BatchSent, AwaitCompletion, Terminate, Finish, WorkerStart, Dequeue, StatementFails,
         WorkerDies, MasterStatementFails, Crash
<1> QED
  BY <1>1, <1>2, <1>3, <1>4, <1>5, <1>6, <1>7

(* No run, crash or reset takes back anything that was found.              *)
THEOREM NothingIsLost == Spec => NothingLost
  BY InitType, NextType, NextGrows, PTL DEF Spec, NothingLost


-----------------------------------------------------------------------------
(* What a task has stored so far, and what the jobs on their way carry.    *)

Linked(p, a) ==
    \A q \in a.links : \E row \in linkage :
        /\ row.from = p
        /\ row.to = q \/ (a.kind = "redirect" /\ row.reason = "redirect")

Progress(t) ==
    /\ t.step \in {"analyze", "links", "names", "status", "close"} =>
        t.answer \in Web[t.page] /\ t.answer.kind \in {"page", "status", "redirect"}
    /\ t.step \in {"names", "status", "close"} => Linked(t.page, t.answer)
    /\ t.step \in {"status", "close"} => t.answer.links \subseteq names
    /\ t.step = "close" => t.answer.links \subseteq Rows

Deep(j) == j.page \in Rows /\ depth[j.page] = j.depth /\ j.depth <= MaxDepth

Faithful ==
    /\ mpc = "seed_status" => Seeds \subseteq names
    /\ \A j \in batch : Deep(j)
    /\ \A w \in Workers : \A i \in DOMAIN chan[w] : Deep(chan[w][i])
    /\ \A t \in tasks : Deep(t) /\ Progress(t)

Sound == Faithful /\ RowsAreNamed /\ DepthIsReal /\ ClosedIsExplored

(* An empty wave has nothing to be wrong about.                            *)
LEMMA InitSound == Init => Sound
  BY DEF Init, TablesInit, Sound, Faithful, RowsAreNamed, DepthIsReal, ClosedIsExplored, Rows, Closed

(* What was true of a job or a task stays true while the tables grow.      *)
LEMMA KeepsDeep ==
    ASSUME Grows, NEW j, Deep(j)
    PROVE  Deep(j)'
  BY DEF Grows, Deep

(* So does what a task has stored.                                         *)
LEMMA KeepsProgress ==
    ASSUME Grows, NEW t, Progress(t)
    PROVE  Progress(t)'
<1>1. Linked(t.page, t.answer) => Linked(t.page, t.answer)'
  BY DEF Grows, Linked
<1> QED
  BY <1>1 DEF Grows, Progress

(* Where the jobs of the next state come from.                             *)
LEMMA WorkMoves ==
    ASSUME TypeOK, [Next]_vars
    PROVE  \/ Fetch
           \/ SendTask
           \/ \E w \in Workers : Dequeue(w)
           \/ \E t \in tasks : TaskStep(t)
           \/ /\ batch' \subseteq batch
              /\ \A w \in Workers : chan'[w] = chan[w] \/ chan'[w] = <<>>
              /\ tasks' \subseteq tasks
  BY DEF TypeOK, Next, MasterStep, WorkerStep, FaultStep, vars, master, workers, Start, SeedNames,
         SeedStatus, ResetQueue, Poll, Unpark, SendFails, BatchSent, AwaitCompletion, Terminate,
         Finish, WorkerStart, StatementFails, Finished, WorkerDies, MasterStatementFails, Crash,
         StopWorker, StopAllWorkers

(* A task that goes on has stored what its next step supposes.             *)
LEMMA TaskProgress ==
    ASSUME TypeOK, Faithful, Grows, NEW t \in tasks, TaskStep(t)
    PROVE  \A u \in tasks' : Deep(u)' /\ Progress(u)'
<1>1. t \in Task /\ Deep(t) /\ Progress(t)
  BY DEF TypeOK, Faithful
<1>2. \A u \in tasks : Deep(u)' /\ Progress(u)'
  BY KeepsDeep, KeepsProgress DEF Faithful
<1>3. ASSUME Finished(t) PROVE \A u \in tasks' : Deep(u)' /\ Progress(u)'
  BY <1>2, <1>3 DEF Finished
<1>4. ASSUME t.step \in DOMAIN StepAfter, Advance(t), Progress([t EXCEPT !.step = StepAfter[t.step]])'
      PROVE  \A u \in tasks' : Deep(u)' /\ Progress(u)'
  <2>1. Deep([t EXCEPT !.step = StepAfter[t.step]])'
    BY <1>1, <1>2 DEF Deep, Task
  <2> QED
    BY <1>2, <1>4, <2>1 DEF Advance
<1>5. CASE Download(t)
  <2>1. ASSUME NEW a \in Web[t.page], a.kind # "bad_location"
        PROVE  LET u == [t EXCEPT !.step = FirstStep(a), !.answer = a]
               IN  Deep(u)' /\ Progress(u)'
    <3> DEFINE u == [t EXCEPT !.step = FirstStep(a), !.answer = a]
    <3>1. Deep(u)'
      BY <1>1, <1>2 DEF Deep, Task
    <3>2. u.page = t.page /\ u.answer = a /\ u.step = FirstStep(a)
      BY <1>1 DEF Task
    <3>3. a.kind \in Kinds \ {"none"}
      BY <1>1, WebAssumption DEF Task, Answer
    <3>4. Progress(u)'
      BY <2>1, <3>2, <3>3 DEF Progress, FirstStep, Kinds
    <3> QED
      BY <3>1, <3>4
  <2> QED
    BY <1>2, <1>3, <1>5, <2>1 DEF Download
<1>6. CASE StoreAnalyses(t)
  <2>1. t.step = "analyze" => Progress([t EXCEPT !.step = "links"])'
    BY <1>1 DEF Progress, Task
  <2> QED
    BY <1>3, <1>4, <1>6, <2>1 DEF StoreAnalyses, StepAfter
<1>7. CASE StoreLinks(t)
  <2> DEFINE reason == IF t.answer.kind = "redirect" THEN "redirect" ELSE "ahref"
  <2>1. linkage' = linkage \cup
          {row \in [from : {t.page}, to : t.answer.links, reason : {reason}] :
            reason = "redirect" =>
                ~ \E old \in linkage : old.from = t.page /\ old.reason = "redirect"}
    BY <1>7 DEF StoreLinks, EnsureLinks
  <2>2. ASSUME NEW q \in t.answer.links
        PROVE  \E row \in linkage' :
                  /\ row.from = t.page
                  /\ row.to = q \/ (t.answer.kind = "redirect" /\ row.reason = "redirect")
    <3> DEFINE r == [from |-> t.page, to |-> q, reason |-> reason]
    <3>1. CASE r \in linkage'
      BY <3>1
    <3>2. CASE r \notin linkage'
      <4>1. reason = "redirect" /\ \E old \in linkage : old.from = t.page /\ old.reason = "redirect"
        BY <2>1, <3>2
      <4> QED
        BY <2>1, <4>1
    <3> QED
      BY <3>1, <3>2
  <2>3. Linked(t.page, t.answer)'
    BY <2>2 DEF Linked
  <2>4. Progress([t EXCEPT !.step = "names"])'
    BY <1>1, <1>7, <2>3 DEF StoreLinks, Progress, Task
  <2> QED
    BY <1>4, <1>7, <2>4 DEF StoreLinks, StepAfter
<1>8. CASE StoreNames(t)
  <2>1. Progress([t EXCEPT !.step = "status"])'
    BY <1>1, <1>2, <1>8 DEF StoreNames, EnsureNames, Progress, Task
  <2> QED
    BY <1>4, <1>8, <2>1 DEF StoreNames, StepAfter
<1>9. CASE StoreStatus(t)
  <2>1. t.answer.links \subseteq Rows'
    BY <1>1, <1>9 DEF StoreStatus, EnsureStatus, Rows, Task, Answer
  <2>2. Progress([t EXCEPT !.step = "close"])'
    BY <1>1, <1>2, <1>9, <2>1 DEF StoreStatus, Progress, Task
  <2> QED
    BY <1>4, <1>9, <2>2 DEF StoreStatus, StepAfter
<1>10. CASE StoreClosed(t) \/ StoreError(t)
  BY <1>3, <1>10 DEF StoreClosed, StoreError
<1> QED
  BY <1>5, <1>6, <1>7, <1>8, <1>9, <1>10 DEF TaskStep

(* Jobs carry the depth of their row from Fetch on, and each statement     *)
(* that a task stores adds what its next step needs.                       *)
LEMMA NextFaithful == TypeOK /\ Faithful /\ [Next]_vars => Faithful'
<1> SUFFICES ASSUME TypeOK, Faithful, [Next]_vars PROVE Faithful'
  OBVIOUS
<1>1. Grows
  BY NextGrows
<1>2. mpc' = "seed_status" => Seeds \subseteq names'
  <2>1. CASE mpc = "seed_status"
    BY <1>1, <2>1 DEF Faithful, Grows
  <2>2. CASE mpc # "seed_status"
    <3>1. mpc' = "seed_status" => SeedNames
      BY <2>2 DEF TypeOK, Next, MasterStep, WorkerStep, FaultStep, TaskStep, vars, master, workers,
             Start, SeedStatus, ResetQueue, Fetch, Poll, SendTask, Unpark, SendFails, BatchSent,
             AwaitCompletion, Terminate, Finish, WorkerStart, Dequeue, Download, StoreAnalyses,
             StoreLinks, StoreNames, StoreStatus, StoreClosed, StoreError, StatementFails,
             WorkerDies, MasterStatementFails, Crash
    <3> QED
      BY <3>1 DEF SeedNames, EnsureNames
  <2> QED
    BY <2>1, <2>2
<1>3. \A j : Deep(j) => Deep(j)'
  BY <1>1, KeepsDeep
<1>4. \A t : Progress(t) => Progress(t)'
  BY <1>1, KeepsProgress
<1>5. CASE Fetch
  <2>1. PICK b \in Batches(BatchSize, MaxDepth) :
           batch' = {[page |-> p, depth |-> depth[p]] : p \in b}
    BY <1>5 DEF Fetch
  <2>2. \A p \in b : p \in Rows /\ depth[p] <= MaxDepth
    BY DEF Batches, Fetchable, Rows, TypeOK, TablesTypeOK
  <2>3. \A j \in batch' : Deep(j)
    BY <2>1, <2>2 DEF Deep
  <2>4. UNCHANGED <<chan, tasks>>
    BY <1>5 DEF Fetch, workers
  <2> QED
    BY <1>2, <1>3, <1>4, <2>3, <2>4 DEF Faithful
<1>6. CASE SendTask
  <2>1. PICK j \in batch :
           /\ batch' = batch \ {j}
           /\ chan' = [chan EXCEPT ![Route[j.page]] = Append(@, j)]
    BY <1>6 DEF SendTask, Shallowest
  <2>2. tasks' = tasks /\ Route[j.page] \in Workers /\ j \in Job
    BY <1>6, WorkAssumption DEF SendTask, TypeOK, Job
  <2>3. \A w \in Workers : \A i \in DOMAIN chan'[w] :
           \/ i \in DOMAIN chan[w] /\ chan'[w][i] = chan[w][i]
           \/ chan'[w][i] = j
    BY <2>1, <2>2 DEF TypeOK
  <2>4. \A w \in Workers : \A i \in DOMAIN chan'[w] : Deep(chan'[w][i])
    BY <2>1, <2>3 DEF Faithful
  <2> QED
    BY <1>2, <1>3, <1>4, <2>1, <2>2, <2>4 DEF Faithful
<1>7. ASSUME NEW w \in Workers, Dequeue(w) PROVE Faithful'
  <2>1. chan[w] \in Seq(Job) /\ chan[w] # <<>> /\ Head(chan[w]) = chan[w][1] /\ 1 \in DOMAIN chan[w]
    BY <1>7 DEF Dequeue, TypeOK
  <2> DEFINE u == [worker |-> w, page |-> Head(chan[w]).page, depth |-> Head(chan[w]).depth,
                   step |-> "crawl", answer |-> NoAnswer]
  <2>2. Deep(u) /\ Progress(u)
    BY <2>1 DEF Faithful, Deep, Progress
  <2>3. batch' = batch /\ tasks' = tasks \cup {u} /\ chan' = [chan EXCEPT ![w] = Tail(@)]
    BY <1>7 DEF Dequeue, master
  <2>4. \A v \in Workers : \A i \in DOMAIN chan'[v] :
           \E k \in DOMAIN chan[v] : chan'[v][i] = chan[v][k]
    BY <2>1, <2>3 DEF TypeOK
  <2>5. \A v \in Workers : \A i \in DOMAIN chan'[v] : Deep(chan'[v][i])
    BY <2>4 DEF Faithful
  <2> QED
    BY <1>2, <1>3, <1>4, <2>2, <2>3, <2>5 DEF Faithful
<1>8. ASSUME NEW t \in tasks, TaskStep(t) PROVE Faithful'
  <2>1. UNCHANGED <<batch, chan>>
    BY <1>8 DEF TaskStep, Download, StoreAnalyses, StoreLinks, StoreNames, StoreStatus,
                StoreClosed, StoreError, master
  <2> QED
    BY <1>1, <1>2, <1>3, <1>8, <2>1, TaskProgress DEF Faithful
<1>9. CASE /\ batch' \subseteq batch
           /\ \A w \in Workers : chan'[w] = chan[w] \/ chan'[w] = <<>>
           /\ tasks' \subseteq tasks
  BY <1>2, <1>3, <1>4, <1>9 DEF Faithful
<1> QED
  BY <1>5, <1>6, <1>7, <1>8, <1>9, WorkMoves


(* The statements that change the rows of "status", and what they find.    *)
LEMMA RowsChange ==
    ASSUME TypeOK, [Next]_vars
    PROVE  \/ Rows' = Rows /\ depth' = depth /\ Closed' = Closed
           \/ SeedStatus
           \/ \E t \in tasks : StoreStatus(t) \/ StoreClosed(t)
<1> USE DEF Rows, Closed, TypeOK, TablesTypeOK
<1>1. CASE UNCHANGED <<status, depth>>
  BY <1>1
<1>2. CASE ResetQueue
  BY <1>2 DEF ResetQueue, ResetTaken
<1>3. CASE Fetch
  <2>1. PICK b \in Batches(BatchSize, MaxDepth) : Take(b)
    BY <1>3 DEF Fetch
  <2>2. \A p \in b : status[p] = "open"
    BY DEF Batches, Fetchable
  <2> QED
    BY <1>3, <2>1, <2>2 DEF Fetch, Take
<1>4. ASSUME NEW t \in tasks, StoreError(t)
      PROVE  Rows' = Rows /\ depth' = depth /\ Closed' = Closed
  BY <1>4 DEF StoreError, EnsureError
<1>5. \/ UNCHANGED <<status, depth>> \/ ResetQueue \/ Fetch \/ SeedStatus
      \/ \E t \in tasks : StoreStatus(t) \/ StoreClosed(t) \/ StoreError(t)
  BY DEF Next, MasterStep, WorkerStep, FaultStep, TaskStep, vars, tables, Start, SeedNames, Poll,
         SendTask, Unpark, SendFails, BatchSent, AwaitCompletion, Terminate, Finish, WorkerStart,
         Dequeue, Download, StoreAnalyses, StoreLinks, StoreNames, StatementFails, WorkerDies,
         MasterStatementFails, Crash
<1> QED
  BY <1>1, <1>2, <1>3, <1>4, <1>5

(* What is inserted has a name, a parent and links, by the progress of the *)
(* task that inserts it.                                                   *)
LEMMA NextTables ==
    ASSUME TypeOK, Sound, [Next]_vars
    PROVE  (RowsAreNamed /\ DepthIsReal /\ ClosedIsExplored)'
<1>1. Grows
  BY NextGrows
<1>2. ASSUME NEW p \in Pages, NEW a, Explored(p, a) PROVE Explored(p, a)'
  BY <1>1, <1>2 DEF Grows, Explored
<1>3. \A p \in Closed : \E a \in Web[p] : Explored(p, a)'
  BY <1>2 DEF Sound, ClosedIsExplored, Closed
<1>4. \A p \in Rows : IF depth'[p] = 0 THEN p \in Seeds
        ELSE \E q \in Rows' : depth'[q] + 1 = depth'[p] /\ \E a \in Web[q] : p \in a.links
  BY <1>1 DEF Grows, Sound, DepthIsReal
<1>5. CASE Rows' = Rows /\ depth' = depth /\ Closed' = Closed
  BY <1>1, <1>3, <1>4, <1>5 DEF Sound, RowsAreNamed, DepthIsReal, ClosedIsExplored, Grows
<1>6. CASE SeedStatus
  <2>1. Rows' = Rows \cup Seeds /\ \A p \in Seeds \ Rows : depth'[p] = 0
    BY <1>6, WorkAssumption DEF SeedStatus, EnsureStatus, Rows, TypeOK, TablesTypeOK
  <2>2. Seeds \subseteq names /\ Closed' = Closed
    BY <1>6 DEF SeedStatus, EnsureStatus, Sound, Faithful, Closed, Rows, TypeOK, TablesTypeOK
  <2> QED
    BY <1>1, <1>3, <1>4, <2>1, <2>2 DEF Sound, RowsAreNamed, DepthIsReal, ClosedIsExplored, Grows
<1>7. ASSUME NEW t \in tasks, StoreStatus(t)
      PROVE  (RowsAreNamed /\ DepthIsReal /\ ClosedIsExplored)'
  <2>1. t \in Task /\ Deep(t) /\ Progress(t)
    BY DEF TypeOK, Sound, Faithful
  <2>2. t.answer.links \subseteq names /\ t.answer \in Web[t.page] /\ t.answer.links \subseteq Pages
    BY <1>7, <2>1 DEF Progress, StoreStatus, Task, Answer
  <2>3. Rows' = Rows \cup t.answer.links
        /\ \A p \in t.answer.links \ Rows : depth'[p] = t.depth + 1
    BY <1>7, <2>2 DEF StoreStatus, EnsureStatus, LinkDepth, Rows, TypeOK, TablesTypeOK
  <2>4. t.page \in Rows /\ depth'[t.page] = t.depth /\ t.depth \in Nat
    BY <1>1, <2>1 DEF Deep, Grows, Task
  <2>5. Closed' = Closed
    BY <1>7 DEF StoreStatus, EnsureStatus, Closed, Rows, TypeOK, TablesTypeOK
  <2>6. RowsAreNamed'
    BY <1>1, <2>2, <2>3 DEF Sound, RowsAreNamed, Grows
  <2>7. \A p \in t.answer.links \ Rows : depth'[p] # 0 /\
           \E q \in Rows' : depth'[q] + 1 = depth'[p] /\ \E a \in Web[q] : p \in a.links
    BY <2>2, <2>3, <2>4
  <2>8. DepthIsReal'
    BY <1>4, <2>3, <2>7 DEF DepthIsReal
  <2> QED
    BY <1>3, <2>5, <2>6, <2>8 DEF ClosedIsExplored
<1>8. ASSUME NEW t \in tasks, StoreClosed(t)
      PROVE  (RowsAreNamed /\ DepthIsReal /\ ClosedIsExplored)'
  <2>1. t \in Task /\ Progress(t) /\ t.step = "close"
    BY <1>8 DEF TypeOK, Sound, Faithful, StoreClosed
  <2>2. Rows' = Rows /\ depth' = depth /\ Closed' \subseteq Closed \cup {t.page}
    BY <1>8 DEF StoreClosed, EnsureClosed, Rows, Closed, TypeOK, TablesTypeOK
  <2>3. Explored(t.page, t.answer)' /\ t.answer \in Web[t.page]
    <3>1. Explored(t.page, t.answer) /\ t.answer \in Web[t.page]
      BY <2>1 DEF Progress, Linked, Explored
    <3> QED
      BY <1>2, <2>1, <3>1 DEF Task
  <2> QED
    BY <1>1, <1>3, <1>4, <2>2, <2>3 DEF Sound, RowsAreNamed, DepthIsReal, ClosedIsExplored, Grows
<1> QED
  BY <1>5, <1>6, <1>7, <1>8, RowsChange

(* The two halves together.                                                *)
LEMMA NextSound == TypeOK /\ Sound /\ [Next]_vars => Sound'
  BY NextFaithful, NextTables DEF Sound

(* Every row can be fetched: it has a name.                                *)
THEOREM EveryRowIsNamed == Spec => []RowsAreNamed
<1>1. Sound => RowsAreNamed
  BY DEF Sound
<1> QED
  BY <1>1, InitType, NextType, InitSound, NextSound, PTL DEF Spec

(* A closed page was explored in full, whatever crashed on the way.        *)
THEOREM ClosedMeansExplored == Spec => []ClosedIsExplored
<1>1. Sound => ClosedIsExplored
  BY DEF Sound
<1> QED
  BY <1>1, InitType, NextType, InitSound, NextSound, PTL DEF Spec

(* The depth of a row is the length of a path that the crawl followed.     *)
THEOREM DepthHasAParent == Spec => []DepthIsReal
<1>1. Sound => DepthIsReal
  BY DEF Sound
<1> QED
  BY <1>1, InitType, NextType, InitSound, NextSound, PTL DEF Spec

-----------------------------------------------------------------------------
(* The tables implement GraphSearch.                                       *)

(* A crawl of an empty wave starts as a search.                            *)
LEMMA InitSearch == Init => Search!Init
  BY DEF Init, TablesInit, Search!Init, Rows, Closed

(* A step of the crawl is a step of the search, or leaves it alone:        *)
(* SeedStatus begins it, StoreStatus discovers, StoreClosed completes.     *)
LEMMA NextSearch ==
    TypeOK /\ Exclusive /\ Sound /\ [Next]_vars => [Search!Next]_(Search!search)
<1> SUFFICES ASSUME TypeOK, Exclusive, Sound, [Next]_vars
             PROVE  [Search!Next]_(Search!search)
  OBVIOUS
<1>1. CASE Rows' = Rows /\ depth' = depth /\ Closed' = Closed
  BY <1>1 DEF Search!search
<1>2. CASE SeedStatus
  <2>1. Rows' = Rows \cup Seeds /\ Closed' = Closed
    BY <1>2, WorkAssumption
    DEF SeedStatus, EnsureStatus, Rows, Closed, TypeOK, TablesTypeOK
  <2>2. depth' = [p \in Pages |-> IF p \in Seeds \ Rows THEN 0 ELSE depth[p]]
    BY <1>2 DEF SeedStatus, EnsureStatus
  <2> QED
    BY <2>1, <2>2 DEF Search!Next, Search!Begin, Search!Find
<1>3. ASSUME NEW t \in tasks, StoreStatus(t) \/ StoreClosed(t)
      PROVE  /\ t.page \in Pages
             /\ Search!Pending(t.page)
             /\ depth[t.page] = t.depth
             /\ t.answer.links \in
                  {a.links : a \in {b \in Web[t.page] : b.kind \in {"page", "status", "redirect"}}}
  <2>1. t \in Task /\ Deep(t) /\ Progress(t)
    BY DEF TypeOK, Sound, Faithful
  <2>2. status[t.page] = "taken" /\ t.page \in Pages
    BY <2>1 DEF Exclusive, WorkIsTaken, Holds, Task
  <2> QED
    BY <1>3, <2>1, <2>2
    DEF Deep, Progress, StoreStatus, StoreClosed, Search!Pending, Rows, Closed
<1>4. ASSUME NEW t \in tasks, StoreStatus(t) PROVE Search!Next
  <2>1. t.answer.links \subseteq Pages
    BY DEF TypeOK, Task, Answer
  <2>2. Rows' = Rows \cup t.answer.links /\ Closed' = Closed
    BY <1>4, <2>1 DEF StoreStatus, EnsureStatus, Rows, Closed, TypeOK, TablesTypeOK
  <2>3. depth' = [p \in Pages |-> IF p \in t.answer.links \ Rows THEN t.depth + 1 ELSE depth[p]]
    BY <1>4 DEF StoreStatus, EnsureStatus, LinkDepth
  <2>4. Search!Find(t.answer.links, depth[t.page] + 1)
    BY <1>3, <1>4, <2>2, <2>3 DEF Search!Find
  <2>5. Search!Discover(t.page)
    BY <1>3, <1>4, <2>4 DEF Search!Discover
  <2> QED
    BY <1>3, <1>4, <2>5 DEF Search!Next
<1>5. ASSUME NEW t \in tasks, StoreClosed(t) PROVE Search!Next
  <2>1. t.answer.links \subseteq Rows
    BY <1>5 DEF Sound, Faithful, Progress, StoreClosed
  <2>2. Rows' = Rows /\ depth' = depth /\ Closed' = Closed \cup {t.page}
    BY <1>3, <1>5
    DEF StoreClosed, EnsureClosed, Search!Pending, Rows, Closed, TypeOK, TablesTypeOK
  <2>3. Search!Complete(t.page)
    BY <1>3, <1>5, <2>1, <2>2 DEF Search!Complete
  <2> QED
    BY <1>3, <1>5, <2>3 DEF Search!Next
<1> QED
  BY <1>1, <1>2, <1>4, <1>5, RowsChange

(* However it is scheduled, interrupted and resumed, a crawl is a search   *)
(* of the web from its seeds.                                              *)
THEOREM CrawlIsSearch == Spec => IsSearch
  BY InitType, NextType, InitQuiet, NextQuiet, InitExclusive, NextExclusive, InitSound, NextSound,
     InitSearch, NextSearch, PTL
  DEF Spec, IsSearch, Search!Spec

-----------------------------------------------------------------------------
(* How much a crawl does: the quota as a bound over all runs and crashes,  *)
(* and the reason why a run on a kind web can end at all.                  *)

(* The pages that the workers have been sent and not yet let go of, and    *)
(* those that are closed already.                                          *)
Sent ==
    {p \in Pages :
        \/ \E w \in Workers : \E i \in DOMAIN chan[w] : chan[w][i].page = p
        \/ \E t \in tasks : t.page = p}

Working == Closed \cup Sent

(* The job of a parked sender is in the channel and not counted yet.       *)
Parked == IF mpc = "parked" THEN 1 ELSE 0

(* Every set of pages has a size.                                          *)
LEMMA WorkingFinite ==
    ASSUME NEW S \in SUBSET Pages
    PROVE  IsFiniteSet(S) /\ Cardinality(S) \in Nat
  BY PagesAssumption, FS_Subset, FS_CardinalityType

(* Only StoreClosed closes a row, and it is one that a task had.           *)
LEMMA ClosedChange ==
    ASSUME TypeOK, [Next]_vars
    PROVE  \/ Closed' = Closed
           \/ \E t \in tasks : StoreClosed(t) /\ Closed' \subseteq Closed \cup {t.page}
<1>1. CASE SeedStatus
  BY <1>1 DEF SeedStatus, EnsureStatus, Closed, Rows, TypeOK, TablesTypeOK
<1>2. ASSUME NEW t \in tasks, StoreStatus(t) PROVE Closed' = Closed
  BY <1>2 DEF StoreStatus, EnsureStatus, Closed, Rows, TypeOK, TablesTypeOK
<1>3. ASSUME NEW t \in tasks, StoreClosed(t) PROVE Closed' \subseteq Closed \cup {t.page}
  BY <1>3 DEF StoreClosed, EnsureClosed, Closed, Rows, TypeOK, TablesTypeOK
<1> QED
  BY <1>1, <1>2, <1>3, RowsChange

(* Only a job that is sent adds to the work; a page that is closed was     *)
(* part of it.                                                             *)
LEMMA WorkingGrowth ==
    ASSUME TypeOK, [Next]_vars
    PROVE  \/ Working' \subseteq Working
           \/ SendTask /\ \E p \in Pages : Working' \subseteq Working \cup {p}
<1>1. Closed' \subseteq Working
  <2>1. ASSUME NEW t \in tasks, StoreClosed(t), Closed' \subseteq Closed \cup {t.page}
        PROVE  Closed' \subseteq Working
    <3>1. t.page \in Sent
      BY DEF Sent, TypeOK, Task
    <3> QED
      BY <2>1, <3>1 DEF Working
  <2> QED
    BY <2>1, ClosedChange DEF Working
<1>2. CASE SendTask
  <2>1. PICK j \in batch : chan' = [chan EXCEPT ![Route[j.page]] = Append(@, j)]
    BY <1>2 DEF SendTask, Shallowest
  <2>2. tasks' = tasks /\ Route[j.page] \in Workers /\ j \in Job
    BY <1>2, WorkAssumption DEF SendTask, TypeOK, Job
  <2>3. \A w \in Workers : \A i \in DOMAIN chan'[w] :
           \/ i \in DOMAIN chan[w] /\ chan'[w][i] = chan[w][i]
           \/ chan'[w][i] = j
    BY <2>1, <2>2 DEF TypeOK
  <2>4. Sent' \subseteq Sent \cup {j.page}
    BY <2>2, <2>3 DEF Sent
  <2> QED
    BY <1>1, <1>2, <2>2, <2>4 DEF Working, Job
<1>3. CASE Fetch
  BY <1>1, <1>3 DEF Fetch, workers, Sent, Working
<1>4. ASSUME NEW w \in Workers, Dequeue(w) PROVE Sent' \subseteq Sent
  <2>1. chan[w] \in Seq(Job) /\ chan[w] # <<>> /\ Head(chan[w]) = chan[w][1] /\ 1 \in DOMAIN chan[w]
    BY <1>4 DEF Dequeue, TypeOK
  <2>2. \A t \in tasks' : t \in tasks \/ t.page = chan[w][1].page
    BY <1>4, <2>1 DEF Dequeue
  <2>3. \A v \in Workers : \A i \in DOMAIN chan'[v] :
           \E k \in DOMAIN chan[v] : chan'[v][i] = chan[v][k]
    BY <1>4, <2>1 DEF Dequeue, TypeOK
  <2> QED
    BY <2>1, <2>2, <2>3 DEF Sent
<1>5. ASSUME NEW t \in tasks, TaskStep(t) PROVE Sent' \subseteq Sent
  <2>1. chan' = chan
    BY <1>5 DEF TaskStep, Download, StoreAnalyses, StoreLinks, StoreNames, StoreStatus,
                StoreClosed, StoreError
  <2>2. \A u \in tasks' : \E v \in tasks : u.page = v.page
    BY <1>5, TaskMoves
  <2> QED
    BY <2>1, <2>2 DEF Sent
<1>6. CASE /\ \A w \in Workers : chan'[w] = chan[w] \/ chan'[w] = <<>>
           /\ tasks' \subseteq tasks
  <2>1. Sent' \subseteq Sent
    BY <1>6 DEF Sent
  <2> QED
    BY <1>1, <2>1 DEF Working
<1> QED
  BY <1>1, <1>2, <1>3, <1>4, <1>5, <1>6, WorkMoves DEF Working

(* What the counters say of the batch and of the work, state by state.     *)
Budget ==
    /\ IsFiniteSet(batch)
    /\ mpc \in Booting => nSent = 0
    /\ mpc \notin {"off"} \cup Booting => remaining > 0
    /\ mpc \in {"fetch", "poll"} => nSent < remaining
    /\ mpc \in {"send", "parked"} =>
        nSent + Parked + Cardinality(batch) < remaining + BatchSize
    /\ mpc # "off" /\ remaining > 0 =>
        Cardinality(Working) + remaining <= Quota + nSent + Parked

Bounded == SentBounded /\ ClosedBounded /\ Budget

(* Before the first run nothing is sent and nothing is closed.             *)
LEMMA InitBounded == Init => Bounded
<1> SUFFICES ASSUME Init PROVE Bounded
  OBVIOUS
<1>1. Closed = {}
  BY DEF Init, TablesInit, Closed
<1> QED
  BY <1>1, FS_EmptySet, ProfileAssumption
  DEF Init, Bounded, SentBounded, ClosedBounded, Budget, Booting


(* A fetch returns no more jobs than the limit.                            *)
LEMMA BatchIsSmall ==
    ASSUME TypeOK, Fetch
    PROVE  IsFiniteSet(batch') /\ Cardinality(batch') <= BatchSize
           /\ (batch' = {} <=> mpc' = "poll") /\ mpc' \in {"poll", "send"}
<1>1. PICK b \in Batches(BatchSize, MaxDepth) :
         /\ batch' = {[page |-> p, depth |-> depth[p]] : p \in b}
         /\ mpc' = IF b = {} THEN "poll" ELSE "send"
  BY DEF Fetch
<1>2. b \in SUBSET Pages /\ Cardinality(b) <= BatchSize
  BY DEF Batches, Fetchable, TypeOK, TablesTypeOK
<1>3. IsFiniteSet(b) /\ Cardinality(b) \in Nat
  BY <1>2, WorkingFinite
<1> DEFINE f == [p \in b |-> [page |-> p, depth |-> depth[p]]]
<1>4. f \in Surjection(b, batch')
  BY <1>1 DEF Surjection
<1>5. IsFiniteSet(batch') /\ Cardinality(batch') <= Cardinality(b)
  BY <1>3, <1>4, FS_Surjection
<1>6. Cardinality(batch') \in Nat
  BY <1>5, FS_CardinalityType
<1>7. Cardinality(batch') <= BatchSize
  BY <1>2, <1>3, <1>5, <1>6, ProfileAssumption
<1>8. b = {} <=> batch' = {}
  BY <1>1
<1> QED
  BY <1>1, <1>5, <1>7, <1>8

(* A row is closed by a running master, whose budget bounds all it works   *)
(* on.                                                                     *)
LEMMA NextClosedBounded ==
    ASSUME TypeOK, Quiet, Bounded, [Next]_vars
    PROVE  ClosedBounded'
<1>1. CASE Closed' = Closed
  BY <1>1 DEF Bounded, ClosedBounded
<1>2. ASSUME NEW t \in tasks, StoreClosed(t), Closed' \subseteq Closed \cup {t.page}
      PROVE  ClosedBounded'
  <2>1. t.page \in Sent
    BY DEF Sent, TypeOK, Task
  <2>2. Closed' \subseteq Working /\ Working \subseteq Pages /\ Closed' \subseteq Pages
    BY <1>2, <2>1 DEF Working, Sent, Closed
  <2>3. /\ Cardinality(Closed') \in Nat
        /\ Cardinality(Working) \in Nat
        /\ Cardinality(Closed') <= Cardinality(Working)
    BY <2>2, WorkingFinite, FS_Subset
  <2>4. mpc \notin {"off"} \cup Booting
    BY DEF Quiet
  <2>5. nSent + Parked < remaining + BatchSize
    <3>1. IsFiniteSet(batch) /\ Cardinality(batch) \in Nat
      BY FS_CardinalityType DEF Bounded, Budget
    <3>2. CASE mpc \in {"send", "parked"}
      BY <3>1, <3>2, ProfileAssumption DEF Bounded, Budget, Parked, TypeOK
    <3>3. CASE mpc \notin {"send", "parked"}
      BY <3>3, <2>4, ProfileAssumption DEF Bounded, Budget, SentBounded, Parked, TypeOK
    <3> QED
      BY <3>2, <3>3
  <2>6. Cardinality(Working) + remaining <= Quota + nSent + Parked
    BY <2>4 DEF Bounded, Budget
  <2> QED
    BY <2>3, <2>5, <2>6, ProfileAssumption
    DEF ClosedBounded, Parked, TypeOK
<1> QED
  BY <1>1, <1>2, ClosedChange

(* A page enters the work when its job is sent and counted, and leaves it  *)
(* only by an error; a start counts what is closed already.                *)
LEMMA NextBudget ==
    ASSUME TypeOK, Quiet, Bounded, [Next]_vars
    PROVE  (SentBounded /\ Budget)'
<1> DEFINE W == Cardinality(Working)
<1>1. W \in Nat /\ W' \in Nat
  BY WorkingFinite DEF Working, Sent, Closed
<1>2. W' <= W \/ (SendTask /\ W' <= W + 1)
  <2>1. CASE Working' \subseteq Working
    <3>1. Working \subseteq Pages
      BY DEF Working, Sent, Closed
    <3> QED
      BY <2>1, <3>1, WorkingFinite, FS_Subset
  <2>2. ASSUME SendTask, NEW p \in Pages, Working' \subseteq Working \cup {p}
        PROVE  W' <= W + 1
    <3>1. IsFiniteSet(Working)
      BY WorkingFinite DEF Working, Sent, Closed
    <3>2. IsFiniteSet(Working \cup {p}) /\ Cardinality(Working \cup {p}) \in {W, W + 1}
      BY <3>1, FS_AddElement
    <3>3. W' <= Cardinality(Working \cup {p})
      BY <2>2, <3>2, FS_Subset
    <3> QED
      BY <1>1, <3>2, <3>3
  <2> QED
    BY <2>1, <2>2, WorkingGrowth
<1>3. IsFiniteSet(batch) /\ Cardinality(batch) \in Nat
  BY FS_CardinalityType DEF Bounded, Budget
<1>4. nSent \in Nat /\ remaining \in Nat /\ Quota \in Nat /\ BatchSize \in Nat \ {0}
  BY ProfileAssumption DEF TypeOK
<1> HIDE DEF W
<1> DEFINE Goal == (SentBounded /\ Budget)'
<1>5. ASSUME NEW q \in MaxQuotas, Start(q) PROVE Goal
  <2>1. Working = Closed
    BY <1>5 DEF Start, Quiet, Working, Sent
  <2>2. remaining' > 0 => W + remaining' <= Quota
    BY <1>1, <1>4, <1>5, <2>1, ProfileAssumption
    DEF W, Start, SaturatingSub, Least, CountCrawled
  <2>3. nSent' = 0 /\ mpc' = "seed_names" /\ batch' = batch /\ remaining' \in Nat
    BY <1>5, NextType DEF Start, TypeOK
  <2>4. W' <= W
    BY <1>2, <1>5 DEF Start, SendTask
  <2> QED
    BY <1>1, <1>3, <1>4, <2>2, <2>3, <2>4 DEF SentBounded, Budget, Booting, Parked, W
<1>6. ASSUME UNCHANGED <<mpc, batch, nSent, remaining>>, ~ SendTask PROVE Goal
  BY <1>1, <1>2, <1>3, <1>4, <1>6 DEF Bounded, SentBounded, Budget, Booting, Parked, W
<1>7. ASSUME UNCHANGED <<batch, nSent, remaining>>, mpc \in Booting, mpc' \in Booting \cup {"off"}
      PROVE  Goal
  BY <1>1, <1>2, <1>3, <1>4, <1>7 DEF Bounded, SentBounded, Budget, Booting, Parked, W, SendTask
<1>8. ASSUME UNCHANGED <<batch, nSent, remaining>>,
             mpc \in {"fetch", "poll", "await", "terminate"},
             mpc' \in {"fetch", "terminate", "off"}, mpc' = "fetch" => mpc = "poll"
      PROVE  Goal
  BY <1>1, <1>2, <1>3, <1>4, <1>8 DEF Bounded, SentBounded, Budget, Booting, Parked, W, SendTask
<1>9. CASE ResetQueue
  <2>1. CASE remaining = 0
    BY <1>7, <1>9, <2>1 DEF ResetQueue, Booting
  <2>2. CASE remaining # 0
    BY <1>1, <1>2, <1>3, <1>4, <1>9, <2>2
    DEF ResetQueue, Bounded, SentBounded, Budget, Booting, Parked, W, SendTask
  <2> QED
    BY <2>1, <2>2
<1>10. CASE Fetch
  <2>1. IsFiniteSet(batch') /\ Cardinality(batch') \in Nat /\ Cardinality(batch') <= BatchSize
        /\ mpc' \in {"poll", "send"} /\ UNCHANGED <<nSent, remaining>> /\ mpc = "fetch"
    BY <1>10, BatchIsSmall, FS_CardinalityType DEF Fetch
  <2> QED
    BY <1>1, <1>2, <1>4, <1>10, <2>1
    DEF Bounded, SentBounded, Budget, Booting, Parked, W, SendTask
<1>11. CASE SendTask
  <2>1. PICK j \in batch :
           /\ batch' = batch \ {j}
           /\ \/ nSent' = nSent + 1 /\ mpc' = "send"
              \/ nSent' = nSent /\ mpc' = "parked"
    BY <1>11 DEF SendTask, Shallowest
  <2>2. IsFiniteSet(batch') /\ Cardinality(batch') + 1 = Cardinality(batch)
        /\ Cardinality(batch') \in Nat
    <3>1. IsFiniteSet(batch \ {j}) /\ Cardinality(batch \ {j}) = Cardinality(batch) - 1
      BY <1>3, <2>1, FS_RemoveElement
    <3>2. Cardinality(batch \ {j}) \in Nat
      BY <3>1, FS_CardinalityType
    <3> QED
      BY <1>3, <2>1, <3>1, <3>2
  <2>3. mpc = "send" /\ remaining' = remaining
    BY <1>11 DEF SendTask
  <2> QED
    BY <1>1, <1>2, <1>4, <2>1, <2>2, <2>3 DEF Bounded, SentBounded, Budget, Booting, Parked, W
<1>12. CASE Unpark
  BY <1>1, <1>2, <1>3, <1>4, <1>12
  DEF Unpark, Bounded, SentBounded, Budget, Booting, Parked, W, SendTask
<1>13. CASE SendFails
  BY <1>1, <1>2, <1>3, <1>4, <1>13, FS_EmptySet
  DEF SendFails, Bounded, SentBounded, Budget, Booting, Parked, W, SendTask
<1>14. CASE BatchSent
  BY <1>1, <1>2, <1>3, <1>4, <1>14
  DEF BatchSent, QuotaReached, Bounded, SentBounded, Budget, Booting, Parked, W, SendTask
<1>15. CASE Crash
  BY <1>4, <1>15, FS_EmptySet DEF Crash, Bounded, SentBounded, Budget, Booting
<1>16. CASE SeedNames \/ SeedStatus
  BY <1>7, <1>16 DEF SeedNames, SeedStatus, Booting
<1>17. CASE Poll \/ AwaitCompletion \/ Finish
  BY <1>8, <1>17 DEF Poll, AwaitCompletion, Finish
<1>18. CASE MasterStatementFails
  BY <1>7, <1>8, <1>18 DEF MasterStatementFails
<1>19. ASSUME NEW t \in tasks, TaskStep(t) PROVE Goal
  <2>1. UNCHANGED <<mpc, batch, nSent, remaining>>
    BY <1>19 DEF TaskStep, Download, StoreAnalyses, StoreLinks, StoreNames, StoreStatus,
                 StoreClosed, StoreError, master
  <2>2. W' <= W
    BY <1>2, <2>1 DEF SendTask, Shallowest
  <2> QED
    BY <1>1, <1>3, <1>4, <2>1, <2>2 DEF Bounded, SentBounded, Budget, Booting, Parked, W
<1>20. CASE \/ UNCHANGED vars
            \/ \E w \in Workers : Terminate(w) \/ WorkerStart(w) \/ Dequeue(w) \/ WorkerDies(w)
            \/ \E t \in tasks : StatementFails(t)
  <2>1. UNCHANGED <<mpc, batch, nSent, remaining>>
    BY <1>20 DEF vars, master, Terminate, WorkerStart, Dequeue, WorkerDies, StatementFails
  <2>2. W' <= W
    BY <1>2, <2>1 DEF SendTask, Shallowest
  <2> QED
    BY <1>1, <1>3, <1>4, <2>1, <2>2 DEF Bounded, SentBounded, Budget, Booting, Parked, W
<1> QED
  BY <1>5, <1>9, <1>10, <1>11, <1>12, <1>13, <1>14, <1>15, <1>16, <1>17, <1>18, <1>19, <1>20
  DEF Next, MasterStep, WorkerStep, FaultStep

(* The three parts together.                                               *)
LEMMA NextBounded == TypeOK /\ Quiet /\ Bounded /\ [Next]_vars => Bounded'
  BY NextClosedBounded, NextBudget DEF Bounded

(* A run overshoots its quota by less than a batch.                        *)
THEOREM OvershootIsBounded == Spec => []SentBounded
<1>1. Bounded => SentBounded
  BY DEF Bounded
<1> QED
  BY <1>1, InitType, NextType, InitQuiet, NextQuiet, InitBounded, NextBounded, PTL DEF Spec

(* So do all the runs of a wave together, however many crash.              *)
THEOREM QuotaHolds == Spec => []ClosedBounded
<1>1. Bounded => ClosedBounded
  BY DEF Bounded
<1> QED
  BY <1>1, InitType, NextType, InitQuiet, NextQuiet, InitBounded, NextBounded, PTL DEF Spec


-----------------------------------------------------------------------------
(* When nothing fails.                                                     *)

(* A page whose analyses are stored is closed, or a task is closing it: so *)
(* that a healthy crawl never stores them twice.                           *)
AnalyzedOnce ==
    \A p \in analyzed :
        \/ p \in Closed
        \/ \E t \in tasks : t.page = p /\ t.step \in {"links", "names", "status", "close"}

AllServe ==
    /\ mpc \notin {"off", "terminate"} => \A w \in Workers : wpc[w] # "off"
    /\ mpc = "terminate" => tasks = {} /\ \A w \in Workers : chan[w] = <<>>

Serves == AnalyzedOnce /\ AllServe /\ TakenIsHeld

(* Before the first run no row is taken and nothing is analyzed.           *)
LEMMA InitServes == Init => Serves
  BY DEF Init, TablesInit, Serves, AnalyzedOnce, AllServe, TakenIsHeld

(* A step of a task of a healthy crawl keeps the page or lets it go with   *)
(* its row closed or in error.                                             *)
LEMMA HealthyTask ==
    ASSUME Healthy, TypeOK, Quiet, Exclusive, Serves, NEW t \in tasks, TaskStep(t)
    PROVE  Serves'
<1>1. t \in Task /\ status[t.page] = "taken" /\ t.page \in Pages
  BY DEF TypeOK, Task, Exclusive, WorkIsTaken, Holds
<1>2. UNCHANGED <<mpc, batch, wpc, chan>>
  BY DEF TaskStep, Download, StoreAnalyses, StoreLinks, StoreNames, StoreStatus, StoreClosed,
         StoreError, master
<1>3. AllServe'
  BY <1>2 DEF Serves, AllServe
<1>4. t.page \in analyzed => t.step \in {"links", "names", "status", "close"}
  BY <1>1 DEF Serves, AnalyzedOnce, Exclusive, HeldOnce, Closed
<1>5. ASSUME NEW u, u.page = t.page, tasks' = (tasks \ {t}) \cup {u},
             \A p \in Pages : status'[p] = "taken" => status[p] = "taken"
      PROVE  TakenIsHeld'
  <2>1. \A p \in Pages : Holds(p) => Holds(p)'
    BY <1>2, <1>5 DEF Holds, InChannel
  <2> QED
    BY <1>2, <1>5, <2>1 DEF Serves, TakenIsHeld
<1>6. ASSUME NEW u, u.page = t.page, u.step \in {"links", "names", "status", "close"},
             tasks' = (tasks \ {t}) \cup {u}, analyzed' \subseteq analyzed \cup {t.page},
             Closed \subseteq Closed'
      PROVE  AnalyzedOnce'
  BY <1>6 DEF Serves, AnalyzedOnce
<1> DEFINE next == [t EXCEPT !.step = StepAfter[t.step]]
<1>7. t.step \in DOMAIN StepAfter =>
        next.page = t.page /\ next.step \in {"links", "names", "status", "close"}
  BY <1>1 DEF Task, StepAfter
<1>8. CASE Download(t)
  <2>1. PICK a \in Web[t.page] :
           tasks' = (tasks \ {t}) \cup {[t EXCEPT !.step = FirstStep(a), !.answer = a]}
    BY <1>1, <1>8 DEF Download, Healthy
  <2> DEFINE u == [t EXCEPT !.step = FirstStep(a), !.answer = a]
  <2>2. u.page = t.page /\ UNCHANGED <<status, analyzed>> /\ t.step = "crawl"
    BY <1>1, <1>8 DEF Download, tables, Task
  <2>3. TakenIsHeld'
    BY <1>5, <2>1, <2>2
  <2>4. AnalyzedOnce'
    BY <1>4, <2>1, <2>2 DEF Serves, AnalyzedOnce, Closed
  <2> QED
    BY <1>3, <2>3, <2>4 DEF Serves
<1>9. CASE StoreAnalyses(t)
  <2>1. t.step = "analyze" /\ CanAnalyze(t.page)
    BY <1>4, <1>9 DEF StoreAnalyses, CanAnalyze
  <2>2. tasks' = (tasks \ {t}) \cup {next} /\ status' = status
        /\ analyzed' \subseteq analyzed \cup {t.page}
    BY <1>9, <2>1 DEF StoreAnalyses, EnsureAnalyzed, Advance
  <2>3. TakenIsHeld' /\ AnalyzedOnce'
    BY <1>5, <1>6, <1>7, <2>1, <2>2 DEF StepAfter, Closed
  <2> QED
    BY <1>3, <2>3 DEF Serves
<1>10. CASE StoreLinks(t) \/ StoreNames(t) \/ StoreStatus(t)
  <2>1. tasks' = (tasks \ {t}) \cup {next} /\ analyzed' = analyzed /\ t.step \in DOMAIN StepAfter
    BY <1>10 DEF StoreLinks, StoreNames, StoreStatus, Advance, StepAfter
  <2>2. /\ \A p \in Pages : status'[p] = "taken" => status[p] = "taken"
        /\ Closed \subseteq Closed'
    BY <1>10 DEF StoreLinks, StoreNames, StoreStatus, EnsureStatus, Closed, Rows
  <2>3. TakenIsHeld' /\ AnalyzedOnce'
    BY <1>5, <1>6, <1>7, <2>1, <2>2
  <2> QED
    BY <1>3, <2>3 DEF Serves
<1>11. CASE StoreClosed(t) \/ StoreError(t)
  <2>1. tasks' = tasks \ {t} /\ analyzed' = analyzed
    BY <1>11 DEF StoreClosed, StoreError, Finished
  <2>2. /\ \A p \in Pages \ {t.page} : status'[p] = status[p]
        /\ status'[t.page] # "taken"
        /\ StoreClosed(t) => status'[t.page] = "closed"
    BY <1>1, <1>11 DEF StoreClosed, StoreError, EnsureClosed, EnsureError, Rows, Closed
  <2>3. \A p \in Pages \ {t.page} : Holds(p) => Holds(p)'
    BY <1>2, <2>1 DEF Holds, InChannel
  <2>4. TakenIsHeld'
    BY <1>2, <2>2, <2>3 DEF Serves, TakenIsHeld
  <2>5. StoreError(t) => t.page \notin analyzed
    BY <1>4 DEF StoreError
  <2>6. AnalyzedOnce'
    BY <1>1, <1>11, <2>1, <2>2, <2>5 DEF Serves, AnalyzedOnce, Closed, TypeOK, TablesTypeOK
  <2> QED
    BY <1>3, <2>4, <2>6 DEF Serves
<1> QED
  BY <1>8, <1>9, <1>10, <1>11 DEF TaskStep

(* In a healthy crawl a job is never dropped: it moves on until its row is *)
(* closed or in error, and the workers are terminated when there is none.  *)
LEMMA NextServes ==
    ASSUME Healthy, TypeOK, Quiet, Exclusive, Serves, [Next]_vars
    PROVE  Serves'
<1> USE DEF Serves
<1>1. ASSUME UNCHANGED <<tables, batch, chan, tasks>>, AllServe', mpc \notin {"off"} \cup Booting
      PROVE  Serves'
  BY <1>1 DEF AnalyzedOnce, TakenIsHeld, tables, Closed, Holds, InChannel
<1>2. ASSUME analyzed' = analyzed, Closed' = Closed, tasks' = tasks, AllServe',
             mpc' \in {"off"} \cup Booting
      PROVE  Serves'
  BY <1>2 DEF AnalyzedOnce, TakenIsHeld
<1>3. ASSUME NEW q \in MaxQuotas, Start(q) PROVE Serves'
  BY <1>2, <1>3 DEF Start, Booting, tables, Closed, AllServe
<1>4. CASE SeedNames
  BY <1>2, <1>4 DEF SeedNames, Booting, workers, Closed, AllServe
<1>5. CASE SeedStatus
  <2>1. Closed' = Closed
    BY <1>5 DEF SeedStatus, EnsureStatus, Closed, Rows, TypeOK, TablesTypeOK
  <2> QED
    BY <1>2, <1>5, <2>1 DEF SeedStatus, Booting, workers, AllServe
<1>6. CASE ResetQueue
  <2>1. Closed' = Closed /\ analyzed' = analyzed /\ \A p \in Pages : status'[p] # "taken"
    BY <1>6 DEF ResetQueue, ResetTaken, Closed, TypeOK, TablesTypeOK
  <2>2. tasks = {} /\ tasks' = {} /\ \A w \in Workers : chan'[w] = <<>>
    BY <1>6 DEF ResetQueue, StopAllWorkers, workers, Quiet, Booting
  <2>3. AllServe'
    BY <1>6, <2>2 DEF ResetQueue, workers, AllServe
  <2> QED
    BY <2>1, <2>2, <2>3 DEF AnalyzedOnce, TakenIsHeld
<1>7. CASE Fetch
  <2>1. PICK b \in Batches(BatchSize, MaxDepth) :
           /\ Take(b)
           /\ batch' = {[page |-> p, depth |-> depth[p]] : p \in b}
           /\ mpc' = IF b = {} THEN "poll" ELSE "send"
    BY <1>7 DEF Fetch
  <2>2. UNCHANGED <<analyzed, chan, tasks, wpc>> /\ mpc = "fetch" /\ batch = {}
    BY <1>7 DEF Fetch, workers, Quiet
  <2>3. \A p \in b : status[p] = "open"
    BY DEF Batches, Fetchable
  <2>4. Closed' = Closed
    BY <2>1, <2>3 DEF Take, Closed, TypeOK, TablesTypeOK
  <2>5. AllServe'
    BY <2>1, <2>2 DEF AllServe
  <2>6. ASSUME NEW p \in Pages, status'[p] = "taken" PROVE Holds(p)'
    <3>1. CASE p \in b
      <4>1. [page |-> p, depth |-> depth[p]] \in batch'
        BY <2>1, <3>1
      <4> QED
        BY <4>1 DEF Holds
    <3>2. CASE p \notin b
      <4>1. Holds(p)
        BY <2>1, <2>2, <2>6, <3>2 DEF Take, TakenIsHeld, Booting
      <4> QED
        BY <2>2, <4>1 DEF Holds, InChannel
    <3> QED
      BY <3>1, <3>2
  <2> QED
    BY <2>2, <2>4, <2>5, <2>6 DEF AnalyzedOnce, TakenIsHeld
<1>8. CASE Poll \/ AwaitCompletion
  <2>1. mpc' = "terminate" => \A p \in Pages : status[p] # "taken"
    BY <1>8 DEF Poll, AwaitCompletion, ExistsTaken
  <2>2. mpc' = "terminate" => tasks = {} /\ \A w \in Workers : chan[w] = <<>>
    <3>1. ASSUME mpc' = "terminate", NEW t \in tasks PROVE FALSE
      BY <2>1, <3>1 DEF Exclusive, WorkIsTaken, Holds, TypeOK, Task
    <3>2. ASSUME mpc' = "terminate", NEW w \in Workers, chan[w] # <<>> PROVE FALSE
      <4>1. chan[w] \in Seq(Job) /\ 1 \in DOMAIN chan[w] /\ chan[w][1] \in Job
        BY <3>2 DEF TypeOK
      <4> QED
        BY <2>1, <3>2, <4>1 DEF Exclusive, WorkIsTaken, Holds, InChannel, Job
    <3> QED
      BY <3>1, <3>2
  <2>3. AllServe'
    BY <1>8, <2>2 DEF Poll, AwaitCompletion, workers, AllServe
  <2> QED
    BY <1>1, <1>8, <2>3 DEF Poll, AwaitCompletion, tables, workers, Booting
<1>9. CASE SendTask
  <2>1. PICK j \in batch :
           /\ batch' = batch \ {j}
           /\ chan' = [chan EXCEPT ![Route[j.page]] = Append(@, j)]
           /\ mpc' \in {"send", "parked"}
    BY <1>9 DEF SendTask, Shallowest
  <2> DEFINE v == Route[j.page]
  <2>2. UNCHANGED <<tables, tasks, wpc>> /\ mpc = "send"
    BY <1>9 DEF SendTask
  <2>3. v \in Workers /\ chan[v] \in Seq(Job) /\ j \in Job
    BY WorkAssumption DEF TypeOK, Job
  <2>4. /\ \A w \in Workers : \A i \in DOMAIN chan[w] : i \in DOMAIN chan'[w] /\ chan'[w][i] = chan[w][i]
        /\ Len(chan[v]) + 1 \in DOMAIN chan'[v] /\ chan'[v][Len(chan[v]) + 1] = j
    BY <2>1, <2>3 DEF TypeOK
  <2>5. \A p \in Pages : Holds(p) => Holds(p)'
    <3>1. \A p \in Pages : (\E w \in Workers : \E k \in InChannel(w) : k.page = p) => Holds(p)'
      BY <2>4 DEF Holds, InChannel
    <3>2. \A p \in Pages : p = j.page => Holds(p)'
      BY <2>3, <2>4 DEF Holds, InChannel
    <3>3. \A p \in Pages : (\E k \in batch : k.page = p) => Holds(p)'
      BY <2>1, <3>2 DEF Holds
    <3>4. \A p \in Pages : (\E t \in tasks : t.page = p) => Holds(p)'
      BY <2>2 DEF Holds
    <3> QED
      BY <3>1, <3>3, <3>4 DEF Holds
  <2>6. AllServe'
    BY <2>1, <2>2 DEF AllServe
  <2> QED
    BY <2>1, <2>2, <2>5, <2>6 DEF AnalyzedOnce, TakenIsHeld, tables, Closed, Booting
<1>10. CASE Unpark \/ BatchSent
  BY <1>1, <1>10 DEF Unpark, BatchSent, tables, workers, AllServe, Booting
<1>11. CASE SendFails
  <2>1. PICK j \in batch : wpc[Route[j.page]] = "off"
    BY <1>11 DEF SendFails, Shallowest
  <2>2. Route[j.page] \in Workers
    BY WorkAssumption DEF TypeOK, Job
  <2> QED
    BY <1>11, <2>1, <2>2 DEF SendFails, AllServe
<1>12. ASSUME NEW w \in Workers, Terminate(w) PROVE Serves'
  <2>1. tasks' = tasks /\ UNCHANGED <<mpc, batch, tables>> /\ mpc = "terminate"
    BY <1>12 DEF Terminate, StopWorker, master, AllServe
  <2>2. chan' = chan
    BY <1>12 DEF Terminate, StopWorker, AllServe, TypeOK
  <2> QED
    BY <1>1, <2>1, <2>2 DEF AllServe, Booting
<1>13. CASE Finish
  BY <1>2, <1>13 DEF Finish, tables, workers, Closed, AllServe
<1>14. ASSUME NEW w \in Workers, WorkerStart(w) PROVE Serves'
  <2>1. AllServe' /\ UNCHANGED <<tables, batch, chan, tasks, mpc>>
    BY <1>14 DEF WorkerStart, master, AllServe, TypeOK
  <2> QED
    BY <1>1, <1>2, <2>1 DEF tables, Closed
<1>15. ASSUME NEW w \in Workers, Dequeue(w) PROVE Serves'
  <2> DEFINE h == chan[w][1]
  <2>1. chan[w] \in Seq(Job) /\ chan[w] # <<>> /\ Head(chan[w]) = h /\ 1 \in DOMAIN chan[w]
    BY <1>15 DEF Dequeue, TypeOK
  <2>2. PICK u : u.page = h.page /\ tasks' = tasks \cup {u}
    BY <1>15, <2>1 DEF Dequeue
  <2>3. UNCHANGED <<tables, mpc, batch, wpc>> /\ chan' = [chan EXCEPT ![w] = Tail(@)]
    BY <1>15 DEF Dequeue, master
  <2>4. mpc \notin {"off", "terminate"} \cup Booting
    BY <2>1 DEF AllServe, Quiet, Booting
  <2>5. \A v \in Workers : \A i \in DOMAIN chan[v] :
           \/ v # w /\ i \in DOMAIN chan'[v] /\ chan'[v][i] = chan[v][i]
           \/ v = w /\ i = 1
           \/ v = w /\ i - 1 \in DOMAIN chan'[v] /\ chan'[v][i - 1] = chan[v][i]
    BY <2>1, <2>3 DEF TypeOK
  <2>6. \A p \in Pages : Holds(p) => Holds(p)'
    <3>1. \A p \in Pages : (\E v \in Workers : \E k \in InChannel(v) : k.page = p) => Holds(p)'
      BY <2>2, <2>5 DEF Holds, InChannel
    <3> QED
      BY <2>2, <2>3, <3>1 DEF Holds
  <2>7. AllServe'
    BY <2>3, <2>4 DEF AllServe
  <2>8. AnalyzedOnce'
    BY <2>2, <2>3 DEF AnalyzedOnce, tables, Closed
  <2> QED
    BY <2>3, <2>6, <2>7, <2>8 DEF TakenIsHeld, tables
<1>16. ASSUME NEW t \in tasks, TaskStep(t) PROVE Serves'
  BY <1>16, HealthyTask
<1>17. CASE FaultStep
  BY <1>17 DEF FaultStep, Healthy, StatementFails, WorkerDies, MasterStatementFails, Crash
<1>18. CASE UNCHANGED vars
  BY <1>1, <1>2, <1>18 DEF vars, tables, master, workers, Closed, AllServe
<1> QED
  BY <1>3, <1>4, <1>5, <1>6, <1>7, <1>8, <1>9, <1>10, <1>11, <1>12, <1>13, <1>14, <1>15, <1>16,
     <1>17, <1>18
  DEF Next, MasterStep, WorkerStep

(* In a crawl where nothing fails, no robots.txt disallows a page and no   *)
(* redirect is bad, a taken row is always one that the process holds.      *)
THEOREM NothingStaysTaken ==
    ASSUME Healthy
    PROVE  Spec => []TakenIsHeld
<1>1. Serves => TakenIsHeld
  BY DEF Serves
<1>2. TypeOK /\ Quiet /\ Exclusive /\ Serves /\ [Next]_vars => Serves'
  BY NextServes
<1> QED
  BY <1>1, <1>2, InitType, NextType, InitQuiet, NextQuiet, InitExclusive, NextExclusive, InitServes,
     PTL
  DEF Spec

(* In such a crawl the master terminates workers that have nothing to do.  *)
THEOREM NothingIsCut ==
    ASSUME Healthy
    PROVE  Spec => []TerminateCutsNothing
<1>1. Serves => TerminateCutsNothing
  BY DEF Serves, AllServe, TerminateCutsNothing
<1>2. TypeOK /\ Quiet /\ Exclusive /\ Serves /\ [Next]_vars => Serves'
  BY NextServes
<1> QED
  BY <1>1, <1>2, InitType, NextType, InitQuiet, NextQuiet, InitExclusive, NextExclusive, InitServes,
     PTL
  DEF Spec

=============================================================================
