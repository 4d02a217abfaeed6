------------------------ MODULE RemoteWorkers_proofs ------------------------
(***************************************************************************)
(* Theorems about RemoteWorkers, for any number of workers, servers, jobs  *)
(* and tries, whatever is late, lost or crashes.                           *)
(***************************************************************************)
EXTENDS RemoteWorkers, FiniteSetTheorems, SequenceTheorems, TLAPS

-----------------------------------------------------------------------------
(* What the proofs need beyond the properties.                             *)

(* The calls of a send for a job, and so on, are told apart by their try.  *)
Settled(c) ==
    \/ c.op = "build" /\ built[c.who] # "no"
    \/ c.op = "send" /\ told[c.who] # "unsent"
    \/ c.op = "terminate" /\ ended[c.who] # "no"

Made(c) ==
    \/ call # NoCall /\ c.op = call.op /\ c.who = call.who /\ c.try <= call.try
    \/ Settled(c)

(* The master knows which calls it has made, and what came of them.        *)
Known ==
    /\ call # NoCall => call.op = phase /\ ~ Settled(call)
    /\ call # NoCall /\ answer # "none" => at[call] = "over"
    /\ \A c \in Calls : at[c] # "none" => Made(c)
    /\ \A c \in Calls : c.op = "build" /\ built[c.who] = "ok" => at[c] = "over"
    /\ \A c \in Calls : c.op = "terminate" /\ at[c] # "none" => built[c.who] = "ok"
    /\ phase \in {"send", "terminate"} => \A w \in Workers : built[w] = "ok"
    /\ phase = "end" =>
        (\E w \in Workers : built[w] = "failed") \/ \A w \in Workers : ended[w] # "no"

(* A send has the read lock.                                               *)
Shares(q, c) == \E i \in DOMAIN q : q[i] = c /\ \A k \in 1 .. i : q[k].op = "send"

(* A send that waits for room is among those that read, and so no call     *)
(* that writes can take its worker from the table.                         *)
Queues ==
    \A c \in Calls : at[c] = "sending" =>
        c.op = "send" /\ Shares(Lock(c), c) /\ WorkerOf(c) \in table

(* A worker that will not be found any more.                               *)
Gone(w) ==
    /\ built[w] = "ok"
    /\ w \notin table
    /\ worker[w] = "up" => BeingCancelled(w)

(* A worker that runs is in the table, on its way to it or out of it.      *)
Running ==
    /\ \A c \in Calls : c.op = "build" /\ at[c] \in {"none", "request"} => worker[c.who] = "none"
    /\ \A c \in Calls : at[c] \in {"queued", "sending", "cancelling"} => ServerOf(WorkerOf(c)) \in Trusting
    /\ \A w \in Workers : ServerOf(w) \notin Trusting => worker[w] = "none" /\ w \notin table
    /\ \A w \in Workers : worker[w] = "up" =>
        \/ w \in table
        \/ \E c \in Calls : c.op = "build" /\ c.who = w /\ at[c] = "queued"
        \/ BeingCancelled(w)
    /\ \A c \in Calls : at[c] = "cancelling" => c.op = "terminate" /\ Gone(c.who)
    /\ call # NoCall /\ call.op = "terminate" /\ answer # "none" => Gone(call.who)
    /\ \A w \in Workers : ended[w] = "terminated" => Gone(w)

(* Each try delivers a job once at most.                                   *)
Pending(j) ==
    {n \in 1 .. MaxRetries :
        \A c \in Calls : c.op = "send" /\ c.who = j /\ c.try = n => at[c] # "over"}

Counted ==
    /\ \A j \in Jobs : delivered[j] + Cardinality(Pending(j)) <= MaxRetries
    /\ call # NoCall /\ call.op = "send" /\ answer = "ok" => delivered[call.who] > 0

-----------------------------------------------------------------------------
(* Calls.                                                                  *)

(* What a call is: its parts, and whose worker it is about.                *)
LEMMA CallFacts ==
    ASSUME NEW c \in Calls
    PROVE  /\ c.op \in {"build", "send", "terminate"}
           /\ c.op = "send" => c.who \in Jobs
           /\ c.op # "send" => c.who \in Workers
           /\ c.op = "build" => c.try = 1
           /\ c.op # "build" => c.try \in 1 .. MaxRetries
           /\ c.try \in Nat
           /\ c = [op |-> c.op, who |-> c.who, try |-> c.try]
           /\ WorkerOf(c) \in Workers
           /\ WorkerOf(c) = IF c.op = "send" THEN Chosen[c.who] ELSE c.who
<1>1. CASE c \in [op : {"build"}, who : Workers, try : {1}]
  BY <1>1 DEF WorkerOf
<1>2. CASE c \in [op : {"send"}, who : Jobs, try : 1 .. MaxRetries]
  BY <1>2, JobsAssumption DEF WorkerOf
<1>3. CASE c \in [op : {"terminate"}, who : Workers, try : 1 .. MaxRetries]
  BY <1>3, JobsAssumption DEF WorkerOf
<1> QED
  BY <1>1, <1>2, <1>3 DEF Calls

(* Every worker has a server.                                              *)
LEMMA ServerFacts ==
    ASSUME NEW w \in Workers
    PROVE  ServerOf(w) \in Servers
<1>1. w \in Int /\ NServers \in Int /\ NServers > 0
  BY PoolAssumption DEF Workers
<1>2. w % NServers \in 0 .. NServers - 1
  BY <1>1
<1> QED
  BY <1>2 DEF ServerOf, Servers

(* A call is told by its three parts.                                      *)
LEMMA SameCall ==
    ASSUME NEW c \in Calls, NEW d \in Calls,
           c.op = d.op, c.who = d.who, c.try = d.try
    PROVE  c = d
  BY CallFacts

(* The tries to send a job are calls.                                      *)
LEMMA SendCalls ==
    ASSUME NEW j \in Jobs, NEW n \in 1 .. MaxRetries
    PROVE  [op |-> "send", who |-> j, try |-> n] \in Calls
  BY DEF Calls

(* The tries to terminate a worker are calls.                              *)
LEMMA TerminateCalls ==
    ASSUME NEW w \in Workers, NEW n \in 1 .. MaxRetries
    PROVE  [op |-> "terminate", who |-> w, try |-> n] \in Calls
  BY DEF Calls

(* There is one call to build a worker.                                    *)
LEMMA BuildCalls ==
    ASSUME NEW w \in Workers
    PROVE  [op |-> "build", who |-> w, try |-> 1] \in Calls
  BY DEF Calls

-----------------------------------------------------------------------------
(* Who leaves a queue leaves the others in their order.                    *)
LEMMA Removing ==
    ASSUME NEW S, NEW q \in Seq(S), NEW e
    PROVE  \/ Without(q, e) = q /\ \A k \in DOMAIN q : q[k] # e
           \/ \E k \in 1 .. Len(q) :
                /\ q[k] = e
                /\ Without(q, e) \in Seq(S)
                /\ Len(Without(q, e)) = Len(q) - 1
                /\ \A j \in 1 .. k - 1 : Without(q, e)[j] = q[j]
                /\ \A j \in k .. Len(q) - 1 : Without(q, e)[j] = q[j + 1]
<1> DEFINE k == CHOOSE i \in DOMAIN q : q[i] = e
<1>1. CASE ~ Contains(q, e)
  BY <1>1 DEF Without, Contains
<1>2. CASE Contains(q, e)
  <2>1. k \in DOMAIN q /\ q[k] = e
    BY <1>2 DEF Contains
  <2>2. Without(q, e) = RemoveAt(q, k)
    BY <1>2 DEF Without
  <2>3. k \in 1 .. Len(q) /\ q[k] = e /\ Len(q) \in Nat
    BY <2>1
  <2> HIDE DEF k
  <2> DEFINE front == SubSeq(q, 1, k - 1)
             back == SubSeq(q, k + 1, Len(q))
  <2>4. RemoveAt(q, k) = front \o back
    BY DEF RemoveAt
  <2>6. /\ front \in Seq(S) /\ Len(front) = k - 1
        /\ \A j \in 1 .. k - 1 : front[j] = q[j]
    BY <2>3, SubSeqProperties
  <2>7. /\ back \in Seq(S) /\ Len(back) = Len(q) - k
        /\ \A j \in 1 .. Len(q) - k : back[j] = q[k + j]
    BY <2>3, SubSeqProperties
  <2> HIDE DEF front, back
  <2>5. Len(front) \in Nat /\ Len(back) \in Nat /\ Len(front) + Len(back) = Len(q) - 1
    BY <2>3, <2>6, <2>7
  <2>8. /\ front \o back \in Seq(S)
        /\ Len(front \o back) = Len(q) - 1
        /\ \A j \in 1 .. Len(q) - 1 :
              (front \o back)[j] = IF j <= k - 1 THEN front[j] ELSE back[j - (k - 1)]
    BY <2>5, <2>6, <2>7, ConcatProperties
  <2>10. ASSUME NEW j \in 1 .. k - 1 PROVE (front \o back)[j] = q[j]
    BY <2>3, <2>6, <2>8
  <2>11. ASSUME NEW j \in k .. Len(q) - 1 PROVE (front \o back)[j] = q[j + 1]
    <3>1. j \in 1 .. Len(q) - 1 /\ ~ j <= k - 1
      BY <2>3
    <3>2. (front \o back)[j] = back[j - (k - 1)]
      BY <3>1, <2>8
    <3>3. j - (k - 1) \in 1 .. Len(q) - k /\ k + (j - (k - 1)) = j + 1
      BY <2>3
    <3> QED
      BY <3>2, <3>3, <2>7
  <2> QED
    BY <2>2, <2>3, <2>4, <2>8, <2>10, <2>11
<1> QED
  BY <1>1, <1>2

(* What is left of a queue is a queue.                                     *)
LEMMA RemovingType ==
    ASSUME NEW S, NEW q \in Seq(S), NEW e
    PROVE  Without(q, e) \in Seq(S)
  BY Removing

(* Who shares a lock goes on to when another leaves it, or comes.          *)
LEMMA SharesOn ==
    ASSUME NEW q \in Seq(Calls), NEW c \in Calls, NEW e \in Calls, Shares(q, c)
    PROVE  /\ e # c => Shares(Without(q, e), c)
           /\ Shares(Append(q, e), c)
<1>1. PICK i \in 1 .. Len(q) : q[i] = c /\ \A k \in 1 .. i : q[k].op = "send"
  BY DEF Shares
<1>2. ASSUME e # c PROVE Shares(Without(q, e), c)
  <2> DEFINE r == Without(q, e)
  <2>1. CASE r = q
    BY <2>1
  <2>2. ASSUME NEW k \in 1 .. Len(q), q[k] = e, r \in Seq(Calls), Len(r) = Len(q) - 1,
               \A j \in 1 .. k - 1 : r[j] = q[j],
               \A j \in k .. Len(q) - 1 : r[j] = q[j + 1]
        PROVE  Shares(r, c)
    <3> HIDE DEF r
    <3>1. CASE i < k
      BY <1>1, <2>2, <3>1 DEF Shares
    <3>2. CASE k < i
      <4>1. i - 1 \in 1 .. Len(r) /\ r[i - 1] = c
        BY <1>1, <2>2, <3>2
      <4>2. \A j \in 1 .. i - 1 : r[j].op = "send"
        BY <1>1, <2>2, <3>2
      <4> QED
        BY <4>1, <4>2, <2>2 DEF Shares
    <3> QED
      BY <1>1, <1>2, <2>2, <3>1, <3>2
  <2> QED
    BY <2>1, <2>2, Removing
<1>3. Shares(Append(q, e), c)
  BY <1>1 DEF Shares
<1> QED
  BY <1>2, <1>3

-----------------------------------------------------------------------------
(* Types.                                                                  *)

(* The types hold at first.                                                *)
LEMMA InitType == Init => TypeOK
  BY JobsAssumption DEF Init, TypeOK

(* The calls that a try may make are calls.                                *)
LEMMA TryType ==
    ASSUME TypeOK, NEW op, NEW who, NEW n \in Nat \ {0}, Try(op, who, n),
           \/ op = "send" /\ who \in Jobs
           \/ op = "terminate" /\ who \in Workers
    PROVE  /\ phase' \in {"build", "send", "terminate", "end"}
           /\ call' \in Calls \cup {NoCall}
           /\ told' \in [Jobs -> {"unsent", "ok", "err"}]
           /\ ended' \in [Workers -> {"no", "terminated", "dangling"}]
           /\ at' \in [Calls -> {"none", "request", "queued", "sending", "cancelling", "over"}]
           /\ answer' \in {"none", "ok", "err"}
<1>1. CASE n <= MaxRetries
  <2>1. n \in 1 .. MaxRetries
    BY <1>1, JobsAssumption
  <2>2. [op |-> op, who |-> who, try |-> n] \in Calls
    BY <2>1, SendCalls, TerminateCalls
  <2> QED
    BY <1>1, <2>2 DEF Try, Request, TypeOK
<1>2. CASE ~ n <= MaxRetries
  BY <1>2 DEF Try, TypeOK
<1> QED
  BY <1>1, <1>2

(* The master keeps the types.                                             *)
LEMMA MasterType ==
    ASSUME TypeOK, MasterStep
    PROVE  TypeOK'
<1>1. ASSUME NEW w \in Workers, Build(w) PROVE TypeOK'
  BY <1>1, BuildCalls DEF Build, Request, serverData, TypeOK
<1>2. ASSUME NEW w \in Workers, Terminate(w) PROVE TypeOK'
  BY <1>2, TryType DEF Terminate, serverData, TypeOK
<1>3. ASSUME NEW j \in Jobs, Send(j) PROVE TypeOK'
  BY <1>3, TryType DEF Send, serverData, TypeOK
<1>4. CASE AllBuilt
  BY <1>4 DEF AllBuilt, serverData, TypeOK
<1>5. CASE StopSending
  BY <1>5 DEF StopSending, serverData, TypeOK
<1>6. CASE AllTerminated
  BY <1>6 DEF AllTerminated, serverData, TypeOK
<1>7. CASE GiveUp
  <2>1. call \in Calls
    BY <1>7 DEF GiveUp, TypeOK
  <2>2. CASE call.op = "build"
    BY <1>7, <2>1, <2>2, CallFacts DEF GiveUp, serverData, TypeOK
  <2>3. CASE call.op # "build"
    <3>1. call.try + 1 \in Nat \ {0}
      BY <2>1, CallFacts
    <3>2. Try(call.op, call.who, call.try + 1) /\ UNCHANGED <<built, serving, serverData>>
      BY <1>7, <2>3 DEF GiveUp
    <3> QED
      BY <2>1, <2>3, <3>1, <3>2, CallFacts, TryType DEF serverData, TypeOK
  <2> QED
    BY <2>2, <2>3
<1>8. CASE Answered
  <2>1. call \in Calls
    BY <1>8 DEF Answered, TypeOK
  <2>2. Outcome \in {"ok", "err"}
    BY <1>8 DEF Answered, Outcome, TypeOK
  <2>3. CASE call.op = "build"
    BY <1>8, <2>1, <2>3, CallFacts DEF Answered, serverData, TypeOK
  <2>4. CASE call.op = "send"
    <3>1. /\ told' = [told EXCEPT ![call.who] = Outcome]
          /\ phase' = IF Outcome = "ok" THEN phase ELSE "terminate"
          /\ UNCHANGED <<built, ended>>
      BY <1>8, <2>4 DEF Answered
    <3> QED
      BY <1>8, <2>1, <2>2, <2>4, <3>1, CallFacts DEF Answered, serverData, TypeOK
  <2>5. CASE call.op = "terminate"
    BY <1>8, <2>1, <2>5, CallFacts DEF Answered, serverData, TypeOK
  <2> QED
    BY <2>1, <2>3, <2>4, <2>5, CallFacts
<1> QED
  BY <1>1, <1>2, <1>3, <1>4, <1>5, <1>6, <1>7, <1>8 DEF MasterStep

(* A call that leaves its queue leaves queues.                             *)
LEMMA LeavesType ==
    ASSUME TypeOK, NEW c \in Calls
    PROVE  Leaves(c) \in [Servers -> Seq(Calls)]
  BY RemovingType DEF Leaves, TypeOK

(* An answer is one, and ends its call.                                    *)
LEMMA AnswerType ==
    ASSUME TypeOK, NEW c \in Calls, NEW r \in {"ok", "err"}, Answer(c, r)
    PROVE  /\ at' \in [Calls -> {"none", "request", "queued", "sending", "cancelling", "over"}]
           /\ answer' \in {"none", "ok", "err"}
  BY DEF Answer, TypeOK

(* A worker that stops keeps its types: its channel is empty.              *)
LEMMA StopsType ==
    ASSUME TypeOK, NEW w, Stops(w)
    PROVE  /\ worker' \in [Workers -> {"none", "up", "down"}]
           /\ chan' \in [Workers -> 0 .. Capacity]
<1>1. worker' = [worker EXCEPT ![w] = IF worker[w] = "up" THEN "down" ELSE worker[w]]
  BY DEF Stops
<1>2. worker' \in [Workers -> {"none", "up", "down"}]
  <2>1. w \in Workers => worker[w] \in {"none", "up", "down"}
    BY DEF TypeOK
  <2> QED
    BY <1>1, <2>1 DEF TypeOK
<1>3. 0 \in 0 .. Capacity
  BY JobsAssumption
<1>4. chan' \in [Workers -> 0 .. Capacity]
  BY <1>3 DEF Stops, TypeOK
<1> QED
  BY <1>2, <1>4

(* A server keeps the types; Deliver looks for room before it adds a job.  *)
LEMMA ServerType ==
    ASSUME TypeOK, NEW c \in Calls, ServerStep(c) \/ Drop(c)
    PROVE  TypeOK'
<1>1. CASE Receive(c)
  <2>1. CASE ServerOf(WorkerOf(c)) \in Trusting
    <3>1. lock' \in [Servers -> Seq(Calls)]
      <4>1. ServerOf(WorkerOf(c)) \in Servers
        BY CallFacts, ServerFacts
      <4>2. Append(lock[ServerOf(WorkerOf(c))], c) \in Seq(Calls)
        BY <4>1, AppendProperties DEF TypeOK
      <4> QED
        BY <1>1, <2>1, <4>2 DEF Receive, TypeOK
    <3>2. worker' \in [Workers -> {"none", "up", "down"}]
      BY <1>1, <2>1 DEF Receive, TypeOK
    <3>3. at' \in [Calls -> {"none", "request", "queued", "sending", "cancelling", "over"}]
      <4>1. at' = [at EXCEPT ![c] = "queued"]
        BY <1>1, <2>1 DEF Receive
      <4> QED
        BY <4>1 DEF TypeOK
    <3> QED
      BY <1>1, <2>1, <3>1, <3>2, <3>3 DEF Receive, master, TypeOK
  <2>2. CASE ServerOf(WorkerOf(c)) \notin Trusting
    BY <1>1, <2>2, AnswerType DEF Receive, master, TypeOK
  <2> QED
    BY <2>1, <2>2
<1>2. CASE InsertWorker(c)
  BY <1>2, CallFacts, LeavesType, AnswerType DEF InsertWorker, master, TypeOK
<1>3. CASE Find(c)
  <2>1. CASE WorkerOf(c) \in table
    BY <1>3, <2>1 DEF Find, master, TypeOK
  <2>2. CASE WorkerOf(c) \notin table
    BY <1>3, <2>2, LeavesType, AnswerType DEF Find, master, TypeOK
  <2> QED
    BY <2>1, <2>2
<1>4. CASE Deliver(c)
  <2>1. CASE worker[WorkerOf(c)] = "up"
    <3>1. chan[WorkerOf(c)] + 1 \in 0 .. Capacity
      BY <1>4, <2>1, CallFacts, JobsAssumption DEF Deliver, HasRoom, TypeOK
    <3>2. chan' \in [Workers -> 0 .. Capacity]
      BY <1>4, <2>1, <3>1 DEF Deliver, TypeOK
    <3>3. delivered' \in [Jobs -> Nat]
      BY <1>4, <2>1 DEF Deliver, TypeOK
    <3> QED
      BY <1>4, <2>1, <3>2, <3>3, LeavesType, AnswerType DEF Deliver, master, TypeOK
  <2>2. CASE worker[WorkerOf(c)] # "up"
    BY <1>4, <2>2, LeavesType, AnswerType DEF Deliver, master, TypeOK
  <2> QED
    BY <2>1, <2>2
<1>5. CASE RemoveWorker(c)
  <2>1. CASE c.who \in table
    BY <1>5, <2>1, LeavesType DEF RemoveWorker, master, TypeOK
  <2>2. CASE c.who \notin table
    BY <1>5, <2>2, LeavesType, AnswerType DEF RemoveWorker, master, TypeOK
  <2> QED
    BY <2>1, <2>2
<1>6. CASE Cancelled(c)
  <2>1. Stops(c.who) /\ Answer(c, "ok")
    BY <1>6 DEF Cancelled
  <2>2. worker' \in [Workers -> {"none", "up", "down"}] /\ chan' \in [Workers -> 0 .. Capacity]
    BY <2>1, StopsType
  <2> QED
    BY <1>6, <2>1, <2>2, AnswerType DEF Cancelled, master, TypeOK
<1>7. CASE Drop(c)
  <2>1. worker' \in [Workers -> {"none", "up", "down"}] /\ chan' \in [Workers -> 0 .. Capacity]
    <3>1. CASE OwnsWorker(c)
      BY <1>7, <3>1, StopsType DEF Drop
    <3>2. CASE ~ OwnsWorker(c)
      BY <1>7, <3>2 DEF Drop, TypeOK
    <3> QED
      BY <3>1, <3>2
  <2>2. at' \in [Calls -> {"none", "request", "queued", "sending", "cancelling", "over"}]
    BY <1>7 DEF Drop, TypeOK
  <2> QED
    BY <1>7, <2>1, <2>2, LeavesType DEF Drop, master, TypeOK
<1> QED
  BY <1>1, <1>2, <1>3, <1>4, <1>5, <1>6, <1>7 DEF ServerStep

(* The types from step to step.                                            *)
LEMMA NextType == TypeOK /\ [Next]_vars => TypeOK'
<1> SUFFICES ASSUME TypeOK, [Next]_vars PROVE TypeOK'
  OBVIOUS
<1>1. ASSUME NEW s \in Servers, Crash(s) PROVE TypeOK'
  <2>1. lock' \in [Servers -> Seq(Calls)] /\ table' \subseteq Workers
    BY <1>1 DEF Crash, TypeOK
  <2>2. chan' \in [Workers -> 0 .. Capacity] /\ worker' \in [Workers -> {"none", "up", "down"}]
    BY <1>1, JobsAssumption DEF Crash, TypeOK
  <2> QED
    BY <1>1, <2>1, <2>2 DEF Crash, master, TypeOK
<1>2. ASSUME NEW w \in Workers, TakeJob(w) PROVE TypeOK'
  BY <1>2, JobsAssumption DEF TakeJob, master, TypeOK
<1>3. ASSUME NEW w \in Workers, WorkerDies(w) PROVE TypeOK'
  BY <1>3, JobsAssumption DEF WorkerDies, Stops, master, TypeOK
<1>4. CASE UNCHANGED vars
  BY <1>4 DEF vars, master, serverData, TypeOK
<1> QED
  BY <1>1, <1>2, <1>3, <1>4, MasterType, ServerType DEF Next

(* Every variable keeps to its type; in particular a channel never holds   *)
(* more than its capacity.                                                 *)
THEOREM TypeCorrect == Spec => []TypeOK
  BY InitType, NextType, PTL DEF Spec

-----------------------------------------------------------------------------
(* What the master knows.                                                  *)

(* Before the first call there is nothing to know.                         *)
LEMMA InitKnown == Init => Known
  BY CallFacts DEF Init, Known

(* What a server or a worker does to the calls.                            *)
Serves ==
    /\ UNCHANGED master
    /\ \A c \in Calls : (at[c] = "over" => at'[c] = "over") /\ (at[c] = "none" <=> at'[c] = "none")
    /\ answer' = answer \/ at'[call] = "over"

(* A server tells the master nothing but the answer to its call.           *)
LEMMA ServerServes ==
    ASSUME TypeOK, NEW c \in Calls, ServerStep(c) \/ Drop(c)
    PROVE  Serves
<1>1. ASSUME NEW r, Answer(c, r), at[c] # "none", UNCHANGED master PROVE Serves
  BY <1>1 DEF Answer, Serves, TypeOK
<1>2. ASSUME NEW s \in {"queued", "sending", "cancelling"}, at' = [at EXCEPT ![c] = s],
             at[c] \notin {"none", "over"}, UNCHANGED <<master, answer>>
      PROVE  Serves
  BY <1>2 DEF Serves, TypeOK
<1>3. CASE Receive(c)
  BY <1>1, <1>2, <1>3 DEF Receive
<1>4. CASE InsertWorker(c)
  BY <1>1, <1>4 DEF InsertWorker
<1>5. CASE Find(c)
  BY <1>1, <1>2, <1>5 DEF Find
<1>6. CASE Deliver(c)
  BY <1>1, <1>6 DEF Deliver
<1>7. CASE RemoveWorker(c)
  BY <1>1, <1>2, <1>7 DEF RemoveWorker
<1>8. CASE Cancelled(c)
  BY <1>1, <1>8 DEF Cancelled
<1>9. CASE Drop(c)
  BY <1>9 DEF Drop, Droppable, Serves, TypeOK
<1> QED
  BY <1>3, <1>4, <1>5, <1>6, <1>7, <1>8, <1>9 DEF ServerStep

(* Nor does a worker that takes a job or dies, or a server that crashes.   *)
LEMMA OtherServes ==
    ASSUME TypeOK,
           \/ \E w \in Workers : TakeJob(w) \/ WorkerDies(w)
           \/ \E s \in Servers : Crash(s)
    PROVE  Serves
<1>1. ASSUME NEW w \in Workers, TakeJob(w) \/ WorkerDies(w) PROVE Serves
  BY <1>1 DEF TakeJob, WorkerDies, Serves, master
<1>2. ASSUME NEW s \in Servers, Crash(s) PROVE Serves
  BY <1>2 DEF Crash, Serves
<1> QED
  BY <1>1, <1>2

(* None of this makes what the master knows false.                         *)
LEMMA ServesKnown ==
    ASSUME TypeOK, Known, Serves
    PROVE  Known'
<1>1. UNCHANGED <<phase, call, built, told, ended>>
  BY DEF Serves, master
<1>2. \A c \in Calls : (Made(c) <=> Made(c)') /\ (Settled(c) <=> Settled(c)')
  BY <1>1 DEF Made, Settled
<1>3. call # NoCall => call \in Calls
  BY DEF TypeOK
<1>4. call' # NoCall => call'.op = phase' /\ ~ Settled(call)'
  BY <1>1, <1>2, <1>3 DEF Known
<1>5. call' # NoCall /\ answer' # "none" => at'[call'] = "over"
  BY <1>1, <1>3 DEF Known, Serves
<1>6. \A c \in Calls : at'[c] # "none" => Made(c)'
  BY <1>2 DEF Known, Serves
<1>7. \A c \in Calls : c.op = "build" /\ built'[c.who] = "ok" => at'[c] = "over"
  BY <1>1 DEF Known, Serves
<1>8. \A c \in Calls : c.op = "terminate" /\ at'[c] # "none" => built'[c.who] = "ok"
  BY <1>1 DEF Known, Serves
<1> QED
  BY <1>1, <1>4, <1>5, <1>6, <1>7, <1>8 DEF Known

(* A call that is made now was not made before.                            *)
LEMMA RequestKnown ==
    ASSUME TypeOK, Known, NEW c \in Calls, Request(c), UNCHANGED <<phase, built, told, ended>>,
           c.op = phase, ~ Settled(c),
           c.op = "terminate" => built[c.who] = "ok",
           call = NoCall \/ (call.op = c.op /\ call.who = c.who /\ call.try < c.try)
    PROVE  Known' /\ at[c] = "none"
<1>1. at[c] = "none"
  <2>1. ~ Made(c)
    <3>1. call # NoCall => ~ c.try <= call.try
      BY CallFacts DEF TypeOK
    <3> QED
      BY <3>1 DEF Made
  <2> QED
    BY <2>1 DEF Known
<1>2. call' = c /\ answer' = "none" /\ at' = [at EXCEPT ![c] = "request"]
  BY DEF Request
<1>3. \A d \in Calls : Settled(d) <=> Settled(d)'
  BY DEF Settled
<1>4. c # NoCall
  BY JobsAssumption
<1>5. \A d \in Calls : at'[d] # "none" => Made(d)'
  <2> SUFFICES ASSUME NEW d \in Calls, at'[d] # "none" PROVE Made(d)'
    OBVIOUS
  <2>1. CASE d = c
    BY <1>2, <1>4, <2>1, CallFacts DEF Made
  <2>2. CASE d # c
    <3>1. Made(d)
      BY <1>2, <2>2 DEF Known, TypeOK
    <3>2. call # NoCall => call \in Calls
      BY DEF TypeOK
    <3> QED
      BY <1>2, <1>3, <1>4, <3>1, <3>2, CallFacts DEF Made
  <2> QED
    BY <2>1, <2>2
<1>6. \A d \in Calls : d.op = "build" /\ built'[d.who] = "ok" => at'[d] = "over"
  BY <1>1, <1>2 DEF Known, TypeOK
<1>7. \A d \in Calls : d.op = "terminate" /\ at'[d] # "none" => built'[d.who] = "ok"
  BY <1>2 DEF Known, TypeOK
<1> QED
  BY <1>1, <1>2, <1>3, <1>5, <1>6, <1>7 DEF Known

(* A call without an answer: it is made again, or given up for good.       *)
LEMMA TryKnown ==
    ASSUME TypeOK, Known, NEW op, NEW who, NEW n \in Nat \ {0}, Try(op, who, n), UNCHANGED built,
           phase = op,
           \/ op = "send" /\ who \in Jobs /\ told[who] = "unsent"
           \/ op = "terminate" /\ who \in Workers /\ ended[who] = "no",
           call = NoCall \/ (call.op = op /\ call.who = who /\ call.try < n)
    PROVE  Known'
<1>1. CASE n <= MaxRetries
  <2> DEFINE c == [op |-> op, who |-> who, try |-> n]
  <2>1. c \in Calls
    BY <1>1, SendCalls, TerminateCalls, JobsAssumption
  <2>2. Request(c) /\ UNCHANGED <<phase, told, ended>>
    BY <1>1 DEF Try
  <2>3. c.op = op /\ c.who = who /\ c.try = n
    OBVIOUS
  <2>4. ~ Settled(c)
    BY <2>3 DEF Settled
  <2>5. c.op = "terminate" => built[c.who] = "ok"
    BY <2>3 DEF Known
  <2> QED
    BY <2>1, <2>2, <2>3, <2>4, <2>5, RequestKnown
<1>2. CASE ~ n <= MaxRetries
  <2>1. /\ call' = NoCall /\ UNCHANGED <<at, answer>>
        /\ op = "send" => told' = [told EXCEPT ![who] = "err"] /\ phase' = "terminate" /\ UNCHANGED ended
        /\ op = "terminate" => ended' = [ended EXCEPT ![who] = "dangling"] /\ UNCHANGED <<told, phase>>
    BY <1>2 DEF Try
  <2>2. \A d \in Calls : Made(d) => Settled(d)'
    <3> SUFFICES ASSUME NEW d \in Calls, Made(d) PROVE Settled(d)'
      OBVIOUS
    <3>1. Settled(d) \/ (d.op = op /\ d.who = who)
      BY DEF Made
    <3> QED
      BY <2>1, <3>1, CallFacts DEF Settled, TypeOK
  <2>3. \A d \in Calls : at'[d] # "none" => Made(d)'
    BY <2>1, <2>2 DEF Known, Made
  <2>4. phase' = "terminate" /\ \A w \in Workers : built'[w] = "ok"
    BY <2>1 DEF Known
  <2> QED
    BY <2>1, <2>3, <2>4 DEF Known
<1> QED
  BY <1>1, <1>2

(* Every step of the master keeps what it knows true.                      *)
LEMMA MasterKnown ==
    ASSUME TypeOK, Known, MasterStep
    PROVE  Known'
<1>0. call # NoCall => call \in Calls
  BY DEF TypeOK
<1>1. ASSUME NEW w \in Workers, Build(w) PROVE Known'
  <2> DEFINE c == [op |-> "build", who |-> w, try |-> 1]
  <2>1. c \in Calls /\ c.op = "build" /\ c.who = w /\ c.try = 1
    BY BuildCalls
  <2>2. ~ Settled(c)
    BY <1>1, <2>1 DEF Build, Settled
  <2> QED
    BY <1>1, <2>1, <2>2, RequestKnown DEF Build
<1>2. ASSUME NEW w \in Workers, Terminate(w) PROVE Known'
  BY <1>2, TryKnown DEF Terminate
<1>3. ASSUME NEW j \in Jobs, Send(j) PROVE Known'
  BY <1>3, TryKnown DEF Send
<1>4. CASE AllBuilt
  <2>1. call = NoCall
    BY <1>0, <1>4, CallFacts DEF AllBuilt, Known, Settled
  <2>2. \A d \in Calls : Made(d) => Made(d)'
    BY <1>4, <2>1 DEF AllBuilt, Made, Settled
  <2>3. \/ phase' = "send" /\ \A w \in Workers : built[w] = "ok"
        \/ phase' = "end" /\ \E w \in Workers : built[w] = "failed"
    <3>1. CASE \A w \in Workers : built[w] = "ok"
      <4>1. phase' = "send"
        BY <1>4, <3>1 DEF AllBuilt
      <4> QED
        BY <3>1, <4>1
    <3>2. CASE ~ \A w \in Workers : built[w] = "ok"
      <4>1. phase' = "end"
        BY <1>4, <3>2 DEF AllBuilt
      <4>2. PICK w \in Workers : built[w] # "ok"
        BY <3>2
      <4>3. built[w] = "failed"
        BY <1>4, <4>2 DEF AllBuilt, TypeOK
      <4> QED
        BY <4>1, <4>3
    <3> QED
      BY <3>1, <3>2
  <2> QED
    BY <1>4, <2>1, <2>2, <2>3 DEF AllBuilt, Known
<1>5. CASE StopSending
  <2>1. \A d \in Calls : Made(d) => Made(d)'
    BY <1>5 DEF StopSending, Made, Settled
  <2> QED
    BY <1>5, <2>1 DEF StopSending, Known
<1>6. CASE AllTerminated
  <2>1. call = NoCall
    BY <1>0, <1>6, CallFacts DEF AllTerminated, Known, Settled
  <2>2. \A d \in Calls : Made(d) => Made(d)'
    BY <1>6, <2>1 DEF AllTerminated, Made, Settled
  <2> QED
    BY <1>6, <2>1, <2>2 DEF AllTerminated, Known
<1>7. CASE GiveUp
  <2>1. call \in Calls /\ call # NoCall /\ phase = call.op /\ ~ Settled(call)
    BY <1>0, <1>7 DEF GiveUp, Known
  <2>2. CASE call.op = "build"
    <3>1. /\ built' = [built EXCEPT ![call.who] = "failed"] /\ call' = NoCall
          /\ UNCHANGED <<phase, told, ended, at, answer>>
      BY <1>7, <2>2 DEF GiveUp
    <3>2. \A d \in Calls : Made(d) => Settled(d)'
      <4> SUFFICES ASSUME NEW d \in Calls, Made(d) PROVE Settled(d)'
        OBVIOUS
      <4>1. Settled(d) \/ (d.op = "build" /\ d.who = call.who)
        BY <2>2 DEF Made
      <4> QED
        BY <3>1, <4>1, CallFacts DEF Settled, TypeOK
    <3>3. \A w \in Workers : built'[w] = "ok" => built[w] = "ok"
      BY <3>1 DEF TypeOK
    <3>4. \A d \in Calls : d.op = "terminate" /\ at[d] # "none" => built'[d.who] = "ok"
      BY <2>1, <2>2, <3>1, CallFacts DEF Known, Settled, TypeOK
    <3>5. \A d \in Calls : d.op = "build" /\ built'[d.who] = "ok" => at[d] = "over"
      BY <3>3, CallFacts DEF Known
    <3> QED
      BY <2>1, <2>2, <3>1, <3>2, <3>4, <3>5 DEF Known, Made
  <2>3. CASE call.op # "build"
    <3>1. Try(call.op, call.who, call.try + 1) /\ UNCHANGED built
      BY <1>7, <2>3 DEF GiveUp
    <3>2. call.try + 1 \in Nat \ {0} /\ call.try < call.try + 1
      BY <2>1, CallFacts
    <3>3. \/ call.op = "send" /\ call.who \in Jobs /\ told[call.who] = "unsent"
          \/ call.op = "terminate" /\ call.who \in Workers /\ ended[call.who] = "no"
      BY <2>1, <2>3, CallFacts DEF Settled
    <3> QED
      BY <2>1, <3>1, <3>2, <3>3, TryKnown
  <2> QED
    BY <2>2, <2>3
<1>8. CASE Answered
  <2>1. call \in Calls /\ call # NoCall /\ phase = call.op /\ ~ Settled(call) /\ at[call] = "over"
    BY <1>0, <1>8 DEF Answered, Known
  <2>2. call' = NoCall /\ UNCHANGED <<at, answer>>
    BY <1>8 DEF Answered
  <2>3. CASE call.op = "build"
    <3>1. /\ built' = [built EXCEPT ![call.who] = IF Outcome = "ok" THEN "ok" ELSE "failed"]
          /\ UNCHANGED <<phase, told, ended>>
      BY <1>8, <2>3 DEF Answered
    <3>2. \A d \in Calls : Made(d) => Settled(d)'
      <4> SUFFICES ASSUME NEW d \in Calls, Made(d) PROVE Settled(d)'
        OBVIOUS
      <4>1. Settled(d) \/ (d.op = "build" /\ d.who = call.who)
        BY <2>3 DEF Made
      <4> QED
        BY <3>1, <4>1, CallFacts DEF Settled, TypeOK
    <3>3. \A d \in Calls : d.op = "terminate" /\ at[d] # "none" => built'[d.who] = "ok"
      BY <2>1, <2>3, <3>1, CallFacts DEF Known, Settled, TypeOK
    <3>4. \A d \in Calls : d.op = "build" /\ built'[d.who] = "ok" => at[d] = "over"
      <4> SUFFICES ASSUME NEW d \in Calls, d.op = "build", built'[d.who] = "ok" PROVE at[d] = "over"
        OBVIOUS
      <4>1. CASE d.who = call.who
        BY <2>1, <2>3, <4>1, CallFacts, SameCall
      <4>2. CASE d.who # call.who
        BY <3>1, <4>2, CallFacts DEF Known, TypeOK
      <4> QED
        BY <4>1, <4>2
    <3> QED
      BY <2>1, <2>2, <2>3, <3>1, <3>2, <3>3, <3>4 DEF Known, Made
  <2>4. CASE call.op = "send"
    <3>1. /\ told' = [told EXCEPT ![call.who] = Outcome]
          /\ phase' = IF Outcome = "ok" THEN phase ELSE "terminate"
          /\ UNCHANGED <<built, ended>>
      BY <1>8, <2>4 DEF Answered
    <3>2. Outcome # "unsent"
      BY <1>8 DEF Answered, Outcome, TypeOK
    <3>3. \A d \in Calls : Made(d) => Settled(d)'
      <4> SUFFICES ASSUME NEW d \in Calls, Made(d) PROVE Settled(d)'
        OBVIOUS
      <4>1. Settled(d) \/ (d.op = "send" /\ d.who = call.who)
        BY <2>4 DEF Made
      <4> QED
        BY <3>1, <3>2, <4>1, CallFacts DEF Settled, TypeOK
    <3> QED
      BY <2>1, <2>2, <2>4, <3>1, <3>3 DEF Known, Made
  <2>5. CASE call.op = "terminate"
    <3>1. ended' = [ended EXCEPT ![call.who] = "terminated"] /\ UNCHANGED <<phase, built, told>>
      BY <1>8, <2>5 DEF Answered
    <3>2. \A d \in Calls : Made(d) => Settled(d)'
      <4> SUFFICES ASSUME NEW d \in Calls, Made(d) PROVE Settled(d)'
        OBVIOUS
      <4>1. Settled(d) \/ (d.op = "terminate" /\ d.who = call.who)
        BY <2>5 DEF Made
      <4> QED
        BY <3>1, <4>1, CallFacts DEF Settled, TypeOK
    <3> QED
      BY <2>1, <2>2, <2>5, <3>1, <3>2 DEF Known, Made
  <2> QED
    BY <2>1, <2>3, <2>4, <2>5, CallFacts
<1> QED
  BY <1>1, <1>2, <1>3, <1>4, <1>5, <1>6, <1>7, <1>8 DEF MasterStep

(* One step after another.                                                 *)
LEMMA NextKnown == TypeOK /\ Known /\ [Next]_vars => Known'
<1> SUFFICES ASSUME TypeOK, Known, [Next]_vars PROVE Known'
  OBVIOUS
<1>1. CASE MasterStep
  BY <1>1, MasterKnown
<1>2. CASE Serves
  BY <1>2, ServesKnown
<1>3. CASE UNCHANGED vars
  BY <1>3, ServesKnown DEF vars, Serves
<1> QED
  BY <1>1, <1>2, <1>3, ServerServes, OtherServes DEF Next

-----------------------------------------------------------------------------
(* The lock of the table: who waits for room in a channel reads.           *)

(* At first no send waits for room.                                        *)
LEMMA InitQueues == Init => Queues
  BY DEF Init, Queues

(* The queue of a server after a call has left it.                         *)
LEMMA LeftLock ==
    ASSUME TypeOK, NEW e \in Calls, NEW w \in Workers
    PROVE  /\ Leaves(e)[ServerOf(w)] = Without(lock[ServerOf(w)], e)
                \/ Leaves(e)[ServerOf(w)] = lock[ServerOf(w)]
           /\ lock[ServerOf(w)] \in Seq(Calls)
<1>1. ServerOf(w) \in Servers /\ lock \in [Servers -> Seq(Calls)]
  BY ServerFacts DEF TypeOK
<1> QED
  BY <1>1 DEF Leaves

(* A send keeps its share when another call leaves.                        *)
LEMMA LeavesShares ==
    ASSUME TypeOK, NEW e \in Calls, NEW c \in Calls, c # e, Shares(Lock(c), c)
    PROVE  Shares(Leaves(e)[ServerOf(WorkerOf(c))], c)
  BY LeftLock, SharesOn, CallFacts DEF Lock

(* Who is granted the lock while a send shares it is a send.               *)
LEMMA GrantedReads ==
    ASSUME TypeOK, NEW c \in Calls, NEW d \in Calls, Granted(d), Shares(Lock(c), c),
           ServerOf(WorkerOf(c)) = ServerOf(WorkerOf(d))
    PROVE  d.op = "send"
<1>1. Lock(d) = Lock(c) /\ Lock(c) \in Seq(Calls)
  BY CallFacts, ServerFacts DEF Lock, TypeOK
<1>2. PICK i \in 1 .. Len(Lock(c)) : \A k \in 1 .. i : Lock(c)[k].op = "send"
  BY <1>1 DEF Shares
<1>3. Len(Lock(c)) \in Nat
  BY <1>1
<1>4. Lock(c)[1].op = "send"
  BY <1>2, <1>3
<1>5. PICK n \in 1 .. Len(Lock(c)) :
        Lock(c)[n] = d /\ (n = 1 \/ \A k \in 1 .. n : Lock(c)[k].op = "send")
  BY <1>1 DEF Granted
<1>6. CASE n = 1
  BY <1>4, <1>5, <1>6
<1>7. CASE \A k \in 1 .. n : Lock(c)[k].op = "send"
  BY <1>3, <1>5, <1>7
<1> QED
  BY <1>5, <1>6, <1>7

(* A call other than the one of the step.                                  *)
LEMMA OtherQueues ==
    ASSUME TypeOK, Queues, NEW e \in Calls, NEW c \in Calls, c # e, at'[c] = "sending",
           at'[c] = at[c],
           \/ lock' = lock
           \/ lock' = Leaves(e)
           \/ lock' = [lock EXCEPT ![ServerOf(WorkerOf(e))] = Append(@, e)],
           table \subseteq table'
    PROVE  c.op = "send" /\ Shares(Lock(c)', c) /\ WorkerOf(c) \in table'
<1>1. c.op = "send" /\ Shares(Lock(c), c) /\ WorkerOf(c) \in table
  BY DEF Queues
<1>2. Lock(c)' = lock'[ServerOf(WorkerOf(c))]
  BY DEF Lock
<1>3. lock[ServerOf(WorkerOf(c))] \in Seq(Calls) /\ ServerOf(WorkerOf(c)) \in Servers
  BY CallFacts, ServerFacts DEF TypeOK
<1>4. CASE lock' = lock
  BY <1>1, <1>2, <1>4 DEF Lock
<1>5. CASE lock' = Leaves(e)
  BY <1>1, <1>2, <1>5, LeavesShares
<1>6. CASE lock' = [lock EXCEPT ![ServerOf(WorkerOf(e))] = Append(@, e)]
  <2>1. lock \in [Servers -> Seq(Calls)]
    BY DEF TypeOK
  <2>2. \/ lock'[ServerOf(WorkerOf(c))] = Append(lock[ServerOf(WorkerOf(c))], e)
        \/ lock'[ServerOf(WorkerOf(c))] = lock[ServerOf(WorkerOf(c))]
    BY <1>3, <1>6, <2>1
  <2> QED
    BY <1>1, <1>2, <1>3, <2>2, SharesOn DEF Lock
<1> QED
  BY <1>1, <1>4, <1>5, <1>6

(* Every step of a server keeps the senders among those that read.         *)
LEMMA ServerQueues ==
    ASSUME TypeOK, Queues, NEW e \in Calls, ServerStep(e) \/ Drop(e)
    PROVE  Queues'
<1>0. TypeOK'
  BY ServerType
<1> SUFFICES ASSUME NEW c \in Calls, at'[c] = "sending"
             PROVE  c.op = "send" /\ Shares(Lock(c)', c) /\ WorkerOf(c) \in table'
  BY DEF Queues, Shares, Lock
<1>1. CASE Receive(e)
  <2>1. at' = [at EXCEPT ![e] = at'[e]] /\ at'[e] # "sending" /\ table' = table
    BY <1>1 DEF Receive, Answer, TypeOK
  <2>2. lock' = lock \/ lock' = [lock EXCEPT ![ServerOf(WorkerOf(e))] = Append(@, e)]
    BY <1>1 DEF Receive
  <2> QED
    BY <2>1, <2>2, OtherQueues DEF TypeOK
<1>2. CASE InsertWorker(e)
  <2>1. at' = [at EXCEPT ![e] = "over"] /\ lock' = Leaves(e) /\ table \subseteq table'
    BY <1>2 DEF InsertWorker, Answer
  <2> QED
    BY <2>1, OtherQueues DEF TypeOK
<1>3. CASE Find(e)
  <2>1. CASE WorkerOf(e) \in table
    <3>1. at' = [at EXCEPT ![e] = "sending"] /\ lock' = lock /\ table' = table
      BY <1>3, <2>1 DEF Find
    <3>2. CASE c = e
      <4>1. e.op = "send" /\ Granted(e) /\ Lock(e) \in Seq(Calls)
        BY <1>3, CallFacts, ServerFacts DEF Find, Lock, TypeOK
      <4>2. Shares(Lock(e), e)
        BY <4>1 DEF Granted, Shares
      <4> QED
        BY <2>1, <3>1, <3>2, <4>1, <4>2 DEF Lock
    <3>3. CASE c # e
      BY <3>1, <3>3, OtherQueues DEF TypeOK
    <3> QED
      BY <3>2, <3>3
  <2>2. CASE WorkerOf(e) \notin table
    <3>1. at' = [at EXCEPT ![e] = "over"] /\ lock' = Leaves(e) /\ table' = table
      BY <1>3, <2>2 DEF Find, Answer
    <3> QED
      BY <3>1, OtherQueues DEF TypeOK
  <2> QED
    BY <2>1, <2>2
<1>4. CASE Deliver(e)
  <2>1. at' = [at EXCEPT ![e] = "over"] /\ lock' = Leaves(e) /\ table' = table
    BY <1>4 DEF Deliver, Answer
  <2> QED
    BY <2>1, OtherQueues DEF TypeOK
<1>5. CASE RemoveWorker(e)
  <2>1. /\ at' = [at EXCEPT ![e] = at'[e]] /\ at'[e] # "sending" /\ lock' = Leaves(e)
        /\ table' = table \/ table' = table \ {e.who}
    BY <1>5 DEF RemoveWorker, Answer, TypeOK
  <2>2. c # e /\ at'[c] = at[c]
    BY <2>1 DEF TypeOK
  <2>3. c.op = "send" /\ Shares(Lock(c), c) /\ WorkerOf(c) \in table
    BY <2>2 DEF Queues
  <2>4. WorkerOf(c) # e.who
    <3>1. WorkerOf(e) = e.who /\ e.op = "terminate" /\ Granted(e)
      BY <1>5 DEF RemoveWorker, WorkerOf
    <3> QED
      BY <2>3, <3>1, GrantedReads
  <2>5. Shares(Lock(c)', c)
    BY <2>1, <2>2, <2>3, LeavesShares DEF Lock
  <2> QED
    BY <2>1, <2>3, <2>4, <2>5
<1>6. CASE Cancelled(e)
  <2>1. at' = [at EXCEPT ![e] = "over"] /\ lock' = lock /\ table' = table
    BY <1>6 DEF Cancelled, Answer
  <2> QED
    BY <2>1, OtherQueues DEF TypeOK
<1>7. CASE Drop(e)
  <2>1. at' = [at EXCEPT ![e] = "over"] /\ lock' = Leaves(e) /\ table' = table
    BY <1>7 DEF Drop
  <2> QED
    BY <2>1, OtherQueues DEF TypeOK
<1> QED
  BY <1>1, <1>2, <1>3, <1>4, <1>5, <1>6, <1>7 DEF ServerStep

(* A call that is made again is one that its server has not seen.          *)
LEMMA TryCalls ==
    ASSUME TypeOK, Known, NEW op, NEW who, NEW n \in Nat \ {0}, Try(op, who, n), UNCHANGED built,
           phase = op,
           \/ op = "send" /\ who \in Jobs /\ told[who] = "unsent"
           \/ op = "terminate" /\ who \in Workers /\ ended[who] = "no",
           call = NoCall \/ (call.op = op /\ call.who = who /\ call.try < n)
    PROVE  at' = at \/ \E c \in Calls : at[c] = "none" /\ at' = [at EXCEPT ![c] = "request"]
<1>1. CASE n <= MaxRetries
  <2> DEFINE c == [op |-> op, who |-> who, try |-> n]
  <2>1. c \in Calls
    BY <1>1, SendCalls, TerminateCalls, JobsAssumption
  <2>2. Request(c) /\ UNCHANGED <<phase, told, ended>>
    BY <1>1 DEF Try
  <2>3. c.op = op /\ c.who = who /\ c.try = n
    OBVIOUS
  <2>4. ~ Settled(c)
    BY <2>3 DEF Settled
  <2>5. c.op = "terminate" => built[c.who] = "ok"
    BY <2>3 DEF Known
  <2>6. at[c] = "none"
    BY <2>1, <2>2, <2>3, <2>4, <2>5, RequestKnown
  <2> QED
    BY <2>1, <2>2, <2>6 DEF Request
<1>2. CASE ~ n <= MaxRetries
  BY <1>2 DEF Try
<1> QED
  BY <1>1, <1>2

(* A call of the master is one that its server has not seen, and leaves    *)
(* the others where they are.                                              *)
LEMMA MasterCalls ==
    ASSUME TypeOK, Known, MasterStep
    PROVE  /\ at' = at \/ \E c \in Calls : at[c] = "none" /\ at' = [at EXCEPT ![c] = "request"]
           /\ UNCHANGED <<serving, serverData>>
<1>1. ASSUME NEW w \in Workers, Build(w)
      PROVE  \E c \in Calls : at[c] = "none" /\ at' = [at EXCEPT ![c] = "request"]
  <2> DEFINE c == [op |-> "build", who |-> w, try |-> 1]
  <2>1. c \in Calls /\ c.op = "build" /\ c.who = w
    BY BuildCalls
  <2>2. ~ Settled(c) /\ c.op = phase /\ Request(c) /\ UNCHANGED <<phase, built, told, ended>>
    BY <1>1, <2>1 DEF Build, Settled
  <2>3. at[c] = "none"
    BY <1>1, <2>1, <2>2, RequestKnown DEF Build
  <2> QED
    BY <2>1, <2>2, <2>3 DEF Request
<1>2. ASSUME NEW w \in Workers, Terminate(w)
      PROVE  at' = at \/ \E c \in Calls : at[c] = "none" /\ at' = [at EXCEPT ![c] = "request"]
  BY <1>2, TryCalls DEF Terminate
<1>3. ASSUME NEW j \in Jobs, Send(j)
      PROVE  at' = at \/ \E c \in Calls : at[c] = "none" /\ at' = [at EXCEPT ![c] = "request"]
  BY <1>3, TryCalls DEF Send
<1>4. ASSUME GiveUp
      PROVE  at' = at \/ \E c \in Calls : at[c] = "none" /\ at' = [at EXCEPT ![c] = "request"]
  <2>1. call \in Calls /\ call # NoCall /\ phase = call.op /\ ~ Settled(call)
    BY <1>4 DEF GiveUp, Known, TypeOK
  <2>2. CASE call.op = "build"
    BY <1>4, <2>2 DEF GiveUp
  <2>3. CASE call.op # "build"
    <3>1. Try(call.op, call.who, call.try + 1) /\ UNCHANGED built
      BY <1>4, <2>3 DEF GiveUp
    <3>2. call.try + 1 \in Nat \ {0} /\ call.try < call.try + 1
      BY <2>1, CallFacts
    <3>3. \/ call.op = "send" /\ call.who \in Jobs /\ told[call.who] = "unsent"
          \/ call.op = "terminate" /\ call.who \in Workers /\ ended[call.who] = "no"
      BY <2>1, <2>3, CallFacts DEF Settled
    <3> QED
      BY <2>1, <3>1, <3>2, <3>3, TryCalls
  <2> QED
    BY <2>2, <2>3
<1>5. ASSUME AllBuilt \/ StopSending \/ AllTerminated \/ Answered
      PROVE  at' = at
  BY <1>5 DEF AllBuilt, StopSending, AllTerminated, Answered
<1>6. UNCHANGED <<serving, serverData>>
  BY DEF MasterStep, Build, Terminate, Send, AllBuilt, StopSending, AllTerminated, GiveUp, Answered
<1> QED
  BY <1>1, <1>2, <1>3, <1>4, <1>5, <1>6 DEF MasterStep

(* One step after another.                                                 *)
LEMMA NextQueues == TypeOK /\ Known /\ Queues /\ [Next]_vars => Queues'
<1> SUFFICES ASSUME TypeOK, Known, Queues, [Next]_vars PROVE Queues'
  OBVIOUS
<1>1. ASSUME UNCHANGED <<lock, table>>, \A c \in Calls : at'[c] = "sending" => at[c] = "sending"
      PROVE  Queues'
  BY <1>1 DEF Queues, Lock
<1>2. CASE MasterStep
  BY <1>1, <1>2, MasterCalls DEF serverData, TypeOK
<1>3. ASSUME NEW w \in Workers, TakeJob(w) \/ WorkerDies(w) PROVE Queues'
  BY <1>1, <1>3 DEF TakeJob, WorkerDies
<1>4. ASSUME NEW s \in Servers, Crash(s) PROVE Queues'
  <2> SUFFICES ASSUME NEW c \in Calls, at'[c] = "sending"
               PROVE  c.op = "send" /\ Shares(Lock(c)', c) /\ WorkerOf(c) \in table'
    BY DEF Queues, Shares, Lock
  <2>1. at[c] = "sending" /\ ServerOf(WorkerOf(c)) # s
    BY <1>4, CallFacts DEF Crash
  <2>2. Lock(c)' = Lock(c)
    BY <1>4, <2>1, CallFacts, ServerFacts DEF Crash, Lock, TypeOK
  <2>3. c.op = "send" /\ Shares(Lock(c), c) /\ WorkerOf(c) \in table
    BY <2>1 DEF Queues
  <2>4. WorkerOf(c) \in table'
    BY <1>4, <2>1, <2>3 DEF Crash
  <2> QED
    BY <2>2, <2>3, <2>4
<1>5. CASE UNCHANGED vars
  BY <1>1, <1>5 DEF vars, serverData
<1> QED
  BY <1>2, <1>3, <1>4, <1>5, ServerQueues DEF Next

(* A call that waits for room in a channel keeps its worker in the table:  *)
(* terminate, which writes, cannot pass the senders, which read.           *)
THEOREM SendsKeepTheirWorker == Spec => []SendsHoldTheirWorker
<1>1. Queues => SendsHoldTheirWorker
  BY DEF Queues, SendsHoldTheirWorker
<1> QED
  BY <1>1, InitType, InitKnown, InitQueues, NextType, NextKnown, NextQueues, PTL DEF Spec

-----------------------------------------------------------------------------
(* The workers: what runs is in the table, on its way to it or out of it.  *)

(* At first no worker runs.                                                *)
LEMMA InitRunning == Init => Running
  BY CallFacts DEF Init, Running

(* What a step of the call e changes of the calls, of the table and of the *)
(* threads.                                                                *)
Moves(e) ==
    /\ UNCHANGED master
    /\ at[e] \notin {"none", "over"} /\ at'[e] \notin {"none", "request"}
    /\ \A c \in Calls : c # e => at'[c] = at[c]
    /\ at'[e] # "over" => at[e] = "queued" \/ ServerOf(WorkerOf(e)) \in Trusting
    /\ at'[e] = "cancelling" => e.op = "terminate" /\ e.who \notin table'
    /\ e.op # "send" /\ (at[e] = "cancelling" \/ (e.op = "build" /\ at[e] = "queued")) =>
            at'[e] = "over" /\ (worker'[e.who] # "up" \/ e.who \in table')
    /\ \A w \in Workers :
        \/ worker'[w] = worker[w]
        \/ worker[w] = "up" /\ worker'[w] = "down"
        \/ /\ e.op = "build" /\ e.who = w /\ at[e] = "request" /\ at'[e] = "queued"
           /\ ServerOf(w) \in Trusting
    /\ \A w \in Workers :
        w \in table' => w \in table \/ (e.op = "build" /\ e.who = w /\ at[e] = "queued")
    /\ \A w \in Workers :
        w \in table => w \in table' \/ (e.who = w /\ at'[e] = "cancelling")
    /\ answer' # answer =>
        /\ call = e /\ at'[e] = "over"
        /\ e.op = "terminate" =>
            at[e] = "cancelling" \/ e.who \notin table \/ ServerOf(e.who) \notin Trusting

(* Every handler of a server, and a dropped call, moves one call.          *)
LEMMA ServerMoves ==
    ASSUME TypeOK, Queues, NEW e \in Calls, ServerStep(e) \/ Drop(e)
    PROVE  Moves(e)
<1>1. ASSUME Stops(e.who)
      PROVE  /\ \A w \in Workers : worker'[w] = worker[w] \/ (worker[w] = "up" /\ worker'[w] = "down")
             /\ e.op # "send" => worker'[e.who] # "up"
  <2>1. worker' = [worker EXCEPT ![e.who] = IF worker[e.who] = "up" THEN "down" ELSE worker[e.who]]
    BY <1>1 DEF Stops
  <2> QED
    BY <2>1, CallFacts DEF TypeOK
<1>2. CASE Receive(e)
  <2>1. CASE ServerOf(WorkerOf(e)) \in Trusting
    <3>1. /\ at' = [at EXCEPT ![e] = "queued"] /\ at[e] = "request"
          /\ UNCHANGED <<master, table, answer>>
          /\ worker' = IF e.op = "build" THEN [worker EXCEPT ![e.who] = "up"] ELSE worker
      BY <1>2, <2>1 DEF Receive
    <3>2. \A w \in Workers :
            worker'[w] = worker[w] \/ (e.op = "build" /\ e.who = w /\ ServerOf(w) \in Trusting)
      BY <2>1, <3>1, CallFacts DEF TypeOK
    <3> QED
      BY <2>1, <3>1, <3>2 DEF Moves, TypeOK
  <2>2. CASE ServerOf(WorkerOf(e)) \notin Trusting
    <3>1. /\ at' = [at EXCEPT ![e] = "over"] /\ at[e] = "request" /\ (answer' = answer \/ call = e)
          /\ UNCHANGED <<master, table, worker>>
      BY <1>2, <2>2 DEF Receive, Answer
    <3>2. e.op = "terminate" => ServerOf(e.who) \notin Trusting
      BY <2>2 DEF WorkerOf
    <3> QED
      BY <3>1, <3>2 DEF Moves, TypeOK
  <2> QED
    BY <2>1, <2>2
<1>3. CASE InsertWorker(e)
  BY <1>3 DEF InsertWorker, Answer, Moves, TypeOK
<1>4. CASE Find(e)
  BY <1>4 DEF Find, Answer, Moves, TypeOK
<1>5. CASE Deliver(e)
  <2>1. /\ at' = [at EXCEPT ![e] = "over"] /\ at[e] = "sending" /\ (answer' = answer \/ call = e)
        /\ UNCHANGED <<master, table, worker>> /\ e.op = "send"
    BY <1>5 DEF Deliver, Answer, Queues
  <2> QED
    BY <2>1 DEF Moves, TypeOK
<1>6. CASE RemoveWorker(e)
  BY <1>6 DEF RemoveWorker, Answer, Moves, TypeOK
<1>7. CASE Cancelled(e)
  BY <1>1, <1>7 DEF Cancelled, Answer, Moves, TypeOK
<1>8. CASE Drop(e)
  <2>1. /\ at' = [at EXCEPT ![e] = "over"] /\ Droppable(e)
        /\ UNCHANGED <<master, table, answer>>
        /\ IF OwnsWorker(e) THEN Stops(e.who) ELSE UNCHANGED worker
    BY <1>8 DEF Drop
  <2> QED
    BY <1>1, <2>1 DEF Moves, Droppable, OwnsWorker, TypeOK
<1> QED
  BY <1>2, <1>3, <1>4, <1>5, <1>6, <1>7, <1>8 DEF ServerStep

(* A worker that was terminated stays so.                                  *)
LEMMA MovesGone ==
    ASSUME TypeOK, Known, Running, NEW e \in Calls, Moves(e), NEW w \in Workers, Gone(w)
    PROVE  Gone(w)'
<1>1. e.op = "build" => e.who # w
  BY DEF Known, Moves, Gone
<1>2. built'[w] = "ok"
  BY DEF Gone, Moves, master
<1>3. w \notin table'
  BY <1>1 DEF Gone, Moves
<1>4. ASSUME worker'[w] = "up" PROVE BeingCancelled(w)'
  <2>1. worker[w] = "up"
    BY <1>1, <1>4 DEF Moves
  <2>2. PICK d \in Calls : d.who = w /\ at[d] = "cancelling"
    BY <2>1 DEF Gone, BeingCancelled
  <2>3. d.op = "terminate"
    BY <2>2 DEF Running
  <2>4. d # e
    BY <1>3, <1>4, <2>2, <2>3 DEF Moves
  <2> QED
    BY <2>2, <2>4 DEF BeingCancelled, Moves
<1> QED
  BY <1>2, <1>3, <1>4 DEF Gone

(* A call that moves loses no running worker.                              *)
LEMMA MovesRunning ==
    ASSUME TypeOK, TypeOK', Known, Running, NEW e \in Calls, Moves(e)
    PROVE  Running'
<1>0. UNCHANGED <<call, built, ended>>
  BY DEF Moves, master
<1>1. \A c \in Calls : c.op = "build" /\ at'[c] \in {"none", "request"} => worker'[c.who] = "none"
  <2> SUFFICES ASSUME NEW c \in Calls, c.op = "build", at'[c] \in {"none", "request"}
               PROVE  worker'[c.who] = "none"
    OBVIOUS
  <2>1. c # e /\ at'[c] = at[c]
    BY DEF Moves
  <2>2. worker[c.who] = "none" /\ c.who \in Workers
    BY <2>1, CallFacts DEF Running
  <2>3. ~ (e.op = "build" /\ e.who = c.who)
    BY <2>1, CallFacts, SameCall
  <2> QED
    BY <2>2, <2>3 DEF Moves
<1>2. \A c \in Calls : at'[c] \in {"queued", "sending", "cancelling"} => ServerOf(WorkerOf(c)) \in Trusting
  <2> SUFFICES ASSUME NEW c \in Calls, at'[c] \in {"queued", "sending", "cancelling"}
               PROVE  ServerOf(WorkerOf(c)) \in Trusting
    OBVIOUS
  <2>1. CASE c = e
    BY <2>1 DEF Running, Moves
  <2>2. CASE c # e
    BY <2>2 DEF Running, Moves
  <2> QED
    BY <2>1, <2>2
<1>3. ASSUME NEW w \in Workers, ServerOf(w) \notin Trusting
      PROVE  worker'[w] = "none" /\ w \notin table'
  <2>1. worker[w] = "none" /\ w \notin table
    BY <1>3 DEF Running
  <2>2. ~ (e.op = "build" /\ e.who = w /\ at[e] = "queued")
    BY <1>3 DEF Running, WorkerOf
  <2> QED
    BY <1>3, <2>1, <2>2 DEF Moves
<1>4. ASSUME NEW w \in Workers, worker'[w] = "up"
      PROVE  \/ w \in table'
             \/ \E c \in Calls : c.op = "build" /\ c.who = w /\ at'[c] = "queued"
             \/ BeingCancelled(w)'
  <2>1. CASE e.op = "build" /\ e.who = w /\ at'[e] = "queued"
    BY <2>1
  <2>2. CASE ~ (e.op = "build" /\ e.who = w /\ at'[e] = "queued")
    <3>1. worker[w] = "up"
      BY <1>4, <2>2 DEF Moves
    <3>2. CASE w \in table
      <4>1. w \in table' \/ (e.who = w /\ at'[e] = "cancelling")
        BY <3>2 DEF Moves
      <4> QED
        BY <4>1 DEF BeingCancelled
    <3>3. ASSUME NEW c \in Calls, c.op = "build", c.who = w, at[c] = "queued"
          PROVE  w \in table' \/ at'[c] = "queued"
      BY <1>4, <3>3 DEF Moves
    <3>4. ASSUME NEW c \in Calls, c.who = w, at[c] = "cancelling"
          PROVE  w \in table' \/ at'[c] = "cancelling"
      <4>1. c.op = "terminate"
        BY <3>4 DEF Running
      <4> QED
        BY <1>4, <3>4, <4>1 DEF Moves
    <3> QED
      BY <3>1, <3>2, <3>3, <3>4 DEF Running, BeingCancelled
  <2> QED
    BY <2>1, <2>2
<1>5. ASSUME NEW c \in Calls, at'[c] = "cancelling"
      PROVE  c.op = "terminate" /\ Gone(c.who)'
  <2>1. CASE at[c] = "cancelling"
    <3>1. c.op = "terminate" /\ Gone(c.who) /\ c.who \in Workers
      BY <2>1, CallFacts DEF Running
    <3> QED
      BY <3>1, MovesGone
  <2>2. CASE at[c] # "cancelling"
    <3>1. c = e /\ c.op = "terminate" /\ c.who \notin table' /\ at[c] # "none"
      BY <1>5, <2>2 DEF Moves
    <3>2. built'[c.who] = "ok"
      BY <1>0, <3>1 DEF Known
    <3> QED
      BY <1>5, <3>1, <3>2 DEF Gone, BeingCancelled
  <2> QED
    BY <2>1, <2>2
<1>6. ASSUME call' # NoCall, call'.op = "terminate", answer' # "none"
      PROVE  Gone(call.who)'
  <2>1. call \in Calls /\ call.op = "terminate" /\ call.who \in Workers
    BY <1>0, <1>6, CallFacts DEF TypeOK
  <2>2. CASE answer' = answer
    <3>1. Gone(call.who)
      BY <1>0, <1>6, <2>2 DEF Running
    <3> QED
      BY <1>0, <2>1, <3>1, MovesGone
  <2>3. CASE answer' # answer
    <3>1. /\ call = e /\ at[e] # "none"
          /\ at[e] = "cancelling" \/ e.who \notin table \/ ServerOf(e.who) \notin Trusting
      BY <2>1, <2>3 DEF Moves
    <3>2. built[e.who] = "ok"
      BY <2>1, <3>1 DEF Known
    <3>3. e.who \notin table => Gone(e.who)
      <4>1. \A c \in Calls : ~ (c.op = "build" /\ c.who = e.who /\ at[c] = "queued")
        BY <3>2 DEF Known
      <4> QED
        BY <2>1, <3>1, <3>2, <4>1 DEF Running, Gone
    <3>4. Gone(e.who)
      BY <2>1, <3>1, <3>3 DEF Running
    <3> QED
      BY <1>0, <2>1, <3>1, <3>4, MovesGone
  <2> QED
    BY <2>2, <2>3
<1>7. ASSUME NEW w \in Workers, ended'[w] = "terminated" PROVE Gone(w)'
  BY <1>0, <1>7, MovesGone DEF Running
<1> QED
  BY <1>1, <1>2, <1>3, <1>4, <1>5, <1>6, <1>7 DEF Running

(* The same when a server crashes.                                         *)
LEMMA CrashRunning ==
    ASSUME TypeOK, Known, Running, NEW s \in Servers, Crash(s)
    PROVE  Running'
<1>0. UNCHANGED <<call, built, ended, answer>>
  BY DEF Crash, master
<1>1. \A c \in Calls :
        IF at[c] # "none" /\ ServerOf(WorkerOf(c)) = s THEN at'[c] = "over" ELSE at'[c] = at[c]
  BY CallFacts DEF Crash
<1>2. /\ \A w \in Workers : IF ServerOf(w) = s THEN w \notin table' ELSE w \in table' <=> w \in table
      /\ table' \subseteq table
  BY DEF Crash
<1>3. \A w \in Workers :
        worker'[w] = IF ServerOf(w) = s /\ worker[w] = "up" THEN "down" ELSE worker[w]
  BY DEF Crash
<1>4. ASSUME NEW w \in Workers, Gone(w) PROVE Gone(w)'
  <2>1. ASSUME worker'[w] = "up" PROVE BeingCancelled(w)'
    <3>1. worker[w] = "up" /\ ServerOf(w) # s
      BY <1>3, <2>1
    <3>2. PICK d \in Calls : d.who = w /\ at[d] = "cancelling"
      BY <1>4, <3>1 DEF Gone, BeingCancelled
    <3>3. WorkerOf(d) = w
      BY <3>2 DEF Running, WorkerOf
    <3>4. at'[d] = "cancelling"
      BY <1>1, <3>1, <3>2, <3>3
    <3> QED
      BY <3>2, <3>4 DEF BeingCancelled
  <2> QED
    BY <1>0, <1>2, <1>4, <2>1 DEF Gone
<1>5. ASSUME NEW c \in Calls, c.op = "build", at'[c] \in {"none", "request"}
      PROVE  worker'[c.who] = "none"
  <2>1. worker[c.who] = "none" /\ c.who \in Workers
    BY <1>1, <1>5, CallFacts DEF Running
  <2> QED
    BY <1>3, <2>1
<1>6. ASSUME NEW c \in Calls, at'[c] \in {"queued", "sending", "cancelling"}
      PROVE  at[c] = at'[c] /\ ServerOf(WorkerOf(c)) \in Trusting
  BY <1>1, <1>6 DEF Running
<1>7. \A w \in Workers : ServerOf(w) \notin Trusting => worker'[w] = "none" /\ w \notin table'
  BY <1>2, <1>3 DEF Running
<1>8. ASSUME NEW w \in Workers, worker'[w] = "up"
      PROVE  \/ w \in table'
             \/ \E c \in Calls : c.op = "build" /\ c.who = w /\ at'[c] = "queued"
             \/ BeingCancelled(w)'
  <2>1. worker[w] = "up" /\ ServerOf(w) # s
    BY <1>3, <1>8
  <2>2. ASSUME NEW c \in Calls, c.op # "send", c.who = w PROVE at'[c] = at[c]
    BY <1>1, <2>1, <2>2 DEF WorkerOf
  <2>3. BeingCancelled(w) => BeingCancelled(w)'
    <3> SUFFICES ASSUME NEW c \in Calls, c.who = w, at[c] = "cancelling" PROVE at'[c] = "cancelling"
      BY DEF BeingCancelled
    <3>1. c.op # "send"
      BY DEF Running
    <3> QED
      BY <2>2, <3>1
  <2> QED
    BY <1>2, <2>1, <2>2, <2>3 DEF Running
<1>9. ASSUME NEW c \in Calls, at'[c] = "cancelling" PROVE c.op = "terminate" /\ Gone(c.who)'
  <2>1. at[c] = "cancelling"
    BY <1>6, <1>9
  <2>2. c.op = "terminate" /\ Gone(c.who) /\ c.who \in Workers
    BY <2>1, CallFacts DEF Running
  <2> QED
    BY <1>4, <2>2
<1>10. ASSUME call' # NoCall, call'.op = "terminate", answer' # "none" PROVE Gone(call.who)'
  <2>1. call \in Calls /\ call.who \in Workers /\ Gone(call.who)
    BY <1>0, <1>10, CallFacts DEF Running, TypeOK
  <2> QED
    BY <1>0, <1>4, <2>1
<1>11. \A w \in Workers : ended'[w] = "terminated" => Gone(w)'
  BY <1>0, <1>4 DEF Running
<1> QED
  BY <1>0, <1>5, <1>6, <1>7, <1>8, <1>9, <1>10, <1>11 DEF Running

(* What the master learns: a build that succeeded stays so, and a worker   *)
(* is terminated when an answer says so.                                   *)
Learns ==
    /\ \A w \in Workers : built[w] = "ok" => built'[w] = "ok"
    /\ call' = NoCall \/ answer' = "none" \/ UNCHANGED <<call, answer>>
    /\ \A w \in Workers : ended'[w] = "terminated" =>
        \/ ended[w] = "terminated"
        \/ call # NoCall /\ call.op = "terminate" /\ call.who = w /\ answer # "none"

(* A call without an answer teaches the master nothing.                    *)
LEMMA TryLearns ==
    ASSUME TypeOK, NEW op, NEW who, NEW n, Try(op, who, n), UNCHANGED built
    PROVE  Learns
<1>1. CASE n <= MaxRetries
  BY <1>1 DEF Try, Request, Learns
<1>2. CASE ~ n <= MaxRetries
  <2>1. call' = NoCall /\ (ended' = ended \/ ended' = [ended EXCEPT ![who] = "dangling"])
    BY <1>2 DEF Try
  <2> QED
    BY <2>1 DEF Learns, TypeOK
<1> QED
  BY <1>1, <1>2

(* So does every step of the master but an answer.                         *)
LEMMA MasterLearns ==
    ASSUME TypeOK, Known, MasterStep
    PROVE  Learns
<1>1. ASSUME NEW w \in Workers, Build(w) PROVE Learns
  BY <1>1 DEF Build, Request, Learns
<1>2. ASSUME NEW w \in Workers, Terminate(w) PROVE Learns
  BY <1>2, TryLearns DEF Terminate
<1>3. ASSUME NEW j \in Jobs, Send(j) PROVE Learns
  BY <1>3, TryLearns DEF Send
<1>4. CASE AllBuilt \/ StopSending \/ AllTerminated
  BY <1>4 DEF AllBuilt, StopSending, AllTerminated, Learns
<1>5. CASE GiveUp
  <2>1. call \in Calls /\ ~ Settled(call)
    BY <1>5 DEF GiveUp, Known, TypeOK
  <2>2. CASE call.op = "build"
    <3>1. /\ built' = [built EXCEPT ![call.who] = "failed"]
          /\ call' = NoCall /\ ended' = ended /\ built[call.who] = "no"
      BY <1>5, <2>1, <2>2 DEF GiveUp, Settled
    <3> QED
      BY <3>1 DEF Learns, TypeOK
  <2>3. CASE call.op # "build"
    BY <1>5, <2>3, TryLearns DEF GiveUp
  <2> QED
    BY <2>2, <2>3
<1>6. CASE Answered
  <2>1. call \in Calls /\ call # NoCall /\ answer # "none" /\ call' = NoCall /\ ~ Settled(call)
    BY <1>6 DEF Answered, Known, TypeOK
  <2>2. CASE call.op = "build"
    <3>1. /\ built' = [built EXCEPT ![call.who] = IF Outcome = "ok" THEN "ok" ELSE "failed"]
          /\ ended' = ended /\ built[call.who] = "no"
      BY <1>6, <2>1, <2>2 DEF Answered, Settled
    <3> QED
      BY <2>1, <3>1 DEF Learns, TypeOK
  <2>3. CASE call.op = "send"
    BY <1>6, <2>1, <2>3 DEF Answered, Learns
  <2>4. CASE call.op = "terminate"
    <3>1. ended' = [ended EXCEPT ![call.who] = "terminated"] /\ built' = built
      BY <1>6, <2>4 DEF Answered
    <3> QED
      BY <2>1, <2>4, <3>1 DEF Learns, TypeOK
  <2> QED
    BY <2>1, <2>2, <2>3, <2>4, CallFacts
<1> QED
  BY <1>1, <1>2, <1>3, <1>4, <1>5, <1>6 DEF MasterStep

(* The same when the master does something, or a worker.                   *)
LEMMA OtherRunning ==
    ASSUME TypeOK, Known, Running,
           MasterStep \/ \E w \in Workers : TakeJob(w) \/ WorkerDies(w)
    PROVE  Running'
<1>1. /\ Learns
      /\ at' = at \/ \E c \in Calls : at[c] = "none" /\ at' = [at EXCEPT ![c] = "request"]
      /\ table' = table
      /\ \A w \in Workers : worker'[w] = worker[w] \/ (worker[w] = "up" /\ worker'[w] = "down")
  <2>1. CASE MasterStep
    BY <2>1, MasterLearns, MasterCalls DEF serverData
  <2>2. ASSUME NEW w \in Workers, TakeJob(w) \/ WorkerDies(w)
        PROVE  /\ UNCHANGED <<master, at, answer, table>>
               /\ \A v \in Workers :
                    worker'[v] = worker[v] \/ (worker[v] = "up" /\ worker'[v] = "down")
    <3>1. CASE TakeJob(w)
      BY <3>1 DEF TakeJob
    <3>2. CASE WorkerDies(w)
      <4>1. worker' = [worker EXCEPT ![w] = "down"] /\ worker[w] = "up"
        BY <3>2 DEF WorkerDies, Stops
      <4> QED
        BY <3>2, <4>1 DEF WorkerDies, TypeOK
    <3> QED
      BY <2>2, <3>1, <3>2
  <2> QED
    BY <2>1, <2>2 DEF Learns, master
<1>2. \A c \in Calls : at'[c] = at[c] \/ (at[c] = "none" /\ at'[c] = "request")
  BY <1>1 DEF TypeOK
<1>3. ASSUME NEW w \in Workers, Gone(w) PROVE Gone(w)'
  BY <1>1, <1>2, <1>3 DEF Gone, BeingCancelled, Learns
<1>4. ASSUME NEW c \in Calls, c.op = "build", at'[c] \in {"none", "request"}
      PROVE  worker'[c.who] = "none"
  <2>1. worker[c.who] = "none" /\ c.who \in Workers
    BY <1>2, <1>4, CallFacts DEF Running
  <2> QED
    BY <1>1, <2>1
<1>5. ASSUME NEW c \in Calls, at'[c] \in {"queued", "sending", "cancelling"}
      PROVE  at[c] = at'[c] /\ ServerOf(WorkerOf(c)) \in Trusting
  BY <1>2, <1>5 DEF Running
<1>6. ASSUME NEW w \in Workers, ServerOf(w) \notin Trusting PROVE worker'[w] = "none" /\ w \notin table'
  BY <1>1, <1>6 DEF Running
<1>7. ASSUME NEW w \in Workers, worker'[w] = "up"
      PROVE  \/ w \in table'
             \/ \E c \in Calls : c.op = "build" /\ c.who = w /\ at'[c] = "queued"
             \/ BeingCancelled(w)'
  <2>1. worker[w] = "up"
    BY <1>1, <1>7
  <2> QED
    BY <1>1, <1>2, <2>1 DEF Running, BeingCancelled
<1>8. ASSUME NEW c \in Calls, at'[c] = "cancelling" PROVE c.op = "terminate" /\ Gone(c.who)'
  <2>1. at[c] = "cancelling"
    BY <1>5, <1>8
  <2>2. c.op = "terminate" /\ Gone(c.who) /\ c.who \in Workers
    BY <2>1, CallFacts DEF Running
  <2> QED
    BY <1>3, <2>2
<1>9. ASSUME call' # NoCall, call'.op = "terminate", answer' # "none" PROVE Gone(call.who)'
  <2>1. UNCHANGED <<call, answer>>
    BY <1>1, <1>9 DEF Learns
  <2>2. call \in Calls /\ call.who \in Workers /\ Gone(call.who)
    BY <1>9, <2>1, CallFacts DEF Running, TypeOK
  <2> QED
    BY <1>3, <2>1, <2>2
<1>10. ASSUME NEW w \in Workers, ended'[w] = "terminated" PROVE Gone(w)'
  BY <1>1, <1>3, <1>10 DEF Running, Learns
<1> QED
  BY <1>4, <1>5, <1>6, <1>7, <1>8, <1>9, <1>10 DEF Running

(* One step after another.                                                 *)
LEMMA NextRunning == TypeOK /\ Known /\ Queues /\ Running /\ [Next]_vars => Running'
<1> SUFFICES ASSUME TypeOK, Known, Queues, Running, [Next]_vars PROVE Running'
  OBVIOUS
<1>1. CASE UNCHANGED vars
  BY <1>1 DEF vars, master, serverData, Running, Gone, BeingCancelled
<1>2. ASSUME NEW e \in Calls, ServerStep(e) \/ Drop(e) PROVE Running'
  BY <1>2, ServerType, ServerMoves, MovesRunning
<1> QED
  BY <1>1, <1>2, CrashRunning, OtherRunning DEF Next

(* What the master has terminated is out of the table and stops, and a run *)
(* that ends leaves nothing else running, but where a build failed or no   *)
(* try to terminate was answered.                                          *)
THEOREM EndedWorkersStop == Spec => []WorkersAreStopped
<1>1. TypeOK /\ Known /\ Running => WorkersAreStopped
  BY DEF TypeOK, Known, Running, Gone, WorkersAreStopped
<1> QED
  BY <1>1, InitType, InitKnown, InitQueues, InitRunning,
     NextType, NextKnown, NextQueues, NextRunning, PTL DEF Spec

-----------------------------------------------------------------------------
(* How often a job is delivered: its tries that are not over may still     *)
(* deliver it, once each.                                                  *)

(* There are finitely many tries.                                          *)
LEMMA PendingFacts ==
    ASSUME TypeOK, NEW j \in Jobs
    PROVE  /\ IsFiniteSet(Pending(j))
           /\ Cardinality(Pending(j)) \in Nat
<1>1. IsFiniteSet(1 .. MaxRetries)
  BY FS_Interval, JobsAssumption
<1>2. Pending(j) \subseteq 1 .. MaxRetries
  BY DEF Pending
<1> QED
  BY <1>1, <1>2, FS_Subset, FS_CardinalityType

(* At first every try is to come.                                          *)
LEMMA InitCounted == Init => Counted
<1> SUFFICES ASSUME Init PROVE Counted
  OBVIOUS
<1>1. ASSUME NEW j \in Jobs PROVE delivered[j] + Cardinality(Pending(j)) <= MaxRetries
  <2>1. Pending(j) = 1 .. MaxRetries
    BY DEF Init, Pending
  <2>2. Cardinality(1 .. MaxRetries) = MaxRetries
    BY FS_Interval, JobsAssumption
  <2>3. delivered[j] = 0
    BY DEF Init
  <2> QED
    BY <2>1, <2>2, <2>3, JobsAssumption
<1> QED
  BY <1>1 DEF Init, Counted

(* What is over stays so, and nothing is delivered without Deliver.        *)
LEMMA QuietCounted ==
    ASSUME TypeOK, TypeOK', Counted, delivered' = delivered,
           \A c \in Calls : at[c] = "over" => at'[c] = "over",
           \/ call' = NoCall \/ answer' # "ok" \/ UNCHANGED <<call, answer>>
           \/ call'.op # "send"
    PROVE  Counted'
<1>1. ASSUME NEW j \in Jobs PROVE delivered'[j] + Cardinality(Pending(j)') <= MaxRetries
  <2>1. Pending(j)' \subseteq Pending(j)
    BY DEF Pending
  <2>2. Cardinality(Pending(j)') <= Cardinality(Pending(j)) /\ Cardinality(Pending(j)') \in Nat
    BY <2>1, PendingFacts, FS_Subset, FS_CardinalityType
  <2>3. delivered[j] \in Nat /\ delivered[j] + Cardinality(Pending(j)) <= MaxRetries
    BY DEF TypeOK, Counted
  <2> QED
    BY <2>2, <2>3, PendingFacts, JobsAssumption
<1> QED
  BY <1>1 DEF Counted

(* A try that delivers a job is over with it.                              *)
LEMMA DeliverCounted ==
    ASSUME TypeOK, TypeOK', Queues, Counted, NEW e \in Calls, Deliver(e)
    PROVE  Counted' /\ e.op = "send" /\ (delivered' # delivered => delivered[e.who] < MaxRetries)
<1>1. /\ e.op = "send" /\ e.who \in Jobs /\ e.try \in 1 .. MaxRetries
      /\ at[e] = "sending" /\ at' = [at EXCEPT ![e] = "over"]
      /\ UNCHANGED master
  BY CallFacts DEF Deliver, Answer, Queues
<1>2. CASE worker[WorkerOf(e)] # "up"
  <2>1. delivered' = delivered /\ (answer' # "ok" \/ UNCHANGED <<call, answer>>)
    BY <1>2 DEF Deliver, Answer, master
  <2>2. \A c \in Calls : at[c] = "over" => at'[c] = "over"
    BY <1>1 DEF TypeOK
  <2> QED
    BY <1>1, <2>1, <2>2, QuietCounted
<1>3. CASE worker[WorkerOf(e)] = "up"
  <2>1. delivered' = [delivered EXCEPT ![e.who] = delivered[e.who] + 1]
    BY <1>3 DEF Deliver
  <2>2. e.try \in Pending(e.who)
    BY <1>1, SameCall DEF Pending
  <2>3. Cardinality(Pending(e.who) \ {e.try}) = Cardinality(Pending(e.who)) - 1
    BY <1>1, <2>2, PendingFacts, FS_RemoveElement
  <2>4. Cardinality(Pending(e.who)) >= 1
    BY <1>1, <2>2, <2>3, PendingFacts, FS_RemoveElement, FS_CardinalityType
  <2>5. ASSUME NEW j \in Jobs PROVE Pending(j)' \subseteq Pending(j) /\ e.try \notin Pending(e.who)'
    BY <1>1 DEF Pending, TypeOK
  <2>6. ASSUME NEW j \in Jobs PROVE delivered'[j] + Cardinality(Pending(j)') <= MaxRetries
    <3>1. delivered[j] \in Nat /\ delivered[j] + Cardinality(Pending(j)) <= MaxRetries
      BY DEF TypeOK, Counted
    <3>2. Cardinality(Pending(j)') \in Nat
      BY PendingFacts, <2>5, FS_Subset, FS_CardinalityType
    <3>3. CASE j = e.who
      <4>1. Pending(j)' \subseteq Pending(j) \ {e.try}
        BY <2>5, <3>3
      <4>2. IsFiniteSet(Pending(j) \ {e.try})
        BY PendingFacts, FS_Subset
      <4>3. Cardinality(Pending(j)') <= Cardinality(Pending(j)) - 1
        BY <2>3, <3>3, <4>1, <4>2, FS_Subset
      <4>4. delivered'[j] = delivered[j] + 1
        BY <2>1, <3>3 DEF TypeOK
      <4> QED
        BY <3>1, <3>2, <4>3, <4>4, PendingFacts, JobsAssumption
    <3>4. CASE j # e.who
      <4>1. Cardinality(Pending(j)') <= Cardinality(Pending(j))
        BY <2>5, PendingFacts, FS_Subset
      <4>2. delivered'[j] = delivered[j]
        BY <2>1, <3>4 DEF TypeOK
      <4> QED
        BY <3>1, <3>2, <4>1, <4>2, PendingFacts, JobsAssumption
    <3> QED
      BY <3>3, <3>4
  <2>7. call' # NoCall /\ call'.op = "send" /\ answer' = "ok" => delivered'[call'.who] > 0
    <3> SUFFICES ASSUME call' # NoCall, call'.op = "send", answer' = "ok"
                 PROVE  delivered'[call'.who] > 0
      OBVIOUS
    <3>1. call' = call /\ call \in Calls /\ call.who \in Jobs
      BY <1>1, CallFacts DEF master, TypeOK
    <3>2. \A j \in Jobs :
            delivered[j] \in Nat /\ delivered'[j] \in Nat /\ delivered'[j] >= delivered[j]
      BY <2>1 DEF TypeOK
    <3>3. CASE e = call
      BY <1>1, <2>1, <3>1, <3>3 DEF TypeOK
    <3>4. CASE e # call
      <4>1. answer = "ok"
        BY <1>3, <3>4 DEF Deliver, Answer
      <4>2. delivered[call.who] > 0
        BY <3>1, <4>1 DEF Counted
      <4> QED
        BY <3>1, <3>2, <4>2
    <3> QED
      BY <3>3, <3>4
  <2>8. delivered[e.who] < MaxRetries
    BY <1>1, <2>4, PendingFacts, JobsAssumption DEF Counted, TypeOK
  <2> QED
    BY <1>1, <2>6, <2>7, <2>8 DEF Counted
<1> QED
  BY <1>2, <1>3

(* One step after another.                                                 *)
LEMMA NextCounted == TypeOK /\ Known /\ Queues /\ Running /\ Counted /\ [Next]_vars => Counted'
<1> SUFFICES ASSUME TypeOK, Known, Queues, Running, Counted, [Next]_vars PROVE Counted'
  OBVIOUS
<1>0. TypeOK'
  BY NextType
<1>1. CASE MasterStep
  <2>1. Learns /\ delivered' = delivered
    BY <1>1, MasterLearns, MasterCalls DEF serverData
  <2>2. \A c \in Calls : at[c] = "over" => at'[c] = "over"
    BY <1>1, MasterCalls DEF TypeOK
  <2> QED
    BY <1>0, <2>1, <2>2, QuietCounted DEF Learns
<1>2. ASSUME NEW e \in Calls, ServerStep(e) \/ Drop(e) PROVE Counted'
  <2>1. \A c \in Calls : at[c] = "over" => at'[c] = "over"
    BY <1>2, ServerServes DEF Serves
  <2>2. UNCHANGED call
    BY <1>2, ServerServes DEF Serves, master
  <2>3. ASSUME NEW r, Answer(e, r), r = "err" \/ e.op # "send", delivered' = delivered PROVE Counted'
    BY <1>0, <2>1, <2>2, <2>3, QuietCounted DEF Answer
  <2>4. CASE Receive(e)
    BY <1>0, <2>1, <2>2, <2>3, <2>4, QuietCounted DEF Receive
  <2>5. CASE InsertWorker(e)
    BY <2>3, <2>5 DEF InsertWorker
  <2>6. CASE Find(e)
    BY <1>0, <2>1, <2>2, <2>3, <2>6, QuietCounted DEF Find
  <2>7. CASE Deliver(e)
    BY <1>0, <2>7, DeliverCounted
  <2>8. CASE RemoveWorker(e)
    BY <1>0, <2>1, <2>2, <2>3, <2>8, QuietCounted DEF RemoveWorker
  <2>9. CASE Cancelled(e)
    BY <2>3, <2>9 DEF Cancelled, Running
  <2>10. CASE Drop(e)
    BY <1>0, <2>1, <2>2, <2>10, QuietCounted DEF Drop
  <2> QED
    BY <1>2, <2>4, <2>5, <2>6, <2>7, <2>8, <2>9, <2>10 DEF ServerStep
<1>3. ASSUME NEW w \in Workers, TakeJob(w) \/ WorkerDies(w) PROVE Counted'
  BY <1>0, <1>3, QuietCounted DEF TakeJob, WorkerDies, master
<1>4. ASSUME NEW s \in Servers, Crash(s) PROVE Counted'
  BY <1>0, <1>4, QuietCounted DEF Crash, master
<1>5. CASE UNCHANGED vars
  BY <1>0, <1>5, QuietCounted DEF vars, master, serverData
<1> QED
  BY <1>1, <1>2, <1>3, <1>4, <1>5 DEF Next

-----------------------------------------------------------------------------
(* The handlers deliver as the master may expect: Delivery.                *)

ToldOf == [j \in Jobs |-> IF Asked(j) THEN "asked" ELSE told[j]]

(* At first no worker runs and no job is asked for or delivered.           *)
LEMMA InitDelivery == Init => D!Init
<1> SUFFICES ASSUME Init PROVE D!Init
  OBVIOUS
<1>1. ToldOf = [j \in Jobs |-> "unsent"]
  BY DEF Init, ToldOf, Asked
<1> QED
  BY <1>1 DEF Init, D!Init, ToldOf

(* A call without an answer: the master asks, or knows nothing of the job. *)
LEMMA TryDelivery ==
    ASSUME TypeOK, NEW op, NEW who, NEW n, Try(op, who, n),
           UNCHANGED <<worker, delivered>>,
           \/ op = "send" /\ who \in Jobs /\ told[who] = "unsent"
           \/ op = "terminate" /\ who \in Workers,
           call = NoCall \/ (call \in Calls /\ call.op = op /\ call.who = who),
           n <= MaxRetries => [op |-> op, who |-> who, try |-> n] \in Calls
    PROVE  D!Next \/ UNCHANGED D!vars
<1>1. CASE op = "send" /\ n <= MaxRetries
  <2>1. /\ call' = [op |-> "send", who |-> who, try |-> n] /\ told' = told
        /\ call' # NoCall
    BY <1>1, JobsAssumption DEF Try, Request
  <2>2. \A j \in Jobs : Asked(j)' <=> j = who
    BY <2>1 DEF Asked
  <2>3. CASE call = NoCall
    <3>1. \A j \in Jobs : ~ Asked(j)
      BY <2>3 DEF Asked
    <3>2. ToldOf' = [ToldOf EXCEPT ![who] = "asked"] /\ ToldOf[who] = "unsent"
      BY <1>1, <2>1, <2>2, <3>1 DEF ToldOf
    <3>3. D!Ask(who)
      BY <3>2 DEF D!Ask, ToldOf
    <3> QED
      BY <1>1, <3>3 DEF D!Next
  <2>4. CASE call # NoCall
    <3>1. \A j \in Jobs : Asked(j) <=> j = who
      BY <1>1, <2>4 DEF Asked
    <3>2. ToldOf' = ToldOf
      BY <2>1, <2>2, <3>1 DEF ToldOf
    <3> QED
      BY <3>2 DEF D!vars, ToldOf
  <2> QED
    BY <2>3, <2>4
<1>2. CASE op = "send" /\ ~ n <= MaxRetries
  <2>1. call' = NoCall /\ told' = [told EXCEPT ![who] = "err"]
    BY <1>2 DEF Try
  <2>2. \A j \in Jobs : ~ Asked(j)' /\ (Asked(j) => j = who)
    BY <2>1 DEF Asked
  <2>3. ToldOf' = [ToldOf EXCEPT ![who] = "err"] /\ ToldOf[who] \in {"unsent", "asked"}
    BY <1>2, <2>1, <2>2 DEF ToldOf, TypeOK
  <2>4. D!Tell(who, "err")
    BY <2>3 DEF D!Tell, ToldOf
  <2> QED
    BY <1>2, <2>4 DEF D!Next
<1>3. CASE op = "terminate"
  <2>1. told' = told /\ (call' = NoCall \/ call'.op = "terminate")
    BY <1>3 DEF Try, Request
  <2>2. \A j \in Jobs : ~ Asked(j) /\ ~ Asked(j)'
    BY <1>3, <2>1 DEF Asked
  <2>3. ToldOf' = ToldOf
    BY <2>1, <2>2 DEF ToldOf
  <2> QED
    BY <2>3 DEF D!vars, ToldOf
<1> QED
  BY <1>1, <1>2, <1>3

(* What the master does: it asks for a job, learns of it, or is not seen.  *)
LEMMA MasterDelivery ==
    ASSUME TypeOK, Known, Counted, MasterStep
    PROVE  D!Next \/ UNCHANGED D!vars
<1>0. UNCHANGED <<worker, delivered>>
  BY MasterCalls DEF serverData
<1>1. ASSUME told' = told, \A j \in Jobs : Asked(j)' <=> Asked(j) PROVE UNCHANGED D!vars
  <2>1. ToldOf' = ToldOf
    BY <1>1 DEF ToldOf
  <2> QED
    BY <1>0, <2>1 DEF D!vars, ToldOf
<1>2. ASSUME NEW w \in Workers, Build(w) PROVE UNCHANGED D!vars
  BY <1>1, <1>2 DEF Build, Request, Asked
<1>3. ASSUME NEW w \in Workers, Terminate(w) PROVE D!Next \/ UNCHANGED D!vars
  <2>1. 1 <= MaxRetries => [op |-> "terminate", who |-> w, try |-> 1] \in Calls
    BY TerminateCalls, JobsAssumption
  <2> QED
    BY <1>0, <1>3, <2>1, TryDelivery DEF Terminate
<1>4. ASSUME NEW j \in Jobs, Send(j) PROVE D!Next \/ UNCHANGED D!vars
  <2>1. 1 <= MaxRetries => [op |-> "send", who |-> j, try |-> 1] \in Calls
    BY SendCalls, JobsAssumption
  <2> QED
    BY <1>0, <1>4, <2>1, TryDelivery DEF Send
<1>5. CASE AllBuilt \/ StopSending \/ AllTerminated
  BY <1>1, <1>5 DEF AllBuilt, StopSending, AllTerminated, Asked
<1>6. CASE GiveUp
  <2>1. call \in Calls /\ call # NoCall /\ ~ Settled(call)
    BY <1>6 DEF GiveUp, Known, TypeOK
  <2>2. CASE call.op = "build"
    BY <1>1, <1>6, <2>2 DEF GiveUp, Asked
  <2>3. CASE call.op # "build"
    <3>1. Try(call.op, call.who, call.try + 1)
      BY <1>6, <2>3 DEF GiveUp
    <3>2. \/ call.op = "send" /\ call.who \in Jobs /\ told[call.who] = "unsent"
          \/ call.op = "terminate" /\ call.who \in Workers
      BY <2>1, <2>3, CallFacts DEF Settled
    <3>3. call.try + 1 <= MaxRetries => call.try + 1 \in 1 .. MaxRetries
      BY <2>1, CallFacts, JobsAssumption
    <3>4. call.try + 1 <= MaxRetries =>
            [op |-> call.op, who |-> call.who, try |-> call.try + 1] \in Calls
      BY <3>2, <3>3, SendCalls, TerminateCalls
    <3> QED
      BY <1>0, <2>1, <3>1, <3>2, <3>4, TryDelivery
  <2> QED
    BY <2>2, <2>3
<1>7. CASE Answered
  <2>1. call \in Calls /\ call # NoCall /\ call' = NoCall /\ ~ Settled(call)
    BY <1>7 DEF Answered, Known, TypeOK
  <2>2. \A j \in Jobs : ~ Asked(j)'
    BY <2>1 DEF Asked
  <2>3. CASE call.op = "send"
    <3>1. PICK j \in Jobs : j = call.who /\ told[j] = "unsent" /\ told' = [told EXCEPT ![j] = answer]
      BY <1>7, <2>1, <2>3, CallFacts DEF Answered, Outcome, Settled
    <3>2. PICK r \in {"ok", "err"} : r = answer /\ (r = "ok" => delivered[j] > 0)
      BY <1>7, <2>1, <2>3, <3>1 DEF Answered, Counted, TypeOK
    <3>3. \A i \in Jobs : Asked(i) <=> i = j
      BY <2>1, <2>3, <3>1 DEF Asked
    <3>4. ToldOf' = [ToldOf EXCEPT ![j] = r] /\ ToldOf[j] = "asked"
      BY <2>2, <3>1, <3>2, <3>3 DEF ToldOf, TypeOK
    <3>5. D!Tell(j, r)
      BY <1>0, <3>2, <3>4 DEF D!Tell, ToldOf
    <3> QED
      BY <3>5 DEF D!Next
  <2>4. CASE call.op # "send"
    <3>1. told' = told
      <4>1. CASE call.op = "build"
        BY <1>7, <4>1 DEF Answered
      <4>2. CASE call.op = "terminate"
        BY <1>7, <4>2 DEF Answered
      <4> QED
        BY <2>1, <2>4, <4>1, <4>2, CallFacts
    <3>2. \A i \in Jobs : ~ Asked(i)
      BY <2>4 DEF Asked
    <3> QED
      BY <1>1, <2>2, <3>1, <3>2
  <2> QED
    BY <2>3, <2>4
<1> QED
  BY <1>2, <1>3, <1>4, <1>5, <1>6, <1>7 DEF MasterStep

(* What a server does: it starts a worker, delivers a job or stops workers. *)
LEMMA ServerDelivery ==
    ASSUME TypeOK, Known, Queues, Running, Counted, NEW e \in Calls, ServerStep(e) \/ Drop(e)
    PROVE  D!Next \/ UNCHANGED D!vars
<1>0. UNCHANGED <<call, told>>
  BY ServerServes DEF Serves, master
<1>1. ToldOf' = ToldOf
  BY <1>0 DEF ToldOf, Asked
<1>2. ASSUME UNCHANGED <<worker, delivered>> PROVE UNCHANGED D!vars
  BY <1>1, <1>2 DEF D!vars, ToldOf
<1>3. ASSUME NEW w \in Workers, Stops(w), delivered' = delivered PROVE D!Next
  <2>1. worker' = [worker EXCEPT ![w] = IF worker[w] = "up" THEN "down" ELSE worker[w]]
    BY <1>3 DEF Stops
  <2>2. worker' = [v \in Workers |-> IF v \in {w} /\ worker[v] = "up" THEN "down" ELSE worker[v]]
    BY <2>1 DEF TypeOK
  <2>3. D!Stop({w})
    BY <1>1, <1>3, <2>2 DEF D!Stop, ToldOf
  <2> QED
    BY <2>3 DEF D!Next
<1>4. CASE Receive(e)
  <2>1. CASE e.op = "build" /\ ServerOf(WorkerOf(e)) \in Trusting
    <3>1. /\ worker' = [worker EXCEPT ![e.who] = "up"] /\ delivered' = delivered
          /\ at[e] = "request" /\ e.who \in Workers
      BY <1>4, <2>1, CallFacts DEF Receive
    <3>2. worker[e.who] = "none"
      BY <2>1, <3>1 DEF Running
    <3>3. D!Start(e.who)
      BY <1>1, <3>1, <3>2 DEF D!Start, ToldOf
    <3> QED
      BY <3>1, <3>3 DEF D!Next
  <2>2. CASE ~ (e.op = "build" /\ ServerOf(WorkerOf(e)) \in Trusting)
    BY <1>2, <1>4, <2>2 DEF Receive
  <2> QED
    BY <2>1, <2>2
<1>5. CASE InsertWorker(e) \/ Find(e) \/ RemoveWorker(e)
  BY <1>2, <1>5 DEF InsertWorker, Find, RemoveWorker
<1>6. CASE Deliver(e)
  <2>1. CASE worker[WorkerOf(e)] # "up"
    BY <1>2, <1>6, <2>1 DEF Deliver
  <2>2. CASE worker[WorkerOf(e)] = "up"
    <3>1. e.op = "send" /\ e.who \in Jobs /\ at[e] = "sending"
      BY <1>6, CallFacts DEF Deliver, Queues
    <3>2. delivered' = [delivered EXCEPT ![e.who] = delivered[e.who] + 1] /\ worker' = worker
      BY <1>6, <2>2 DEF Deliver
    <3>3. delivered' # delivered
      BY <3>1, <3>2 DEF TypeOK
    <3>4. delivered[e.who] < MaxRetries
      BY <1>6, <3>3, DeliverCounted, ServerType DEF ServerStep
    <3>5. ToldOf[e.who] # "unsent"
      <4>1. Made(e)
        BY <3>1 DEF Known
      <4>2. Asked(e.who) \/ told[e.who] # "unsent"
        BY <3>1, <4>1 DEF Made, Settled, Asked
      <4> QED
        BY <3>1, <4>2 DEF ToldOf
    <3>6. worker[Chosen[e.who]] = "up"
      BY <2>2, <3>1 DEF WorkerOf
    <3>7. D!Deliver(e.who)
      BY <1>1, <3>2, <3>4, <3>5, <3>6 DEF D!Deliver, ToldOf
    <3> QED
      BY <3>1, <3>7 DEF D!Next
  <2> QED
    BY <2>1, <2>2
<1>7. CASE Cancelled(e)
  <2>1. Stops(e.who) /\ delivered' = delivered /\ e.who \in Workers
    BY <1>7, CallFacts DEF Cancelled, Running
  <2> QED
    BY <1>3, <2>1
<1>8. CASE Drop(e)
  <2>1. CASE OwnsWorker(e)
    <3>1. Stops(e.who) /\ delivered' = delivered /\ e.who \in Workers
      BY <1>8, <2>1, CallFacts DEF Drop, OwnsWorker, Running
    <3> QED
      BY <1>3, <3>1
  <2>2. CASE ~ OwnsWorker(e)
    BY <1>2, <1>8, <2>2 DEF Drop
  <2> QED
    BY <2>1, <2>2
<1> QED
  BY <1>4, <1>5, <1>6, <1>7, <1>8 DEF ServerStep

(* Every step is one of Delivery, or is not seen by it.                    *)
LEMMA NextDelivery ==
    TypeOK /\ Known /\ Queues /\ Running /\ Counted /\ [Next]_vars => [D!Next]_(D!vars)
<1> SUFFICES ASSUME TypeOK, Known, Queues, Running, Counted, [Next]_vars
             PROVE  D!Next \/ UNCHANGED D!vars
  OBVIOUS
<1>1. ASSUME UNCHANGED <<call, told>> PROVE ToldOf' = ToldOf
  BY <1>1 DEF ToldOf, Asked
<1>2. ASSUME NEW s \in Servers, Crash(s) PROVE D!Next
  <2>1. ToldOf' = ToldOf
    BY <1>1, <1>2 DEF Crash, master
  <2>2. D!Stop({w \in Workers : ServerOf(w) = s})
    BY <1>2, <2>1 DEF Crash, D!Stop, ToldOf
  <2> QED
    BY <2>2 DEF D!Next
<1>3. ASSUME NEW w \in Workers, TakeJob(w) PROVE UNCHANGED D!vars
  BY <1>1, <1>3 DEF TakeJob, master, D!vars, ToldOf
<1>4. ASSUME NEW w \in Workers, WorkerDies(w) PROVE D!Next
  <2>1. ToldOf' = ToldOf /\ delivered' = delivered
    BY <1>1, <1>4 DEF WorkerDies, master
  <2>2. worker' = [worker EXCEPT ![w] = "down"] /\ worker[w] = "up"
    BY <1>4 DEF WorkerDies, Stops
  <2>3. worker' = [v \in Workers |-> IF v \in {w} /\ worker[v] = "up" THEN "down" ELSE worker[v]]
    BY <2>2 DEF TypeOK
  <2>4. D!Stop({w})
    BY <2>1, <2>3 DEF D!Stop, ToldOf
  <2> QED
    BY <2>4 DEF D!Next
<1>5. CASE UNCHANGED vars
  BY <1>1, <1>5 DEF vars, master, serverData, D!vars, ToldOf
<1> QED
  BY <1>2, <1>3, <1>4, <1>5, MasterDelivery, ServerDelivery DEF Next

(* Whatever is late, lost or crashes, the remote handlers deliver as the   *)
(* master may expect of any handler.                                       *)
THEOREM RemoteDelivery == Spec => IsDelivery
<1>1. Spec => D!Init /\ [][D!Next]_(D!vars)
  BY InitType, InitKnown, InitQueues, InitRunning, InitCounted, InitDelivery,
     NextType, NextKnown, NextQueues, NextRunning, NextCounted, NextDelivery, PTL DEF Spec
<1> QED
  BY <1>1 DEF IsDelivery, D!Spec
=============================================================================
