------------------------------- MODULE Waves --------------------------------
(***************************************************************************)
(* Commands that run on one database at the same time: `lopez run',        *)
(* `lopez rm' and `lopez page-rank', on waves of their own or on the same. *)
(*                                                                         *)
(* An action is one SQL statement, but for the two that look at the tables *)
(* in one snapshot and act on what they saw later: these are two actions.  *)
(* A run visits its pages one after another here, and each has one answer; *)
(* Crawl has the tasks of a run, their faults and the quota.               *)
(***************************************************************************)
EXTENDS PageRank

CONSTANTS
    Pages, Names,
    Links,          \* Links[p]: the pages that p links to, for whatever reason
    Ahref,          \* Ahref[p]: those for the reason "ahref", not only "redirect" or "canonical"
    Seeds,          \* Seeds[n]: what the runs of the wave called n start from
    Processes,
    Scenarios,      \* what command each process is: [verb, wave, ranks]
    BatchSize,      \* 1024 in PageRanker::page_rank
    NoWave, NoPage

ASSUME WavesAssumption ==
    /\ Links \in [Pages -> SUBSET Pages] /\ \A p \in Pages : IsFiniteSet(Links[p])
    /\ Ahref \in [Pages -> SUBSET Pages] /\ \A p \in Pages : Ahref[p] \subseteq Links[p]
    /\ Seeds \in [Names -> SUBSET Pages]
    /\ BatchSize \in Nat \ {0}
    /\ Scenarios \subseteq [Processes -> [verb : {"run", "rm", "page-rank"}, wave : Names, ranks : BOOLEAN]]
    /\ NoWave \notin Processes \cup Names /\ NoPage \notin Pages

VARIABLES
    (* the tables *)
    waves,          \* waves[w]: the name of the row with wave_id w, or NoWave
    pages,          \* the page_ids with a row in pages
    status,         \* status[w][p]: search_status, "absent" if there is no row
    linkage,        \* rows <<wave_id, from, to>>, each for the rows of all reasons
    ranks,          \* rows <<wave_id, page, rank>> of page_rank
    (* the processes *)
    command, pc,
    wave,           \* wave[c]: the wave_id that c works with
    seen,           \* seen[c]: the wave_ids in the snapshot of ensure_wave
    page,           \* page[c]: what run c visits
    graph, ranked,  \* what c has read from linkage, and the ranks it makes of that
    pushed,         \* pushed[c]: how many ranks c is done with
    unused,         \* unused[c]: what removal c has found to collect
    (* what the properties need to remember *)
    raced,          \* rows of status whose page a removal may have missed
    orphans         \* rows of status that a run was at when it crashed

tables == <<waves, pages, status, linkage, ranks>>
vars == <<tables, command, pc, wave, seen, page, graph, ranked, pushed, unused, raced, orphans>>

(* wave_id is a serial; here it is the process that inserts the row.       *)
Ids == Processes

Called(name) == {w \in Ids : waves[w] = name}

Exists(w) == w \in Ids /\ waves[w] # NoWave

(* The rows of a wave that is being removed stay locked until the commit.  *)
Locked(w) == \E c \in Processes : pc[c] = "collect" /\ wave[c] = w /\ w # NoWave

At(c, label) == pc[c] = label /\ ~ Locked(wave[c])

Goto(c, label) == pc' = [pc EXCEPT ![c] = label]

Visiting == {"links", "names", "status", "close"}

Looping == {"fetch", "poll"} \cup Visiting

Ended == {"done", "failed", "panicked", "crashed", "removed", "not removed"}

TypeOK ==
    /\ waves \in [Ids -> Names \cup {NoWave}]
    /\ \A n \in Names : Cardinality(Called(n)) <= 1
    /\ pages \subseteq Pages
    /\ status \in [Ids -> [Pages -> {"absent", "open", "taken", "closed"}]]
    /\ linkage \subseteq Ids \X Pages \X Pages
    /\ \A r \in ranks : r[1] \in Ids /\ r[2] \in Pages /\ r[3] \in Nat
    /\ \A w \in Ids : \/ Exists(w)
                      \/ /\ \A p \in Pages : status[w][p] = "absent"
                         /\ \A row \in linkage \cup ranks : row[1] # w
    /\ command \in Scenarios
    /\ pc \in [Processes -> {"begin", "ensure", "seed names", "seed status", "analyses", "reset",
                             "linkage", "push", "collect"} \cup Looping \cup Ended]
    /\ wave \in [Processes -> Ids \cup {NoWave}]
    /\ page \in [Processes -> Pages \cup {NoPage}]
    /\ \A c \in Processes : (page[c] # NoPage) = (pc[c] \in Visiting)
    /\ \A c \in Processes : seen[c] \subseteq Ids /\ pushed[c] \in 0 .. Len(ranked[c])
    /\ unused \in [Processes -> SUBSET Pages]

Init ==
    /\ waves = [w \in Ids |-> NoWave]
    /\ pages = {} /\ linkage = {} /\ ranks = {}
    /\ status = [w \in Ids |-> [p \in Pages |-> "absent"]]
    /\ command \in Scenarios
    /\ pc = [c \in Processes |-> "begin"]
    /\ wave = [c \in Processes |-> NoWave]
    /\ seen = [c \in Processes |-> {}]
    /\ page = [c \in Processes |-> NoPage]
    /\ graph = [c \in Processes |-> {}]
    /\ ranked = [c \in Processes |-> << >>]
    /\ pushed = [c \in Processes |-> 0]
    /\ unused = [c \in Processes |-> {}]
    /\ raced = {} /\ orphans = {}

-----------------------------------------------------------------------------
(* ensure_wave.sql, in build_master.                                       *)

SeeWave(c) ==
    /\ pc[c] = "begin" /\ command[c].verb # "rm"
    /\ seen' = [seen EXCEPT ![c] = Called(command[c].wave)]
    /\ Goto(c, "ensure")
    /\ UNCHANGED <<tables, command, wave, page, graph, ranked, pushed, unused, raced, orphans>>

(* The insert sees what has been committed by now and the select does not: *)
(* a row that somebody inserted in between is returned by neither.         *)
EnsureWave(c) ==
    LET name == command[c].wave
        inserted == IF Called(name) = {} THEN {c} ELSE {}
    IN  /\ pc[c] = "ensure" /\ \A w \in Called(name) : ~ Locked(w)
        /\ waves' = IF inserted = {} THEN waves ELSE [waves EXCEPT ![c] = name]
        /\ IF inserted \cup seen[c] = {}
           THEN Goto(c, "panicked") /\ UNCHANGED wave
           ELSE /\ \E w \in inserted \cup seen[c] : wave' = [wave EXCEPT ![c] = w]
                /\ Goto(c, IF command[c].verb = "run" THEN "seed names" ELSE "linkage")
        /\ UNCHANGED <<pages, status, linkage, ranks, command, seen, page, graph, ranked, pushed,
                       unused, raced, orphans>>

-----------------------------------------------------------------------------
(* `lopez run'.  A statement that inserts rows of a wave that is gone      *)
(* breaks a foreign key and is an error.                                   *)

InDanger == UNION {unused[c] : c \in Processes}

Open(w, ps) ==
    status' = [status EXCEPT ![w] = [p \in Pages |->
                    IF p \in ps /\ @[p] = "absent" THEN "open" ELSE @[p]]]

Absent(w, ps) == {<<w, p>> : p \in {q \in ps : status[w][q] = "absent"}}

SeedNames(c) ==
    /\ pc[c] = "seed names"
    /\ pages' = pages \cup Seeds[command[c].wave]
    /\ Goto(c, "seed status")
    /\ UNCHANGED <<waves, status, linkage, ranks, command, wave, seen, page, graph, ranked, pushed,
                   unused, raced, orphans>>

SeedStatus(c) ==
    LET seeds == Seeds[command[c].wave] IN
    /\ At(c, "seed status")
    /\ IF Exists(wave[c]) \/ seeds = {}
       THEN /\ Open(wave[c], seeds)
            /\ raced' = raced \cup Absent(wave[c], {p \in seeds : p \notin pages \/ p \in InDanger})
            /\ Goto(c, "analyses")
       ELSE Goto(c, "failed") /\ UNCHANGED <<status, raced>>
    /\ UNCHANGED <<waves, pages, linkage, ranks, command, wave, seen, page, graph, ranked, pushed,
                   unused, orphans>>

(* The rows themselves are of no interest here.                            *)
CreateAnalyses(c) ==
    /\ At(c, "analyses")
    /\ Goto(c, IF Exists(wave[c]) THEN "reset" ELSE "failed")
    /\ UNCHANGED <<tables, command, wave, seen, page, graph, ranked, pushed, unused, raced, orphans>>

ResetQueue(c) ==
    /\ At(c, "reset")
    /\ status' = [status EXCEPT ![wave[c]] = [p \in Pages |-> IF @[p] = "taken" THEN "open" ELSE @[p]]]
    /\ Goto(c, "fetch")
    /\ UNCHANGED <<waves, pages, linkage, ranks, command, wave, seen, page, graph, ranked, pushed,
                   unused, raced, orphans>>

(* fetch.sql joins pages: an open row without a name is not returned.      *)
Fetchable(w) == {p \in pages : status[w][p] = "open"}

ExistsTaken(w) == \E p \in Pages : status[w][p] = "taken"

Fetch(c) ==
    /\ At(c, "fetch")
    /\ \E p \in Fetchable(wave[c]) :
        /\ status' = [status EXCEPT ![wave[c]][p] = "taken"]
        /\ page' = [page EXCEPT ![c] = p]
    /\ Goto(c, "links")
    /\ UNCHANGED <<waves, pages, linkage, ranks, command, wave, seen, graph, ranked, pushed,
                   unused, raced, orphans>>

(* An empty batch.                                                         *)
FetchNothing(c) ==
    /\ pc[c] = "fetch" /\ Fetchable(wave[c]) = {}
    /\ Goto(c, "poll")
    /\ UNCHANGED <<tables, command, wave, seen, page, graph, ranked, pushed, unused, raced, orphans>>

(* exists_taken, a statement later: the loop ends if nothing is taken, by  *)
(* this run or by another.                                                 *)
Poll(c) ==
    /\ pc[c] = "poll"
    /\ Goto(c, IF ExistsTaken(wave[c]) THEN "fetch" ELSE IF command[c].ranks THEN "linkage" ELSE "done")
    /\ UNCHANGED <<tables, command, wave, seen, page, graph, ranked, pushed, unused, raced, orphans>>

(* Variant: pages get their names first.                                   *)
NamesFirst == <<"names", "links", "status", "close", "fetch">>

(* The statements of ensure_explored, and back to the queue.               *)
Statements == <<"links", "names", "status", "close", "fetch">>

(* A statement of ensure_explored; one that fails is the end of the visit. *)
Store(c, i, succeeds) ==
    LET next == IF succeeds THEN Statements[i + 1] ELSE "fetch" IN
    /\ At(c, Statements[i])
    /\ Goto(c, next)
    /\ page' = IF next = "fetch" THEN [page EXCEPT ![c] = NoPage] ELSE page
    /\ UNCHANGED <<waves, ranks, command, wave, seen, graph, ranked, pushed, unused, orphans>>

CanReference(c) == Exists(wave[c]) \/ Links[page[c]] = {}

Position(label) == CHOOSE i \in DOMAIN Statements : Statements[i] = label

StoreLinks(c) ==
    /\ pc[c] = "links"
    /\ Store(c, Position("links"), CanReference(c))
    /\ IF CanReference(c)
       THEN /\ linkage' = linkage \cup ({wave[c]} \X {page[c]} \X Links[page[c]])
            /\ raced' = raced \cup Absent(wave[c], Links[page[c]] \cap InDanger)
       ELSE UNCHANGED <<linkage, raced>>
    /\ UNCHANGED <<pages, status>>

StoreNames(c) ==
    /\ pc[c] = "names"
    /\ Store(c, Position("names"), TRUE)
    /\ pages' = pages \cup Links[page[c]]
    /\ UNCHANGED <<status, linkage, raced>>

StoreStatus(c) ==
    /\ pc[c] = "status"
    /\ Store(c, Position("status"), CanReference(c))
    /\ IF CanReference(c) THEN Open(wave[c], Links[page[c]]) ELSE UNCHANGED status
    /\ UNCHANGED <<pages, linkage, raced>>

StoreClosed(c) ==
    /\ pc[c] = "close"
    /\ Store(c, Position("close"), TRUE)
    /\ status' = [status EXCEPT ![wave[c]][page[c]] = IF @ = "absent" THEN @ ELSE "closed"]
    /\ UNCHANGED <<pages, linkage, raced>>

-----------------------------------------------------------------------------
(* PageRanker::page_rank, at the end of a run or on its own.               *)

(* linkage.sql *)
Edges(w) ==
    {<<row[2], row[3]>> : row \in {r \in linkage :
        r[1] = w /\ r[3] \in Ahref[r[2]] /\ status[w][r[2]] = "closed" /\ status[w][r[3]] = "closed"}}

ReadLinkage(c) ==
    /\ pc[c] = "linkage"
    /\ graph' = [graph EXCEPT ![c] = Edges(wave[c])]
    /\ \E list \in {PowerIteration(edges) : edges \in SetToSeqs(Edges(wave[c]))} :
        ranked' = [ranked EXCEPT ![c] = list]
    /\ Goto(c, "push")
    /\ UNCHANGED <<tables, command, wave, seen, page, pushed, unused, raced, orphans>>

(* A batch is pushed when another rank comes, which then is in none.       *)
PushPageRanks(c) ==
    LET left == SubSeq(ranked[c], pushed[c] + 1, Len(ranked[c]))
        isLast == Len(left) <= BatchSize
        batch == Range(IF isLast THEN left ELSE SubSeq(left, 1, BatchSize))
        new == {r \in batch : ~ \E row \in ranks : row[1] = wave[c] /\ row[2] = r[1]}
        can == Exists(wave[c]) \/ batch = {}
    IN  /\ At(c, "push")
        /\ ranks' = IF can THEN ranks \cup {<<wave[c], r[1], r[2]>> : r \in new} ELSE ranks
        /\ pushed' = [pushed EXCEPT ![c] = IF isLast \/ ~ can THEN @ ELSE @ + BatchSize + 1]
        /\ Goto(c, IF ~ can THEN "failed" ELSE IF isLast THEN "done" ELSE "push")
        /\ UNCHANGED <<waves, pages, status, linkage, command, wave, seen, page, graph, ranked,
                       unused, raced, orphans>>

-----------------------------------------------------------------------------
(* `lopez rm': remove_wave.sql, and the trigger on waves that it fires.    *)

(* The pages that no row of a wave but w has a reference to.  The rows of  *)
(* analysis_results are of pages that have a row in status.                *)
Unused(w) ==
    {p \in pages :
        /\ \A v \in Ids \ {w} : status[v][p] = "absent"
        /\ \A row \in linkage : row[1] # w => p \notin {row[2], row[3]}
        /\ \A row \in ranks : row[1] # w => p # row[2]}

(* The row of the wave is deleted, if there is one, with all that refers   *)
(* to it; the trigger fires in any case, and looks for what is unused.     *)
FindUnused(c) ==
    LET removed == Called(command[c].wave) IN
    /\ pc[c] = "begin" /\ command[c].verb = "rm"
    /\ \A w \in removed : ~ Locked(w)
    /\ \E w \in IF removed = {} THEN {NoWave} ELSE removed :
        /\ wave' = [wave EXCEPT ![c] = w]
        /\ unused' = [unused EXCEPT ![c] = Unused(w)]
    /\ Goto(c, "collect")
    /\ UNCHANGED <<tables, command, seen, page, graph, ranked, pushed, raced, orphans>>

(* Variant: the rows of status are left.                                   *)
CascadeButStatus(w) ==
    /\ waves' = [v \in Ids |-> IF v = w THEN NoWave ELSE waves[v]]
    /\ linkage' = {row \in linkage : row[1] # w}
    /\ ranks' = {row \in ranks : row[1] # w}
    /\ UNCHANGED status

(* on delete cascade *)
Cascade(w) ==
    /\ waves' = [v \in Ids |-> IF v = w THEN NoWave ELSE waves[v]]
    /\ linkage' = {row \in linkage : row[1] # w}
    /\ ranks' = {row \in ranks : row[1] # w}
    /\ status' = [v \in Ids |-> IF v = w THEN [p \in Pages |-> "absent"] ELSE status[v]]

(* pages_garbage_collect deletes the rows that it has found, if nobody     *)
(* has before, and the statement is committed.                             *)
Collect(c) ==
    /\ pc[c] = "collect"
    /\ Cascade(wave[c])
    /\ pages' = pages \ unused[c]
    /\ unused' = [d \in Processes |-> unused[d] \ unused[c]]
    /\ Goto(c, IF wave[c] = NoWave THEN "not removed" ELSE "removed")
    /\ UNCHANGED <<command, wave, seen, page, graph, ranked, pushed, raced, orphans>>

-----------------------------------------------------------------------------
(* Of a process that dies the database keeps what it has committed; where  *)
(* that is more than it would be had the process waited.                   *)
Crash(c) ==
    /\ pc[c] \in Looping \cup {"push", "collect"}
    /\ Goto(c, "crashed")
    /\ page' = [page EXCEPT ![c] = NoPage]
    /\ unused' = [unused EXCEPT ![c] = {}]
    /\ orphans' = IF page[c] = NoPage THEN orphans ELSE orphans \cup {<<wave[c], page[c]>>}
    /\ UNCHANGED <<tables, command, wave, seen, graph, ranked, pushed, raced>>

Crawling(c) ==
    \/ Fetch(c) \/ FetchNothing(c) \/ Poll(c)
    \/ StoreLinks(c) \/ StoreNames(c) \/ StoreStatus(c) \/ StoreClosed(c)

Step(c) ==
    \/ SeeWave(c) \/ EnsureWave(c) \/ SeedNames(c) \/ SeedStatus(c) \/ CreateAnalyses(c)
    \/ ResetQueue(c) \/ Crawling(c)
    \/ ReadLinkage(c) \/ PushPageRanks(c) \/ FindUnused(c) \/ Collect(c)

Next == \E c \in Processes : Step(c) \/ Crash(c)

Spec == Init /\ [][Next]_vars

(* A run in its loop goes on, and a removal that has begun is committed.   *)
FairSpec == Spec /\ \A c \in Processes : WF_vars(Crawling(c)) /\ WF_vars(Collect(c))

-----------------------------------------------------------------------------
(* Correctness.                                                            *)

(* A removal collects no page that another wave has in its status table,   *)
(* and so no run loses a page, but for two races: a seed between its name  *)
(* and its row, and a page that gets its first link between the look for   *)
(* unused pages and their deletion.                                        *)
NamesOutliveRemovals ==
    \A w \in Ids, p \in Pages : status[w][p] # "absent" /\ p \notin pages => <<w, p>> \in raced

IsKept(i) == i % (BatchSize + 1) # 0

(* The ranks that a process makes are those of the graph it has read; when *)
(* it is done each page has one of the ranks that were made for it, but    *)
(* the pages that came when a batch was full, and these have none unless   *)
(* somebody else has written it.                                           *)
RanksAreWhole ==
    \A c \in Processes :
        /\ pc[c] = "push" /\ pushed[c] = 0 =>
            LET rank == RanksOf(graph[c]) IN
            \A i \in DOMAIN ranked[c] : ranked[c][i][2] = rank[ranked[c][i][1]]
        /\ pc[c] = "done" /\ Exists(wave[c]) =>
            \A i \in DOMAIN ranked[c] :
                LET rows == {row \in ranks : row[1] = wave[c] /\ row[2] = ranked[c][i][1]}
                IN  /\ IsKept(i) => Cardinality(rows) = 1
                    /\ \A row \in rows : \E d \in Processes : \E j \in DOMAIN ranked[d] :
                            wave[d] = wave[c] /\ <<row[2], row[3]>> = ranked[d][j] /\ IsKept(j)

IsOrphaned(w) == \E p \in Pages : <<w, p>> \in orphans /\ status[w][p] = "taken"

(* The loop of a run ends, whatever happens to its wave, unless another    *)
(* run of the same wave has crashed: it then polls what that one had taken *)
(* for ever.                                                               *)
RunsEnd ==
    \A c \in Processes :
        (pc[c] \in Looping) ~> (pc[c] \notin Looping \/ []IsOrphaned(wave[c]))

=============================================================================
