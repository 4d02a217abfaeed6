# Lopez in TLA+

Lopez crawls the web from a set of seeds, follows directives written in its own
language, and stores what it finds in PostgreSQL. This directory holds TLA+
models of it, the TLC runs that check them on small instances, and theorems
about them that TLAPS proves for every instance. Paths below are relative to
the repository.

## 1. The system

| Component | Source | State | Operations |
|---|---|---|---|
| Crawl master | `lib-lopez/src/crawler/master.rs` | counters of one run; the batch it is sending | `start`: seed, reset the queue, then fetch a batch, send it, poll; `page_rank`, `test_url` |
| Crawl worker | `lib-lopez/src/crawler/worker/mod.rs`, `cancel.rs` | a thread, its channel, up to `max_tasks_per_worker` tasks | `run`, `crawl_task`, `crawl`, `store`; `send_task`, `terminate` of its handler |
| Wave tables | `postgres-lopez/src/{master,worker}.rs`, `src/sql/*.sql`, `migrations/` | `status`, `pages`, `linkage`, `analyses`, `analysis_results` | one SQL statement each, committed by itself |
| Origins | `crawler/worker/origins.rs` | per worker: a map from origin to robots rules and the next free slot | `get_origin_for_url`, `block`, `allows` |
| Robots exclusion | `crawler/robots.rs` | none | `get_robots` (redirects, climbing the domain), `Match::matches` |
| Boundaries | `crawler/boundaries.rs`, `directives/directives.rs` | none | `is_allowed`, `is_frontier`, `clean_query_params`, `clean_links` |
| Remote workers | `server/mod.rs`, `server/rpc.rs` | a table of handlers behind a lock, on each server | `build_worker`, `send_task`, `terminate`, with retries by the client |
| PageRank | `page_rank.rs`, `backend/mod.rs`, `postgres-lopez/src/ranker.rs` | `page_rank` table | power iteration, batched writes |
| Directives | `directives/` | the loaded modules | `Module::load`, `canonical_path`, `validate`, variables, type checking and evaluation of expressions |
| Waves | `postgres-lopez/src/db.rs`, `sql/ensure_wave.sql`, `sql/remove_wave.sql` | `waves` | create on first use, remove |
| Directive parser | `directives/parse*.rs`, `expressions/parse.rs` | none | text to syntax tree |
| Downloader, HTML parser | `crawler/downloader/`, `crawler/parser.rs` | none | I/O |
| CLI, profiles, logging | `cli.rs`, `lib.rs`, `logger.rs`, `panic.rs`, `pretty_print.rs` | none | parameters and wiring |
| Counters, diagnostics | `crawler/counter.rs`, `crawler/diagnostics.rs` | none in use | dead code |

How they interact: the master and the workers share nothing but the database
and one channel per worker. The master moves rows of `status` from `open` to
`taken` (`fetch.sql`), sends each page to the worker that the hash of its origin
chooses, and waits while that worker's channel is full. A worker runs tasks
concurrently on one thread; each task waits for the turn of its origin,
downloads, and stores what it found in up to five SQL statements, which are not
one transaction. Nothing reports back to the master: it learns that work is
finished only by looking for `taken` rows. A run that crashed, or that ended with
its quota used, is resumed by starting another one on the same wave, which opens
the `taken` and `error` rows again.

What is hard here, and what would make each part correct:

* **Termination.** Two statements (`fetch`, `exists_taken`) decide that a crawl
  has ended while workers insert rows; a task that ends without writing leaves
  a row taken. Correct: every run ends, a run that is done has left no page,
  and workers are stopped only when idle.
* **Partial failure and crash recovery.** A process may die between any two
  statements. Correct: a closed page has been explored in full, nothing found
  is lost, each statement may be repeated.
* **Exclusive work.** Correct: a page is never crawled twice at once.
* **The quota** over runs, crashes and batches. Correct: it is exceeded by less
  than a batch, once and not per run.
* **Depth**, which travels through queues while rows are inserted concurrently.
  Correct: it is the length of a link path from a seed.
* **Politeness.** Correct: consecutive requests to an origin keep their
  distance, however many tasks ask for it and whenever the origin was loaded.
* **Remote calls.** Correct: a job is queued at most once although calls are
  retried; locks let every call finish.
* **Pure algorithms** (robots patterns, boundaries, module paths, expression
  types, rank batching). Correct: equal to their definitions on every input.

`PROJECT.json` lists the hazards one by one, with the line where each one bites.

## 2. The modules

| Module | What it models |
|---|---|
| `StatusTable` | the tables of one wave and every SQL statement of the crawl, one operator each |
| `Crawl` | master, workers, channels, faults; the properties |
| `GraphSearch` | what a crawl promises: a search of the web |
| `MCCrawl` | small webs for TLC |
| `Crawl_proofs` | types, exclusive work, growth, soundness of the tables, refinement, the quota, and what holds when nothing fails |
| `Origins` | politeness: the `Origin` values of one worker, its tasks, and time |
| `MCOrigins` | small instances of it for TLC |
| `Origins_proofs` | types, the distance between slots, the rate, the number of values |
| `RemoteWorkers` | workers on other machines: the master's calls and tries, the server's calls, locks and table, faults |
| `Delivery` | what the master may count on of its worker handlers |
| `MCRemoteWorkers` | a small instance for TLC |
| `RemoteWorkers_proofs` | types, the lock, the end of workers, refinement |
| `Waves` | the commands `run`, `rm` and `page-rank` on one database at the same time |
| `PageRank` | the power iteration that they use |
| `MCWaves`, `Waves_proofs` | scenarios of three commands for TLC; that removals take no names that others need, that the iteration computes the ranks of its graph, and that ranks are whole |
| `Values` | the values and types of the expression language |
| `Transformers` | the type and the result of each transformer |
| `Rules`, `MCRules` | extractors and aggregators: a rule checked, fed the elements of a page, and finished; some ten thousand rules |
| `Rules_proofs` | what transformers, extractors and aggregators give, by type; the panics that there are; what an aggregate means |
| `Loader` | `Module::load`, its recursion as a stack |
| `Directives`, `MCDirectives` | what is loaded: validation, parameters, boundaries, and what comes into the queue; small disks |
| `Directives_proofs` | what a load makes of the disk, what validation leaves, what is queued |
| `Robots`, `MCRobots` | how an origin comes by its robots.txt and what that excludes; small hosts, texts and routes |
| `Robots_proofs` | the climb, and what is excluded |
| `MCBoundaries` | the instances of `MCDirectives` and `MCRobots` in one run: what keeps pages out of a crawl |
| `Induction` | least elements, induction and recursion over the naturals, in terms of sets, sums over finite sets, and sorting, for the proofs |

`Crawl` EXTENDS `StatusTable` and implements `GraphSearch` through an INSTANCE
(`Search`) that maps `found` to the rows, `level` to `depth`, and `done` to the
closed rows. `Origins` stands beside `Crawl`: it opens up the wait that `Crawl`'s
`Download` contains, for one worker, since workers share no `Origins` and the master
sends all pages of an origin to one of them. Likewise `Robots` opens up the `Load` of
`Origins`, and `Directives` the boundaries that are constants of `Crawl` (`Web`). `RemoteWorkers`
is the other implementation of the trait that `SendTask` and `Terminate` of `Crawl` call; it
implements `Delivery` through an INSTANCE (`D`). `Waves` has the statements of `StatusTable`
again, with the wave as a parameter, and of a crawl only what matters to another
command. `Rules` EXTENDS `Transformers`, which EXTENDS `Values`; `Directives` EXTENDS `Loader`;
`Waves` EXTENDS `PageRank`.

### State and actions against the code

`status`, `depth`, `names`, `linkage` and `analyzed` are the columns and tables of
the same names; `analyzed` is the set of pages with rows in `analysis_results`,
all of which one statement inserts. `mpc` is where `CrawlMaster::start` is, and
`nSent`, `remaining`, `willEnd`, `interrupted` are its local variables. `wpc`, `chan`
and `tasks` are the worker threads, their channels, and the futures that
`for_each_concurrent` runs; a task's `step` is the statement that it issues next.

| Actions | Code |
|---|---|
| `Start` | `start` up to the handlers: count what is crawled, compute the quota, spawn the workers |
| `SeedNames`, `SeedStatus`, `ResetQueue` | `ensure_seeded` (two statements), `reset_queue`, and the empty crawl |
| `Fetch`, `Poll` | `fetch.sql`; `exists_taken` after an empty batch |
| `SendTask`, `Unpark`, `SendFails`, `BatchSent` | the loop over the sorted batch; a sender that waits for its channel; a channel whose receiver is gone; the look at the quota |
| `AwaitCompletion`, `Terminate`, `Finish` | the second polling loop, `terminate` of each handler, the outcome |
| `WorkerStart`, `Dequeue`, `WorkerDies` | `run`: backends, `for_each_concurrent`, the end of the thread |
| `Download` | `crawl_task` up to the end of `crawl` |
| `StoreAnalyses`, `StoreLinks`, `StoreNames`, `StoreStatus`, `StoreClosed`, `StoreError` | the statements of `store`, in its order |
| `StatementFails`, `MasterStatementFails`, `Crash` | the error paths of every statement, and the end of the process at any point |

Abstractions, and why they are sound for the properties:

* A page stands for its `page_id`, so that equal hashes of different URLs do not
  occur. The answer that a download may give is an element of `Web[p]`: its kind
  and the links that the boundaries let through. Several answers per page make
  the web change between two downloads.
* Each SQL statement is atomic, under autocommit. That holds for the single-row
  and multi-row inserts and updates used here; two statements of two tasks do not
  read each other's halves.
* `Batches` returns every set that `order by count, depth limit n` may return:
  ties fall either way. The window count is the count of peers that PostgreSQL
  computes for a frame that is only ordered.
* `HasRoom`: a channel of `futures::mpsc` with capacity `2 * max_tasks` and one
  sender queues one job more, whose `send` completes when the receiver has taken
  one. The receiver's loss completes it too.
* The reply to a statement and its effect are one step, except under `Crash`: a
  failed statement has had no effect.
* `create_analyses` is left out of `Start`: it writes a table that only
  `ensure_analyzed` reads. `ensure_active` is empty in the code.
* The wait for an origin, robots.txt and the download are one step, which may
  take arbitrarily long.

In `Origins`, `origins` is the map of that name, and an `Origin` value is named after
the task that loaded it: `rules` and `lastInstant` are its fields, `origin` says which
value a task was given, and values stay alive when another replaces them in the
map, as an `Rc` does. `slot` and `hit` record, for the properties, when `block` said
that a task may go and when its request went out.

| Actions | Code |
|---|---|
| `Share` | `get_origin_for_url` when the map has the origin, then `allows` and `block` up to its sleep |
| `Load`, `Loaded` | `Origin::load` before and after the answer; the insertion, and the same `allows` and `block` |
| `Wake` | the end of the sleep, at its deadline or later |
| `Finish` | the download, its storage, and the end of the task |
| `Tick` | time |

A worker is one thread and `RefCell`s are not held over an await, so that what lies
between two awaits is one action. Time is counted in units to which the delays
are rounded (the code rounds them to milliseconds); what happens within one unit
happens at one instant. A robots.txt is reduced to its delay and the pages it
disallows; `Robots[s]` holds what a load may find, failure included.

**Remote workers.** The master's variables are those of `start` and of its
`RemoteWorkerHandler`s; `call` is the one whose answer it awaits. On the server, `table` is
`ServerInner::workers`, `lock` the queue of its `RwLock` (granted from the front: one
writer, or the readers up to the first writer), `at` how far each call has come,
`worker` and `chan` a worker's thread and channel.

| Actions | Code |
|---|---|
| `Build`, `AllBuilt` | `build_worker` for one worker after another, and the look at all results |
| `Send`, `StopSending`, `Terminate`, `AllTerminated` | `send_task` and `terminate` of the handler, from the master's loop |
| `GiveUp`, `Answered` | the loops around a call: a transport error is tried again, an answer ends it; `build_worker` has one try |
| `Receive` | the head of each RPC: the token; for `build_worker` the start of the thread |
| `InsertWorker`, `Find`, `Deliver`, `RemoveWorker`, `Cancelled` | the rest of each RPC, cut at its awaits |
| `Drop` | the deadline of a call on the server, at any of its awaits |
| `TakeJob`, `WorkerDies`, `Crash` | a worker; the end of its thread; the end of the server |

A call that the master has given up may go on in the server as long as it likes.
When the connection is lost every later call is given up too. Worker ids are
random in the code, and unique here. The `Mutex` around each handler in the table is left
out, so that more senders interleave than in the code. Calls beyond the limit of
connections wait in `request`. `Deliver` waits for room and then enqueues and answers in one
step; the `send` of `futures` may enqueue a job and wait after that. What the master sees of it is the same: a
job that is in the channel, and a call that it may have given up before the answer (`GiveUp`) or that the server drops
before it answers (`Drop`).

**Waves.** `waves`, `pages`, `status`, `linkage` and `ranks` are the tables, for all waves;
`command` says what each process was started for, and `pc` is the statement that it is
at. `raced` and `orphans` record, for the properties, which rows a removal may have missed
and what a crashed run had taken.

| Actions | Code |
|---|---|
| `SeeWave`, `EnsureWave` | `ensure_wave.sql`: its snapshot, and what it inserts or selects |
| `SeedNames`, `SeedStatus`, `CreateAnalyses`, `ResetQueue` | `ensure_seeded`, `create_analyses`, `reset_queue` |
| `Fetch`, `FetchNothing`, `Poll` | the loop of a run: a page, an empty batch, and `exists_taken`, a statement later |
| `StoreLinks`, `StoreNames`, `StoreStatus`, `StoreClosed` | the statements of `ensure_explored` |
| `ReadLinkage`, `PushPageRanks` | `PageRanker::page_rank`: the graph, the iteration, and each batch |
| `FindUnused`, `Collect` | `remove_wave.sql`: the cascade with the look of its trigger, and the deletion of what that found |
| `Crash` | the end of a process |

A run visits its pages one after another, and a page has one answer: what a task's
interleaving does is `Crawl`'s matter. Rows of a wave that is being removed are
locked until the commit (`At`). References of `analysis_results` are covered by those
of `status`. A row of `linkage` stands for the rows of all reasons from one page to another; `Ahref` says which
of these links has one of reason `ahref`, the only ones that `linkage.sql` lets count for a rank (`Edges`). `PageRank` counts in exact numbers what the code counts in `f32`, and the edges come
in any order.

**Rules.** A rule is chosen, `Load` checks its type, `Feed` is a turn of
`Analyzer::analyze` for one element, `End` is `finalize`; `state` is the `AggregatorState`. A panic
(`todo!`, `unwrap`, a failed comparison) is a value that everything passes on. Types, values, expressions, extractors, rules
and states nest. Each is defined by levels: a recursive function, whose level `n` is made over level
`n - 1` (`ValuesOver`, `EvaluationOver`, `FeedingOver` and so on), so that a definition can be proved about as well as run.
`Nesting` is the number of levels, and `Shallow` makes an error of a type that would nest
deeper; the code knows no such limit. A map is a function of all texts, `Absent` where it has no entry. Texts are
model values with a place in an order; regular expressions are tables of what they
find, and so are hashes and the parsing of numbers. How numbers are written is left
out; `inner-html` gives what `html` gives.

**Directives.** `Loader`'s `stack` is the recursion of `Module::load`, with one frame per
module under way; `LoadMain`, `Skip` (an
item that imports nothing, or what is known), `Import` and `Insert` are its steps. `Validate` is
`Directives::validate`; `Seed`, `Page` and `Redirect` are what `ensure_seeded` and `store` put into the queue.
A file holds items, already parsed. A URL is its page, its query (the set of its parameters, each with
its value or without) and whether it has a section. `CanonicalPath` folds `Resolve` over a name and a path, as the code does. The
properties have a definition of their own of what a path names (`Named`): a walk from the importing module, part by part
(`Leads`), that leads nowhere from above the main module. Errors of reading other than "not found" count
as a failed load.

**Robots.** `Found`, `Fail`, `Follow` and `Climb` are what one answer does to `get_robots` and
`do_get_robots`; `MatchesRoute`, `Allows` and `CrawlDelay` are `RobotExclusion`. A host is its labels, a
route its characters, a pattern what lies between its stars; `stage` is how far the request has come. The properties say with `Meant` what a
rule means: from the beginning of the route, part after part, and to the end for a `$`.

## 3. The runs

| Run | Specification | Checks | Shows |
|---|---|---|---|
| `crawl_faults` | `Spec`, all faults | `TypeOK`, `RowsAreNamed`, `WorkIsTaken`, `HeldOnce`, `ClosedIsExplored`, `DepthIsReal`, `SentBounded`, `ClosedBounded`, `NothingLost`, `IsSearch` | safety through crashes, dead workers, failed statements and any number of resumed runs |
| `crawl_fair` | `FairSpec`, no faults | `TakenIsHeld`, `TerminateCutsNothing`, `RunEnds` | polling the table is enough, and every run ends |
| `crawl_end` | `Spec`, no faults | `DoneIsDone` | **violated**, finding 1 |
| `crawl_robots` | `FairSpec`, no faults, one disallowed page | `RunEnds` | **violated**, finding 2 |
| `crawl_resume` | `Spec`, crashes | `AnalysesAreIdempotent` | **violated**, finding 3 |
| `origins_pace` | `FairSpec` | `TypeOK`, `Paced`, `EachIsLimited`, `FewValues`, `EveryTurnComes` | each `Origin` value keeps its distance and its rate, a site has few values, and every waiting task gets its turn |
| `origins_rate` | `Spec` | `LimitedPerOrigin` | **violated**, finding 4 |
| `remote_workers` | `FairSpec`, late and lost answers, crashes | `TypeOK`, `SendsHoldTheirWorker`, `WorkersAreStopped`, `IsDelivery`, `RunEnds`, `LockIsFreed` | a job is delivered at most once a try, Ok says that it was, ended workers are gone, a full channel blocks the server no longer than a deadline, and a run ends without any help of the network |
| `rules` | `Spec` | `WellTyped`, `PanicsAreKnown`, `AggregatesMeanIt`, `OperatorsAgree` | what passes the type check meets no value that it cannot deal with, but in two ways; aggregates mean what they say of all elements |
| `boundaries` | `BoundariesSpec` (fair in loads and climbs) | `TypeOK`, `LoadIsRight`, `AcceptedIsSound`, `QueueIsWithin`, `RequestsAreFew`, `ExclusionMeansIt`, `LoadEnds`, `ClimbEnds` | what imports name is loaded, and nothing else but after a `super` above the root; accepted directives mean one thing; the queue stays within the boundaries; the climb asks few hosts and ends; routes are excluded for a reason, and those that should be are, but for rules with a `$` |
| `robots_obeyed` | `RobotsSpec` | `ObeysRobots` | **violated**, finding 5 |
| `waves` | `FairSpec`, crashes | `TypeOK`, `NamesOutliveRemovals`, `RanksAreWhole`, `RunsEnd` | removals take no other wave's pages but in two races; ranks are those of the graph that was read; runs end also when their wave is removed |

Bounds. `crawl_faults` has five pages on two hosts and two workers: a seed
that deeper pages lead back to, a page that two others lead to, one that redirects
to different places, one that fails, one whose answers have different links, one
beyond `MaxDepth`.
The quota (2, with runs of 1 and of 2) is less than the pages that can be
closed (4), and a batch holds two, so that overshoot occurs, is counted by the
next run, and might be repeated: three pages may be closed by all runs, and the
fourth must not. Two tasks per worker are the least at which tasks of one worker
interleave. Runs are unbounded in number: the state space is finite because the
tables are. `crawl_fair` has one place per worker and batches of three, so that a
channel fills and the master waits (`parked`); pages beyond `MaxDepth` stay open at
the end. The violation runs have the fewest pages that show their point. No
symmetry is used: the pages differ by their answers.

`origins_pace` has four tasks, three of them for one site, two at a time: the first
two may load the site at once, the third shares the value that is left in the map,
or waits behind others; the site's robots.txt asks for less than the default
delay, for more, or cannot be loaded, and disallows one page. `Horizon` bounds the
time at which anything may begin; beyond it time passes only while somebody
sleeps. Timers fire late by any amount that these bounds leave. A task is not
repeated, so that four tasks are also four requests: enough for a value to have
a request sent, one sleeping and one that comes.

`remote_workers` (432,687 states) has two workers on one server that trusts the
master, one job, two tries of each call and a channel of one: the first try may
deliver while the second waits for room, and a terminate queues behind both. With one
job the channel is full exactly when a retry matters. A server that distrusts the
master answers with an error, which the proofs cover.

`rules` (160,519 states): all chains of two transformers on the extractors whose values
nest, all of one on the others, each aggregator, groups within groups; up to two
elements in any order, of three that differ in every extractor, one with what is
missing. Two elements are enough for what an aggregate does to a second one and to
repeated values. `Nesting` is 6, which none of these rules reaches, so that no type is cut.

`boundaries` (111,260 states) is two instances side by side, `MCDirectives` and `MCRobots`, that share nothing: a
behaviour is of one of them, while the other has ended without a result.
The disks: graphs of a main module and three files in two
directories, with every path of `super`, `root`, empty and plain parts, cycles included, and
imports of the main module itself, by its own file or from elsewhere;
pairs of declarations in one module or in two; and boundaries of every kind over
URLs of two pages with up to two parameters. `MaxStack` is greater than the number of modules of any disk
(`LoaderAssumption`), so that only a cycle is too deep for it, as in the code, where the stack
takes thousands of calls. `DepthRange` is 4 so that the conversion of `max_depth` wraps within
small numbers (32768 in the code). `MaxVisits` is 3: a link, a redirect, and what they lead to.

The answers for robots.txt: hosts of no to four labels; each kind of response; patterns
of up to three parts of up to two characters against all routes of up to two
characters after the slash, so that parts overlap, repeat and are empty. Bodies are one
line longer than the limit. `robots_obeyed` has the same hosts and answers.

`waves` (270,973 states) runs six scenarios of three commands: two runs with a
removal of one's wave or of the other's, two runs of one wave, rankings with removals and
with rankings. The waves share a page; batches of two ranks and three ranked pages make one
rank fall between batches; strides of two make two tiles. One link is not of reason `ahref`, so that the graph
that is ranked is not all that is linked.

Fairness (`FairSpec`): weak fairness of the master's steps together, of each
worker's thread, and of the tasks on each page. The runtimes poll every ready
future (`cancel.rs:28-43`: one single-threaded runtime per worker; `master.rs` runs
in the main one), `crawl` ends by its timeout (`worker/mod.rs:202`), and a healthy
database answers. One thing is assumed that the code does not see to: a load of
robots.txt, which `Download` contains, has no timeout (`origins.rs:27`) and is taken to
be answered in the end. Nothing is assumed of `Start`, nor of any fault.

In `Origins`, weak fairness of `Tick` and of each `Wake`: time passes, and the runtime
polls a task whose timer has fired. Nothing is assumed of a load.

In `RemoteWorkers`, weak fairness of the master (whose every await has the deadline
of its call) and of the server's dropping of calls that are overdue (tarpc's deadline
travels with the request). Nothing is assumed of the network, of locks or of workers. In
`Waves`, of a run's loop and of the commit of a removal; in `Directives`, of the load,
which is sequential code; in `Robots`, of the answers (both so in `MCBoundaries`): a request for a robots.txt that is
never answered is waited for without end, in the code too.

Deadlock is checked in the runs of `Crawl`, where a run may always be started
again. It is not in the others, whose tasks, runs, rules, loads or commands come to
an end.

`TakenIsHeld`, `TerminateCutsNothing` and `RunEnds` hold under `Healthy` only: no
fault, no page that robots.txt disallows, no redirect to a location that cannot
be joined. Each of the three breaks `RunEnds` in the code as it is; the second is
finding 2.

## 4. Findings

1. *A crawl is "done" with pages left* (`master.rs:127`). Fetch returns nothing
   while the last page is being stored; the worker inserts the rows of its links
   and closes it; then `exists_taken` is false. The run logs "crawl done" and
   ranks the pages of a partial crawl. `master.rs:124` suspects as much: "TODO this
   is most probably buggy in a very, very clever way...". No fault is needed.
2. *A disallowed page keeps the master polling for ever* (`worker/mod.rs:315`).
   The early return leaves the row taken. The comment at `worker/mod.rs:351` warns
   of the very consequence.
3. *Analyses are not idempotent* (`ensure_analyzed.sql`). `lib.rs:1` says that
   idempotent atomic operations are the key; this insert has no `on conflict`.
   After a crash between it and `ensure_closed` the page can never be closed in
   its wave.
4. *The limit per origin is per load* (`origins.rs:96`). `get_origin_for_url` looks
   into the map, awaits robots.txt, and inserts. Tasks that come for an origin
   while it is being loaded each load it and go by their own value, and none waits
   for the others; `readme.md:12` promises 2.5 hits per second per origin. The
   harm is bounded: `FewValues`, and `EachIsLimited`, so that later tasks share the
   value that was put last.
5. *Rules with a `$` are not obeyed* (`robots.rs:79`). `Match::matches` keeps what a part has matched as the
   beginning of the rest, so that the rest never is empty, as the test for `$` wants it (`robots.rs:85`: "`is_strict` implies
   route must have been consumed at this point"). The pages of such a rule are crawled, although `readme.md:71` says
   of the crawler "Yes, it obeys `robots.txt` and no, you can't turn that off", and `robots.rs:1` speaks of compliance.
   `ExclusionMeansIt` says that other rules are obeyed; of these it says nothing, and would hold of a corrected
   `matches` as well.

More that the code does and its users may not expect. No run shows it as a violation: a passing
property leaves it out, by name, and so does not catch it. `PROJECT.json` says so at each of these hazards.

* `greater-or-equal` leaves its bound out (`transformer.rs:333`; `OperatorsAgree`). Arrays
  compare equal to their prefixes, so that a sort of them is not stable when repeated.
* `!explode` of a null hits a `todo!()` in the middle of a crawl, and sorting arrays of maps
  panics, although both pass the type check (`PanicsAreKnown`).
* Patterns of a robots.txt are not anchored to the start of the route, their parts may overlap, and
  allow rules are ignored, so that more is excluded than is meant (`ExclusionMeansIt` asks only for
  the parts to be there in order).
* A host that is an IP address is asked for its robots.txt for ever if it has none, and one of a
  single label panics (`ClimbEnds`, `RequestsAreFew`).
* `super` above the root is ignored (`Resolve`), although `directives.rs:65` promises an error "if
  put into an impossible position": the guard looks at the path, which is not empty then. The load goes on with a module
  that no path leads to. `LoadIsRight` fails of it without the exception in its last part but one
  (`OnlyImportsAreLoaded`, `SuperAboveMain`); all else it says of such disks too.
* A cycle of imports overflows the stack (`LoadIsRight`, `LoadEnds`).
* `max_depth` is cut to 16 bits (`AcceptedIsSound`).
* Seeds enter the queue with the parameters that every link loses; a redirect is checked
  before its parameters are dropped, a link afterwards (`QueueIsWithin`).
* Each rank that comes when a batch is full is lost, and ranks of an earlier run are
  kept (`RanksAreWhole`).
* Two runs that create one wave at once: one of them panics, or works on a wave that was
  removed (`EnsureWave`). A seed between its name and its row, and a page first linked between
  the look of the removal's trigger and its deletion, lose their names; `fetch.sql` then never
  returns them (`NamesOutliveRemovals`). The trigger fires also if nothing was removed. A run whose wave is removed
  ends as "done". A run polls for ever what a crashed run of its wave had taken
  (`RunsEnd`).
* A failed build of one remote worker ends the run and leaves the others running
  (`WorkersAreStopped`).

## 5. The proofs

### The crawl

Every theorem is of `Spec`, for every web, route, quota, set of faults and number
of workers; the assumptions are those of `StatusTable` and `Crawl`
(`PagesAssumption`: finitely many pages; `WebAssumption`: answers have the shape
that `Crawled` gives them; `WorkAssumption`; `ProfileAssumption`: among others that
`MaxDepth + 1` fits the `smallint` column).

| Theorem | States |
|---|---|
| `TypeCorrect` | `[]TypeOK` |
| `NoDoubleCrawl`, `WorkShows` | `[]HeldOnce`, `[]WorkIsTaken` |
| `NothingIsLost` | `NothingLost`, an action property |
| `EveryRowIsNamed`, `DepthHasAParent`, `ClosedMeansExplored` | `[]RowsAreNamed`, `[]DepthIsReal`, `[]ClosedIsExplored` |
| `CrawlIsSearch` | `IsSearch`: every behaviour is one of `GraphSearch` |
| `OvershootIsBounded`, `QuotaHolds` | `[]SentBounded`, `[]ClosedBounded` |
| `NothingStaysTaken`, `NothingIsCut` | `Healthy` implies `[]TakenIsHeld`, `[]TerminateCutsNothing` |

The argument. None of the invariants is inductive by itself.

* `Quiet` says what the process holds where: the batch is empty unless the
  master is sending, and nothing is held while it is off or booting. It makes
  `ResetQueue` safe: rows that it opens belong to nobody.
* `Exclusive` (`WorkIsTaken /\ HeldOnce`) is inductive given `TypeOK` and `Quiet`:
  work is created only by `Fetch`, from open rows, which `WorkIsTaken` says nobody
  holds, and then only moves.
* `Sound` adds `Faithful` to the three table invariants: the jobs under way carry
  the depth of their rows (`Deep`), and a task at a given step has stored what the
  steps before it store (`Progress`). Both survive every other step because the
  tables only grow (`Grows`), which needs nothing but types.
* The refinement: `SeedStatus` is `Begin`, `StoreStatus` is `Discover`, `StoreClosed`
  is `Complete`; everything else stutters. `Deep` gives the level, `WorkIsTaken` that
  the page is still pending, `Progress` that its links are found.
* `Budget` relates the counters to the work: the pages closed or sent
  (`Working`) and the rest of the quota never exceed `Quota` and what was sent; a
  parked job counts as sent already. An overshoot of one run shows up in the
  count of the next, whose `remaining` is then zero.
* `Serves`, when nothing fails: a stored analysis belongs to a closed page or to
  a task about to close it (so that no insert is ever repeated), all workers live
  until the end, and a taken row is held.

### Politeness

Theorems of `Origins!Spec`, for every number of tasks, sites, concurrent tasks,
robots.txt and delay; time is unbounded but for `Horizon`, itself any number. The
assumptions are `SitesAssumption` and `LimitAssumption`.

| Theorem | States |
|---|---|
| `TypeCorrect` | `[]TypeOK` |
| `SlotsAreApart` | `[]Paced` |
| `EachKeepsTheRate` | `[]EachIsLimited` |
| `ValuesAreFew` | `[]FewValues` |

* `Shape`: who has a value and a slot; a value in the map was made for its site,
  and a site that has values has one in the map.
* `Goes` and `Stays`: every step is the turn of one task, with its own value or one
  that exists, or gives nobody a slot (`StepKinds`). The rest is about turns.
* `Ahead`: `lastInstant` is a delay behind every slot of its value. It is what `Paced`
  lacks to be inductive: the next slot is `lastInstant` or later.
* `Spread`: the slots between that of a task and any instant are within the rate,
  for every instant and not only now. Cutting the interval a delay before a new
  slot keeps it inductive (`OneMore`); with requests never before their slots and
  never of the future (`HitsArePast`) it gives `EachIsLimited`.
* `FewMakers`: tasks that load a site, or have made a value for it. Only a task that
  finds no value joins them, and then all of them run.

### Remote workers

Theorems of `RemoteWorkers!Spec`, for every number of workers, servers, tries and jobs, every
capacity, and servers that trust the master or do not. The assumptions are `PoolAssumption` and
`JobsAssumption`.

| Theorem | States |
|---|---|
| `TypeCorrect` | `[]TypeOK` |
| `SendsKeepTheirWorker` | `[]SendsHoldTheirWorker` |
| `EndedWorkersStop` | `[]WorkersAreStopped` |
| `RemoteDelivery` | `IsDelivery`: every behaviour is one of `Delivery` |

* `Known`: what the master knows of its calls. A call that anybody works on was made by
  it, and is the one it awaits, an earlier try of that, or one of a matter that is settled.
* `Queues`: a send that waits for room is among the readers at the front of the lock
  (`Shares`), and its worker is in the table. The queue loses calls anywhere in it, by answers
  and by drops: removing another call never costs a reader its place (`SharesOn`). A
  writer is granted only at the very front, hence never while a send waits.
* `Running`: a worker that runs is in the table, or a call that is on its way to put it there or
  to stop it owns it; a terminated one is `Gone`, for good. The proof goes by two kinds of
  step, those of the server (`ServerMoves`) and what the master learns (`Learns`).
* `Counted`: deliveries and tries that may still deliver are together at most
  `MaxRetries`; Ok implies one. This is the counter that `Delivery` needs: a server's late delivery
  maps to `Deliver` whether the master has given the try up, was told or has ended.

### Waves

Every theorem is for any number of processes, any commands, waves and pages, and any links, of which
a page has finitely many, some of them of reason `ahref` (`WavesAssumption`). `NamesSurvive` states `[]NamesOutliveRemovals`. The inductive invariant (`Inv`) has, beside types and the property:

* `Fresh`: a `wave_id` that is not inserted yet is known to nobody.
* `Watched`: if a wave other than the one being removed comes to need a page that the
  removal has found unused, the pair is in `raced`.
* `Linked`, `Given`: while a visit is between its statements, the rows of `linkage` that it wrote
  protect the pages whose names it is about to give, and once they have names these stay, unless in
  the race. This is why the order of the statements in `ensure_explored` matters (links before names
  before rows): with names first, a removal finds a named page without any reference.

Steps that touch neither names nor rows nor links are proved together
(`QuietKeeps`); each of the others has a lemma.

`WavesTyped` (`[]TypeOK`) and `RanksWhole` (`[]RanksAreWhole`) share a second invariant, `RankInv`, on top of
`Inv`. TLC checked its parts on the run `waves` first.

* `Paged`, `Named`, `RowTypes`, `Gone`: a run has a page exactly while it visits one; a name has one
  wave; `linkage` is finite; of a wave that does not exist there are no rows. `Gone` is what makes
  the foreign keys worth something: without the guards `Exists` and `CanReference` a statement could add rows
  to a wave just removed. `Named` needs `Fresh`, for an insert reuses no `wave_id`.
* `Ranked`: what a process has ranked is a list (`Lists`) of each page of the graph it has read, once,
  with its rank there, which is `RanksAreRight` below; and `pushed` is a multiple of `BatchSize + 1`, since every
  full batch costs one more rank. From that it follows that the place of a rank in the list, not the
  time of its batch, decides whether it is kept (`IsKept`).
* `Whose`: a wave has at most one row for a page, and each row is a rank that some process made for
  that wave and did not drop. This is where two rankings at once meet.
* `Rows`: every rank before `pushed`, and every one when the process is done, has a row
  if it is to be kept and the wave still exists: a removal takes the wave and its rows in one step, and
  no wave comes back.

### PageRank

`RanksAreRight` says of `PowerIteration`, for every finite set of edges, whatever the order in which they are
read, every stride and any number of iterations, that it gives each page of the graph once, with the
rank that `RanksOf` defines of the graph alone: no list, no identifiers, no offsets, no tiles. Ranks are
exact, over one denominator; the rounding of `f32` is not in it. The steps:

* `StatesAre`, `IdsAre`: the states are the pages of the edges, each once, and `IdFor` inverts them.
* `SortExists` (in `Induction`), `SortedIs`: a finite list can be sorted, so that the CHOOSE of `SortedByFrom` means something.
* `OffsetsAre`: in a sorted list the transitions between the first and the last of a node are exactly its
  own, which is what the `assert_eq!` in the loop over a tile claims; with the list as it was read this fails.
* `StridesCover`, `SumTiles`: the strides part the states, also where the last one is short, so
  that the sums over tiles are the sum over all edges to a page (`Pieces`), and every column is covered.
* `Iterates`, `Powers`: one iteration on states and one step of the surfer agree (`Agree`), and so do any
  number of them, by induction.

### Rules

Theorems of `Rules!Spec`, for every set of rules, any elements wherever they are, any texts, regular
expressions and tables of what a conversion makes of them, and every depth of nesting. The assumptions are `ValuesAssumption`
(there is more than one level and at least one text), `RegexesAssumption` (what a regular expression finds is maps of texts) and
`RulesAssumption` (rules are of the grammar; what an extractor finds in an element is of its type).

| Theorem | States |
|---|---|
| `RulesAreTyped` | `[]WellTyped` |
| `RulesPanicAsKnown` | `[]PanicsAreKnown` |
| `RulesMeanIt` | `[]AggregatesMeanIt` |
| `RulesAgree` | `[]OperatorsAgree` |

* `Exists` shows that a recursive function over the levels is what its definition says, and the lemmas named
  `...Are` apply it to each one. `ByLevel` is induction over the levels. A type, a value or an
  expression is the same at each level that has it (`TypesGrow`, `ValuesStay`, `...Is`).
* `Soundness` is the heart of the first two theorems: an expression that `TypeOfAll` gives a type, on a value of the type it is
  for, gives a value of that type, unless it sorts arrays that hold maps (`MapSorts`). It
  takes a lemma for each kind of value (`EvalBool` to `EvalMap`), and that values of a type without maps compare without a
  panic (`MaplessCompare`). A null is of every type, and goes through everything.
* `ExtractionSound`, `ExplodingSound`, `FeedingSound` and `EndingSound` carry it on to extractors, exploding ones, the state of a
  rule and its result: each is typed, or a panic that `KnownPanics` names. `Invariant` is `WellTyped` with
  `PanicsAreKnown`, and that a rule that is fed was accepted.
* None of it says what a state is about. For that, `Meaningful` adds `Stands` to `Invariant`:
  the state that stands for the elements so far, all at once, groups by the elements that belong to them; TLC checked it
  on the run `rules` first. It is inductive: `AddStands` is one value more in an element, `GroupsStand` what
  that does to the group of its key and to the others, `FeedStands` one element more. `EndStands` reads
  the meaning off it. An element that gives a key twice is fed to its group twice, in the code and in the meaning.
* `RulesAgree` rests on `WellTyped`. Values that a sort compares without a panic are of one kind, with nulls and at most one map
  (`ComparableAlike`), and `cmp_json` puts these in order, in one way (`AlikeOrder`); arrays it does not, which is why the
  property leaves them out. What can be put in order can be sorted (`SortExists`), so that the CHOOSE of `Sorted` means something,
  and has one sorted form (`SortedOnce`, by counting what comes up to each value), so that a second sort changes nothing (`SortTwice`).

### Directives

Theorems of `Directives!Spec`, for every set of disks, pages, boundaries and links, any number of
directories, and every width of depths. The assumptions are `LoaderAssumption` (files are
sequences of items, names and paths sequences of strings; a disk has finitely many modules, fewer than the stack holds) and
`DirectivesAssumption` (what the parser makes of seeds, numbers and links).

| Theorem | States |
|---|---|
| `DirectivesTyped` | `[]TypeOK` |
| `LoadedRight` | `[]LoadIsRight` |
| `AcceptedSound` | `[]AcceptedIsSound` |
| `QueuedWithin` | `[]QueueIsWithin` |

* `LoaderInv` is the inductive invariant of the recursion. `CallsHoldFiles`: a call has the items of the first file
  of its name. `CallsAreImports`: it was made for the import that the call below has just passed.
  `DoneIsKnown`: what a call has passed is known, or is what the call above it loads; so a module
  that is inserted has its imports inserted already, and this is `ImportsAreLoaded`. `NothingElse`
  quantifies over all sets that are closed under imports, and gives the least of them.
* The properties do not know `canonical_path`. `NamedIsCanonical` shows, by induction over the parts of a path, that where
  the walk of `Named` leads is what `CanonicalPath` makes of a name and a path, provided that the name is plain, that is, has no
  `super`, `root` or empty part itself; and names are (`ModulesArePlain`), since `CanonicalPath` gives no others
  (`CanonicalIsPlain`). The converse fails where the walk leads nowhere, which is the exception.
* `OverflowsOnCycles` is a pigeonhole: the stack has more calls than the disk has names.
* The file that is found is the one of the first directory (`FirstIsFileOf`). The main module is an exception
  that the proof brought up: another file may have its name, be imported and loaded,
  and have imports of its own loaded, until the entry takes its place.
* Duplicates are found by counting: as many names as declarations means that no two are the same
  (`AllDiffer`). With one `max_depth` at most, the depth is its value as far as it fits (`DepthIsCut`).
* `DirectivesInv` adds to this that an accepted load has no issues and that the queue is within. Cleaning is
  idempotent (`CleanIsOnce`), which is why a link that was allowed when clean stays so.

### Robots exclusion

Theorems of `RobotsSpec`, for every set of hosts, responses and routes and every limit of bodies. The
assumption is `RobotsAssumption`: hosts, lines, parts and routes are sequences, a route is not
empty, since it begins with a slash, and a path has a part, if only an empty one.

| Theorem | States |
|---|---|
| `FewRequests` | `[]RequestsAreFew` |
| `ExclusionIsRight` | `[]ExclusionMeansIt` |

* `ClimbInv`: what was asked last is in order, the longer domains before (`AskedDown`), and while it
  asks, the last `hops` requests were for `base` and those before them for longer domains
  (`AskedSinceClimb`); so no more than `MaxHops` in a row are for one host. Domains of one host are
  known by their lengths, and the shorter one is a suffix of the longer one (`DomainOfDomain`).
* `GreedyIsRight`: taking each part at the first place where it occurs finds all parts if any places in
  order do. By induction over the parts: the greedy place is never behind that of another solution.
* `ExclusionIsRight` has two halves: what a rule without `$` means is found by the greedy search, which wants less
  (places in order, from anywhere in the route); and what is found has all its parts in order.
* `NeverAtTheEnd`: after any parts something of the route is left, so that a strict path matches
  nothing. It is why `ObeysRobots` fails (finding 5).
* `TextSent`: what excludes was received, so that its lines have the shape of the parser's.

### Induction

The prover's library states induction and recursion with operators as parameters, which the provers
cannot instantiate. `Induction` states them of sets and functions: a set with zero and the successors of its elements
has all naturals; a first value and a step for each index make a function. It rests on
the well-foundedness of strict inclusion among finite sets (`FiniteSetTheorems`), applied to the
intervals from zero. `Recursion` is what makes a recursive definition mean
what it says: its value is a CHOOSE, of something that must first be shown to exist (`EndsAre`, `MultipleType`).
The sums of the community modules are such a CHOOSE as well, of a fold that takes an element out at
a time: `TakenExists` and `TakenSame` show that there is one and that it does not depend on the set it began with,
`SetInduction` that elements may be taken in any order (`SumRemove`), and the rest follows: sums over
a bijection, over the parts of a partition, and of equal terms. Last, sorting, for `Waves` and `Rules`:
what can be put in order can be sorted, and in one way if the order tells all values apart.

### Not proved

Only model-checked: `RunEnds` (of the crawl and of remote workers), `EveryTurnComes`, `LockIsFreed`, `RunsEnd`, `LoadEnds`,
`ClimbEnds`, which are liveness under fairness, out of the prover's reach. Every other property of a passing run is a theorem.

The five violated properties are of course not theorems.

## 6. Not modelled

* The parser of the directive language (`directives/parse.rs`, `expressions/parse.rs`): a grammar over text,
  written in parser combinators, without state.
* The HTML parser and the web driver: third-party code behind one call each. What they give is
  data of `Rules` and a choice among answers in `Crawl`.
* `test_url` beyond what it shows of the boundaries (`TestUrl`).
* Creation of the database, its migrations and views (`db.rs`, `migrations/`): run before anything
  else, by a library.
* Regular expressions, hashes, `f32`, and how numbers are written.
* Command line, profiles, logging, pretty printing: wiring and text.
* `counter.rs`, `diagnostics.rs`: dead code. The dummy backend stores nothing.
* The installer, editor support and standard directives.

Not composed: `RemoteWorkers` with `Crawl`, because a run on remote workers is, by
`RemoteDelivery`, one on handlers that may deliver a job twice or report a failure for one
that was delivered; the second ends a run of the master as a failed `send` does in `Crawl` (`SendFails`),
the first, a page crawled twice at once, is what `HeldOnce` excludes for local workers only.
