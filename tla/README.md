# TLA+ development of katago-ws

katago-ws takes Go games over HTTP, analyses them with KataGo and hands the
results out again. It keeps everything durable in one Postgres table and one
pgmq queue, and it can spread the analysis over workers that dial in over a
WebSocket. This directory models that machinery in TLA+, checks it with TLC on
small instances and proves the central claims with TLAPS.

`src/…` below is the Rust source (in `PROJECT.json` paths are relative to the
directory that holds the checkout as `src/`, so they read `src/src/…`).

## 1. The system

| Component | Source | State it keeps | Operations | Talks to |
|---|---|---|---|---|
| Job store | `db/`, `migrations/…/up.sql` | table `jobs`: status, result, error, last_error, change_seq, updated_at | submit, submit_many, set_running, record_attempt_failure, set_done, set_failed; reads | HTTP handlers, lease loops, feeds |
| Job queue | `queue.rs` (pgmq) | a message per job: visible, hidden until its timeout, or archived; `read_ct` | send (in submit's transaction), read_one, extend_vt, archive | store, lease loops |
| Lease loops | `worker.rs` | the message in hand, the heartbeat task | read, poison check, set_running, analyse, set_done + archive / record failure | queue, store, an `Executor` |
| Pull feed | `http/handlers.rs` `changes`, `db` `settled_changes` | none; the client keeps the cursor | page, latest, answer | store |
| SSE feed | `http/handlers.rs` `stream`, `db` `changes_since` | the connection's cursor | snapshot, cursor, tail | store |
| Orchestrator session | `cluster/server.rs` | outbound channel, map of waiters, `slots` lease loops, a cancellation token | hello, forward, complete, teardown | worker, queue, registry |
| Worker client | `cluster/client.rs` | connect/serve/back-off state, semaphore, result channel | dial, dispatch, reply, back off, stop | orchestrator, engine |
| Registry | `cluster/registry.rs` | connected workers, behind a bounded command channel | register, deregister (in Drop), snapshot | orchestrator, the listing of workers |
| Engine owner | `engine/katago.rs` | pending queries with deadlines, the KataGo process, back-off | analyse, shutdown, relaunch | subprocess pipes |
| Game records and profiles | `engine/sgf.rs`, `engine/human.rs` | none | validate at submission, parse in the worker | HTTP handlers, analysis passes |
| Analysis passes | `engine/mod.rs`, `engine/annotate.rs` | what the passes of one job have answered | first pass, refinement pass, merge, annotate | engine owner |
| Autotune | `engine/autotune/{mod,fast,thorough,search,overrides}.rs`, `config.rs` | the search under way, the `[engine]` section as tuned | look up, probe, trial, time out, apply | engine, cache |
| Tuning cache | `engine/autotune/cache.rs` | a file of results by key | lookup, store (read, change, rename) | autotune, other workers |
| API shell, auth, configuration, metrics, CLI | `http/`, `auth.rs`, `config.rs`, `metrics.rs`, `cli.rs`, `main.rs`, … | configuration | wiring, formatting, counting | everything |

What is hard here:

* **Delivery is at least once.** A lease has no owner; it ends by time alone. A
  handler can be outlived by its lease, a heartbeat by its handler, and any
  statement can be the last one a process runs. What holds the store together
  is a guard in every UPDATE and the order of two statements.
* **Numbers are taken at a write and seen at a commit.** Both feeds move a
  cursor over numbers that become visible out of order.
* **A session ends at two ends, at different times.** Lease loops, the I/O loop,
  analyses and the socket each notice on their own.

* **Numbers have a frame.** KataGo states an evaluation for a player, sides
  alternate, engine and move list may disagree about who is to move, a turn may
  lack its answer: each of these gives plausible, wrong annotations.
* **A setting has many sources.** Defaults, file, environment, raw overrides,
  cache and search all decide one launch argument, and a pin must survive all
  of them.

What makes the components correct: an accepted job settles exactly once and is
never dropped (store, queue, loops); a cursor never passes a change its client
was not given (feeds); who waits for an answer gets one or an error, and what a
worker is given stays within its slots (cluster); a caller gets all of its own
answers and nobody else's (engine owner); what the API accepts a worker can
analyse, every loss is the mover's and every grid is whole (passes); an engine
runs with what was pinned and with what was measured (autotune).

`PROJECT.json` lists every component with its status, and under `hazards` every
place in the code where one of these can go wrong.

## 2. The modules

| Module | Models | Extends / instantiates |
|---|---|---|
| `JobLifecycle` | what a client is promised about a job (abstract) | |
| `JobQueue` | table, queue, lease loops, heartbeats, faults | refines `JobLifecycle` |
| `JobQueue_proofs` | its inductive invariant and theorems | `JobQueue`, TLAPS |
| `ChangeLog` | write transactions and the change trigger | |
| `ChangeFeed` | the pull feed | `ChangeLog` |
| `ChangeFeed_proofs` | its inductive invariant and theorems | `ChangeFeed`, TLAPS |
| `ChangeStream` | the SSE feed | `ChangeLog` |
| `ClusterWire` | the sockets of a worker's successive sessions | |
| `OrchestratorSession` | the server's end: lease loops, waiters, I/O loop, teardown | `ClusterWire` |
| `WorkerClient` | the worker's end: state machine, dispatch, slots, replies | `ClusterWire` |
| `Cluster` | both ends together, with the properties | the two above |
| `EngineProcess` | KataGo and its pipes, as the owner sees them | |
| `KataGoOwner` | the engine's owner task and its callers | `EngineProcess` |
| `KataGoOwner_proofs` | its inductive invariant and theorems | `KataGoOwner`, TLAPS |
| `ChangeStream_proofs` | its inductive invariant and theorems | `ChangeStream`, TLAPS |
| `Cluster_proofs` | the cluster's invariants and theorems | `Cluster`, TLAPS |
| `Perspective` | colours, evaluations, whose point of view they are in | |
| `SgfGame` | what a record is refused for, and what game it makes | `Perspective` |
| `Annotate` | from answers to the payload: swings, grids, losses, reports | `SgfGame` |
| `AnalysisJob` | one game from its submission through its passes to its payload | `Annotate` |
| `AnalysisJob_proofs` | its inductive invariant and theorems | `AnalysisJob`, TLAPS |
| `TuningConfig` | overrides, pins, what an engine makes of its arguments | |
| `TuneSearch` | the fast and the thorough search, as step functions | `TuningConfig` |
| `TuneSearch_proofs` | lemmas on what a search can come up with and when it ends | `TuneSearch`, TLAPS |
| `Autotune` | workers that tune at start-up and share a cache file | `TuneSearch` |
| `Autotune_proofs` | its inductive invariant and theorems | `Autotune`, `TuneSearch_proofs` |
| `MC…` | records, sections and symmetry sets for TLC | |

Operators commented "Mutant" are deliberate mistakes; no specification uses
them. Each is put in the place of the definition below it to show that a
property fails when the code is wrong that way.

### JobQueue

One step is one SQL statement (or one transaction, where the code opens one).
`status`, `result`, `error`, `lastError` are the columns; a result is named by
the `read_ct` of the delivery that produced it. `message[j]` is the pgmq message
of job j. A loop is `pc`, the statement it is about to run, with the job and
delivery count it holds; `pc = "idle"` is the `select!` of `worker_loop`.

| Action | Code |
|---|---|
| `Submit(S)` | `submit` (one job), `submit_many` (a batch), row and message in one transaction |
| `Read` | `read_one`, then the poison check at the top of `handle` |
| `SetRunning` … `Archive` | the statements of `handle`, in its order, each with the UPDATE's guard |
| `HeartbeatTick`, `ExtendLands`, `ExtendFails` | the heartbeat task; a `set_vt` may land after its sender stopped |
| `Lapse`, `Slip` | the visibility timeout, of a message nobody handles, or somebody does |
| `DbError` | the `?` of every statement |
| `LostRead` | the shutdown token wins the `select!`, or the connection breaks, while a read is under way |
| `Crash`, `Restart` | a process ends (or is told to between messages) and comes back |

Time is reduced to what it does. A lease that is still held is lost only by a
*slip* (extensions failing, a slow statement); the properties that do not
survive a slip say so. `MaxFaults` and `MaxSlips` bound the runs; the theorems
hold for all values of both. `SKIP LOCKED` lets a reader pass over a row, so the
queue is not FIFO in the model. A statement that commits and whose reply is
lost is the statement followed by `Crash` and `Restart`.

### ChangeLog, ChangeFeed, ChangeStream

`Write` is the trigger: it takes the next number after the row lock. `Begin`
fixes `now()`, which becomes `updated_at` of every row the transaction writes;
`age` and `txnAge` count ticks since those instants and stop counting where no
comparison can tell (`Settle`). `ReadPage` is `settled_changes` (its LIMIT, then
`take_while`), `ReadLatest` the handler's second statement, `Receive` and
`LoseReply` what becomes of the answer. Nothing in the code bounds the duration
of a transaction; `MaxTxn` makes that assumption explicit. It has to be less
than half of `Settle`, not all of it, because `updated_at` is the start of a
transaction: `ChangeFeed.cfg` with `MaxTxn = 2` and `Settle = 3` violates
`NoOvertakenWrite`. A transaction that stays open for longer is beyond what the
feed promises here, and nothing in the code prevents it.

The stream's `exposed` is a history of rows whose newest change it may pass over:
committed between its first two statements, or after a later number. A commit
decides it anew for the rows it writes (`WritersNext`).

### Cluster

`OrchestratorSession` keeps per session the map `pending`, the channel `out` and
the `Slots` lease loops. A loop is `idle` (select of `worker_loop`), `register`
(leased; its `set_running` is under way), `send`, `await`. `Finish` stands for
the rest of the handler, whose statements JobQueue has. `phase` follows
`run_session`: open, cancelled (loop left, token cancelled), cleared (map
cleared), closed (the task has returned, so channel and socket are dropped).
Between cancelled, cleared and closed the lease loops run on, as they do in the
code, where `pending.lock().await` and the return are separate steps of one
task among many.

`WorkerClient` keeps one `parked` job: `dispatch` waits for a permit inside the
serving loop, so nothing else of that loop runs meanwhile, the shutdown branch
included. Slots (`task`) are shared by sessions. A reply goes to the channel of
the session its job came from, or nowhere when that has ended.

### EngineProcess, KataGoOwner

`pc` is the await the owner is in: `serve` (the `select!`, once the backlog is
written out), `write` (in `submit`), `kill`, `reap`, `down` (`wait_out`),
`stopped` (the task has returned). `pending` is the table that `serve` keeps for
one process; `hand` the command being worked on. `Stop` is a return of the task:
every reply channel it still holds is dropped, which wakes the caller. A `call`
is first `sending` (there may be no room in the channel, and no deadline covers
that), then `waiting`, where `TimeOut` may end it while its command or entry
lives on.

`EngineProcess` is the owner's environment. Its pipes are sets, because KataGo
answers turns in any order; each has a capacity, because the owner may block on
one and KataGo on the other. A process can end at once (`gone`) or close its
stdout first (`mute`); `Reap` kills one that does not exit. What was written
before the end is still handled after it, as in the code.

Two assumptions about KataGo are built in: it reads its stdin while its output is
blocked (the fairness of `ReadQuery`; were it not so, a blocked write of the
owner and a full stdout could wait for each other, and no property here looks at
that), and it answers every turn once, in a line that parses, or refuses a query
as a whole. `kill` is taken to succeed.

History variables (`starts`, `failed`, `late`) record what properties
need and guard nothing.

### Perspective, SgfGame, Annotate, AnalysisJob

A record is the main variation as the parser library types it: nodes of
properties, with points as pairs. `Parse` is `parse`, one operator for each
reason to refuse; `Valid` is the check at submission, with its 19x19 default. An
answer is what one turn's response has: a root evaluation and the engine's claim
who is to move, candidates, arrays. An array is known by its length, the turn it
was computed for and the colour it is stated for: these, and not its cells, are
what a grid can get wrong. Evaluations are whole percent and whole points, which
is exact for what the code does to them (subtract, negate, compare). Accuracy
and the rank estimate are formulas over these numbers and are left out.

| Action | Code |
|---|---|
| `Submit` | the checks of `submit` and `submit_batch` |
| `Start` | `analyze` up to its first query: parse, drop the profile nobody answers |
| `FullPass`, `ScreenPass`, `RefinePass` | the queries of `analyze`; the last one with merge and `assemble` |
| `PassFails` | the `?` of each of them |

A pass is one query: KataGoOwner says that it fails as a whole or returns one
answer to each of its turns. What the engine is free in: the evaluations, whether
it names the player to move, whom it takes for that player after two moves in a
row by one side (`EngineSide`), and that an answer lacks its root or an array.

### TuningConfig, TuneSearch, Autotune

Overrides are functions from keys to values, a raw string a sequence of pairs.
`Effective` is what KataGo makes of an argument (external), `Engine` what an engine
is launched with and asked for: overrides, visits and human network, of which a
trial (`LaunchCfg`) takes its own visits and no network. `Pins`, `WithTuned`,
`LaunchCfg` and `TrialOverrides` are translated one by one, because a pin passes
through all of them. `TuneSearch` gives a search as two operators, where it
starts and where it stands after a trial; both searches of the code are straight
loops around one `await`, so this loses no interleaving.

| Action | Code |
|---|---|
| `Start` | a worker, or `katago-ws autotune` with `--fast` and `--force`, reads its section |
| `Skip`, `Hit`, `Miss` | `apply` up to the search |
| `Probe`, `Trial`, `Finish`, `NoWinner` | `tune`: the host, a candidate's engine and its window, the report |
| `TimedOut` | the timeout around `tune`, at any await of it |
| `StoreRead` | `store` reads the file; one that cannot be read, or is no JSON, reads as empty |
| `StoreOpen`, `StoreWrite`, `StoreRename` | the temporary file, named by the process id, is opened and truncated, written, and renamed over the cache |
| `StoreFails` | an error of any of these, which may leave a half-written file; the result is used all the same |
| `Killed` | the process is killed, anywhere before it is up |
| `Apply` | the last line of `apply` |

A trial is one step. Its outcome is a failure, a rate, or a rate cut short where
it is clearly lower than the best; a candidate measured twice has the same rate,
so that the winner can be compared with what was measured. The trial's engine is
KataGoOwner's. `host` is one value for GPUs, engine binary, network, config file
and board size; `max_visits` is a field of the key, `autotune_visits` is not.

A file is absent, empty, torn (what a reader cannot parse) or whole with its
entries. Workers in containers that share the volume may have the same process
id, hence the same temporary file: `pid` is drawn from `Pids`, `fd` says where
the file that a store has open is by now (a rename takes open files along), and
the history `shared` that two stores have used a temporary file at the same
time.

## 3. The runs

| Run | Instance | Shows |
|---|---|---|
| `queue_safety` | 2 jobs, 2 loops, 2 attempts, 2 faults, 1 slip | type and CHECK constraint, no lost job, no job given up before its attempts are used up and over, one handler per message, no wasted analysis, settled rows final, refinement of `JobLifecycle` |
| `queue_live` | 1 job, 2 loops, 2 faults, 2 slips | the job settles and its message is archived |
| `feed` | 2 rows, 2 writers, 3 writes, limits 0, 1, 3 clamped to 1..2 | no skipped change, no overtaken write, honest `latest` and `more`, nothing twice, every change delivered |
| `stream_order` | 2 rows, 2 writers, 3 writes | nothing repeated; a row's newest change is passed over in two ways only; every other one arrives unless the row changes again |
| `stream_missed` | 2 rows, 2 writers, 2 writes | *violation*: a commit between snapshot and cursor is lost |
| `cluster_safety` | 1 session, 2 slots, 2 jobs, 2 slips | bounds of channels; in flight are at most the slots and one more for each lost lease; the client's loop and its slots never wait for each other; a waiting loop's job or its answer is on its way |
| `cluster_sessions` | 2 sessions, 1 slot, 1 job, 1 slip | sessions that overlap: every waiter registered in time is resolved |
| `engine` | 2 queries of 2 turns, 1 shutdown, channel and pipe of 1, 2 process ends, supervised or not | answers complete and own, no entry waits in vain, shutdown leaves no process, never two processes, every call returns |
| `analysis` | 108 records of up to 3 nodes, boards of 9, 19 and 21, three configurations, four kinds of engine | KataGo is asked to replay the record's own game, the deep search goes where a move swung and nowhere else, losses are the mover's, grids are whole, aligned and Black-positive |
| `autotune` | 2 workers, 2 starts, 2 process ids, 1 file, three rates | pins reach the engine, it is launched with the overrides measured and the visits and network asked for, the winner is near the best, the file is never half written, the worker comes up |
| `cluster_orphan` | 1 session, 1 slot, 1 job | *violation*: a waiter registered after teardown waits for ever |
| `cluster_vanish` | the same, the host may vanish | *violation*: a lost worker is never noticed |

Why these bounds. Every hazard of the queue needs at most a stale handler, its
successor and one more delivery: two loops, two attempts (the third delivery is
poison) and two faults reach each of them together, and one slip lets two
handlers meet. A second job is there for batches and for sharing a loop. The
feeds need two writers to overlap and three numbers to have one before, one at
and one after a cursor; ages beyond Settle are equal to every reader. The
cluster needs two slots and two jobs for an overwritten waiter, and for the
results channel to fill while a dispatch waits for a slot. Two slips add two
jobs beyond the slots, half of what the mutual wait needs; TLC cannot exhaust
more in its time, and the theorem `NoDeadlock` covers the third. The cluster
needs two sessions for an old one that is still being torn down; these are run
with one slot, so an overwritten waiter is met by the invariants of
`cluster_safety` and not by `EveryWaiterResolved`. The engine needs a query in
the pipe while another waits for room, and a second end of the process while the
backlog of the first is written out. A game's hazards are between a turn and its
neighbours, so two moves show them (three turns, the middle one beside both);
the records cover every reason to refuse one, both passes, and points that are
on one board and not on another. Tuning needs two starts, for a result that is
found by the worker that stored it, by another, or overwritten by it, and two
process ids, for stores that share a temporary file and stores that do not; of
the rates, one is best, one within `TIE` of it, one below `PRUNE`; every kind of
pin occurs. The runs that show a violation use the smallest instance that has
it. Jobs, loops, sessions and starts stop being available at the bounds and a
payload ends its job, so only the feeds check for deadlock.

### Fairness

* A loop that is up runs its next statement, or is handed a visible message
  (tokio schedules it; the read polls); an analysis ends in a result or an error
  (a query has a deadline). A stopped loop is started again (container restart
  policy). An abandoned lease runs out. Nothing is assumed of heartbeats,
  submissions or faults.
* Feeds: time passes, a transaction ends before it is `MaxTxn` old, the client
  polls, the handler goes on, and a client that keeps asking does receive an
  answer now and then (strong fairness of `Receive`: answers may be lost for
  any finite while).
* Cluster: tasks that can run do, and among the branches of a `select!` that
  stay ready none is starved (tokio's select picks at random). No fairness for
  dialling, cuts, deaths, restarts and shutdown.
* Autotune: what awaits nothing is done, and the timer fires. Nothing says that a
  probe or a trial ends, which is why there is a timer.
* Engine: the owner goes on, a launch succeeds in the end, KataGo starts, reads
  and answers unless it ends, and a process that closed its stdout exits. Nothing
  is assumed of deadlines: `EveryCallReturns` holds without them.

### What the violations say

Three statements of the repository's documentation do not hold of the code as
written; `findings` in `PROJECT.json` quotes each:

* a lease loop that leases a job while its session is torn down can wait for
  ever, with its heartbeat keeping the job from everybody else
  (`cluster_orphan`);
* a worker whose host disappears silently has the same effect
  (`cluster_vanish`);
* a change committed between the SSE snapshot and the read of the cursor does
  not reach a streaming client until the job changes again (`stream_missed`).
  The tail can lose a change in the same way: it does not hold back unsettled
  rows, so of two concurrent transactions it passes over the slower one.

Smaller remarks, which the models carry and no run is spent on.

*Queue and feeds.* A job whose attempt failed stays `running` while no worker has
it. After a lost lease a job can be given up while an earlier handler still
analyses it, whose result is then refused: `PatientFailure` counts such handlers
against the lost leases. `handlers.rs:466-467` speaks of "every job lifecycle
transition", but a poll of the tail shows a row's newest state only
(`ChangeArrives`).

*Cluster.* A lease lost under its handler lets a worker have one job more than
slots in flight, for each such lease (`InFlightWithinSlots`), where
`server.rs:11-12` and `client.rs:88-89` say never. Lost leases can stop a client
for good: with two slots and two jobs, after Slots + 2 = 4 of them, both slots
wait for room in the full results channel, and the serving loop, which would
drain it, waits in `dispatch` for a slot (`MutualWait`). There it looks neither
at the socket nor at the shutdown token, although `client.rs:19` has the client
stop on shutdown in any state. `NoMutualWait` says that fewer lost leases never
do this; with `slips <= Slots + 1` left out of it and four slips allowed TLC
finds the wait, within minutes only if the search is narrowed to sessions that
stand.

*Engine.* A query the owner takes up between the end of KataGo and its own notice
of it fails on the broken pipe (`SubmitFails`) and does not wait for the
relaunch; and an engine that ends right after it announced itself may be taken
for one that never started.

*Passes.* `sgf.rs:121-122` says the default board size does not affect validity,
but it does both ways: a record that names no size and has a point off a smaller
default board is accepted and then fails every attempt, and one that only a
larger default board has room for is refused at submission. `QueryReplaysRecord`
names the first as the one way in which an accepted game fails to parse.
`annotate.rs:198` documents the flag `ownership` as "Whether ownership maps were
requested", while `annotate.rs:753` sets it when there are any; no property
takes a side. An engine that names no player is misread where one side moved
twice in a row (`Agrees`), and `check_turn_alignment` says nothing of a turn
without a root, so no warning means agreement only where every turn has one
(`SeemsToAgree`).

*Tuner.* `autotune/mod.rs:28` speaks of a tie of 2 %, the code has 3.
`cache.rs:59` calls its key "everything a tuned result depends on", but a trial's
visits also depend on `autotune_visits`, which is not in it: a result found in
the cache may have been measured at other visits than this section would try
(`LaunchedAsMeasured` asks only that they are no more than those of production).
`cache.rs:196` has `store` write atomically and add or replace one entry. Two
workers whose process ids are equal share a temporary file, and one can rename
what the other has half written, hence the condition in `FileStaysWhole`. And a
store replaces the file by what it read: entries that another worker stored
meanwhile are lost, and all entries are where the file could not be read. Either
costs searches and no correctness, so no property forbids it.

## 4. The proofs

`tlapm` checks every step; nothing is assumed but the named assumptions on the
constants.

**JobQueue_proofs** — for any sets of jobs and (finitely many) loops, any
`max_attempts` of at least one, any number of faults and slips. The properties
are not inductive by themselves: that no job is lost, for one, needs to know
that a handler about to archive has a settled row. The invariant `IInv` comes in
layers, each preserved given the ones before it:

1. `BaseInv`: types and CHECK constraint; a row has a message and only settled
   rows lose it (`QueueInv`); a handler's delivery number was counted, and is
   beyond `max_attempts` on the poison path (`DeliveryInv`);
2. `LeaseInv`: until a slip, a handled message is hidden and has one handler;
3. `CleanInv`: until anything goes wrong, a settled job is archived or about to
   be (it needs `LeaseInv`: a second handler would not know);
4. `AttemptInv`: analyses started, plus loops about to start one, are paid for
   by deliveries within `max_attempts` (an argument by cardinality);
5. `PatienceInv`: a message has one handler and one more for each lost lease
   (`HandlerInv`), and each delivery that is not poison was analysed, is about to
   be, or was lost to a fault (`SpentInv`).

From `IInv`: `TypeCorrect`, `JobsAreKept`, `FailurePatient`, `LeasesExclude`,
`NothingWasted`, `SettledFinally`, and `QueueImplementsLifecycle`, the safety
half of the refinement: `status` and `starts` implement `JobLifecycle!Spec`.

**ChangeFeed_proofs** — for any numbers of rows, writers, pages and writes. The
invariant has two layers. `PullInv` needs nothing of time: `PageIsPrefix` shows
that a page misses no row between the cursor and its last change, and a cursor is
never above the newest row. From it: `ResetsAreReal`, `HandedOnce`,
`TypeCorrect`, and `CaughtUp`: an answer that claims no `more` has its client at
the end, by comparing the size of the page with the number of rows behind the
cursor and looking at the least row left out.

`SettleInv` needs `2 * MaxTxn < Settle`. Its heart is `LaterIsYoung`: if a row
carries a later number than a write still in flight, their transactions
overlapped, so the row's timestamp is at most `MaxTxn` older than the writer's,
hence younger than `2 * MaxTxn`: not settled, and it ends the page. From it:
`NothingSkipped`, `NothingOvertaken`. Without the condition `NoOvertakenWrite`
fails (see ChangeFeed above). So what the code pays for in delay, its settling
time, buys completeness only; an answer's honesty comes without it.

**KataGoOwner_proofs** — for any numbers of queries, turns and calls of
shutdown, any capacities, and any number of process ends. Ids are handed out
once (`IdInv`), so a line's id names the query whose answer it is; an entry
collects only turns of its own query (`CollectInv`), and as many turns as were
asked for are all of them (`BatchIsWhole`, by cardinality). `GoneInv` follows the
process through the owner's returns. From `IInv`: `AnswersAreOwn`,
`EntriesAreAnswered`, `ShutdownWaits`, `EnginesAlternate`, `TypeCorrect`.

**ChangeStream_proofs** — for any numbers of rows, writers and writes. What was
sent is below the rows between snapshot and cursor (`SnapshotInv`), because a row
lock makes a row's numbers grow (`RowInv`); then below the cursor. From this:
`TailRepeatsNothing`, and `TypeCorrect`. The run `stream_missed` shows that
changes can be lost; `PassesInTwoWays` says that there is no third way: a row's
newest change that is not `exposed` was sent or is still ahead of the cursor.
TLC finds the property violated when either way is left out of `exposed`.

**Cluster_proofs** — for any jobs, any `Slots` in 1..64, any number of sessions
and lost leases. `Base` ties the two ends together: a loop between lease and
result has a job (`LoopInv`); an entry of the map leads to a loop that waits for
that job, and a loop that waits is the one its job's entry leads to
(`WaiterInv`); only the session being served is connected (`LinkInv`).
`NothingLostInFlight` follows the frame: each step either keeps every job of a
session somewhere in its pipeline (`Keeps`), or ends the connection. From `IInv`:
`NothingIsLost`, `TypeCorrect`, and `TeardownFails`: clearing the map fails every
waiter registered by then (`TeardownFailsRegistered`, which no run repeats).

`WithinSlots` is an argument by counting on top of it. What is in flight on an
open session is at most the loops that wait, less those whose answer came before
they had sent (the invariant need not know that there are none), plus the
answers on the way whose waiters were overwritten; and once the session is not
open, at most the slots whose loop has nothing left to send, plus these
(`Bounded`). Who overwrites a waiter works on a job that another handles as well,
so each overwritten waiter is paid for by a lost lease (`Paid`, `OneHandler`).
Each action moves one unit from one stage to the next; `CountLoops` counts the
sets. `NoDeadlock` follows by arithmetic: for the client's loop and its slots to
wait for each other takes one parked job, one at every slot and a full channel of
one more, which is Slots + 2 beyond the slots.

**AnalysisJob_proofs** — for any records, profiles, configurations, engines and
evaluations. The invariant says of each stage what the passes so far have
answered: to which turns, at how many visits, from whose point of view
(`PassInv`), about which game (`GameInv`). The rest is about the operators: what
`Parse` accepts with one default it accepts with any other if the record names
its board; the moves of a game are those of the record in its order
(`PlayedMovesIsSeq`, `ReplaysMoves`), and a point survives the way to KataGo's
notation and back to a cell (`CellOfGtp`); `TurnsToRefine` is the turns beside a
swing as Black sees it; rotating an evaluation twice is nothing. From these:
`RecordIsReplayed`, `SwingsGoDeep`, `GridsCoverAllOrNothing`, `LossesAreMovers`, `TypeCorrect`.

**TuneSearch_proofs** — for any pins, hardware, rates and failures, the two
searches as algorithms. `FastSound` and `ThoroughSound` say of every stage of a
search what it has measured: each trial's candidate can be launched
(`Candidates`), each score is the mean of windows that agree with the
candidate's rate, the leader is the fastest of all tried so far, a later stage
starts from the former's winner. `FastAfterSound` and `ThoroughAfterSound`
preserve them over any outcome of a trial; `WinnerSound` reads off what is true
at the end. The pieces are the selections the code is built on: `Selected` and
`Fastest` keep order and membership, `FloorPow2` is positive, a ladder is never
empty. `TrialsLeft` is a variant: a search begins with at most 13 trials
(`TrialsAtStart`) and every trial leaves fewer (`FewerTrials`).

**Autotune_proofs** — for any workers, ways to start them, rates and numbers of
starts. `Sound` says what a worker's configuration is at each stage: as given, or
as given and filled with what a search around these pins found; `EntriesSound`
says the same of the cache, for the pins in an entry's own key. What an engine
runs with is characterised once (`EffectiveIs`, `TrialRuns`, `TunedRuns`,
`PinsRun`), and a key's pins are read back as they were written
(`ParseFormat`). From these: `PinsAreHonoured`;
`LaunchIsAsMeasured`, by showing that a trial's overrides and the section filled
with the winner make the same effective settings, and that neither tuning nor
the cache touches visits or the human network; `FileIsReplacedWhole`: while no two
stores have shared a temporary file, each has its own, which is empty until it is
written and whole afterwards (`FileSound`); `WinnerIsNearBest`; and
`TrialsRunOut`: a search makes at most 13 trials, whatever they measure. (That
each trial ends is nothing the code promises; hence the timer, and
`BootCompletes` with it.)

The assumptions on the constants are those the code makes of its data: absent
values and unparsable text are no numbers and no candidates
(`NoNumbersAssumption`, `NoneAssumption`), a rate is positive, a host has a core,
slots a number of lanes or none (`LanesAssumption`).

Model-checked only: liveness (`SettlesLifecycle`, `QueueDrains`,
`EveryChangeDelivered`, `ChangeArrives`, `EveryWaiterResolved`,
`EveryCallReturns`, `BootCompletes`), for which the provers have
no rule of fairness and ENABLED here, and the three claims that fail. Every
invariant and action property of a passing run is a theorem.
Inductions over numbers and sequences are done with sets in the place of
predicates (`Least`, `Induct`, `Greatest` in TuneSearch_proofs), because the
library's induction theorems take an operator as a parameter, which no installed
backend instantiates. No module here declares a RECURSIVE operator, which would
cost it the SMT backend; recursion is a function over the naturals.

## 5. Not modelled

* The worker registry: a list for whoever looks at the workers. Nothing that
  leases, analyses or answers reads it, so its model would say nothing about the
  rest; its two ways to keep an entry too long (a full command channel in Drop, a
  cancelled `register`) are under `hazards`.
* The heartbeat's clock. What a slow heartbeat can do is lose a lease, and the
  slips of JobQueue and Cluster do that at any time; how often it happens with a
  timeout of one second would be a question of durations.
* JSON shapes, listings, long polling, dashboard, auth and rate limits, metrics
  and tracing, CLI, benchmark, deployment: they format, count or wire, and keep no
  state a protocol depends on.
* Whether a move is legal: KataGo refuses a query with a move onto a stone or
  against the ko, and the code does not look (`sgf.rs:129-131`). Such a query is a
  refusal of KataGoOwner's, and a pass that fails of AnalysisJob's.
* Within modelled parts: accuracy and the rank estimate (formulas over the
  numbers the model has), cells of grids, komi and rules, how the tuner probes
  its host and counts a window, the texts of reports.

What could come next: a composition of JobQueue with Cluster in place of the
reduced queue, which is beyond what TLC explores in minutes; variants like
`TrialsLeft` for the other components, which is as far as proof can go towards
their liveness here.

## 6. Running it

    tlc -workers 2 -config JobQueue_safety.cfg MCJobQueue
    tlc -workers 2 -config AnalysisJob.cfg MCAnalysisJob
    tlapm JobQueue_proofs.tla
