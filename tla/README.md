# A verification of BitBake's executor, workers and servers

The repository is a manifest of layers (poky, meta-openembedded, a meta-audio
layer and others).  Almost all of it is data: recipes, patches, configuration.
The program in it that has state, processes and protocols is **BitBake**, under
`src/poky/bitbake`.  This directory holds TLA+ models of its core, the *runqueue*
that executes the tasks of a build, of the processes around it (the server that
takes commands, the parsers, the workers and their tasks) and of its two services
(hash equivalence, package revisions), their TLC configurations, and proofs
checked by TLAPS.

Paths below are relative to `src/poky/bitbake/` unless they start with `src/`.

## 1. Inventory

| Component | Where | State | Operations | What is hard |
|---|---|---|---|---|
| runqueue executor | `lib/bb/runqueue.py` `RunQueueExecute`, `RunQueue` | sets of buildable, running, complete, failed tasks; scenequeue sets; `sq_deferred`; `holdoff_tasks`; `stats.active`; `rq.state` | `execute`, exits of tasks, `update_holdofftasks`, `finish`, `finish_now` | exits arrive between the steps of `execute()`; coverage decided piecemeal; deferral and hard dependencies; failures half way |
| scheduler | `RunQueueScheduler` | none of its own beyond caches | `next_buildable_task` | limits computed from sets that disagree after failures |
| scenequeue construction | `build_scenequeue_data` | work lists of a graph walk | `process_endpoints`, unskippable loop | order of dictionaries filled from sets; points visited twice |
| runqueue preparation | `RunQueueData.prepare` | task graph, weights | one pass | sequential, from recipe metadata |
| cooker | `lib/bb/cooker.py` | cooker state, caches | `buildTargetsIdle`, `updateCache`, `shutdown` | shutdown requests between any two steps, from another thread |
| parsers | `lib/bb/cooker.py` `CookerParser`, `Parser` | processes, result queue, locks | `parse_next`, `shutdown`, signals | two threads and several processes over one queue; a process that dies with a lock |
| stamps | `lib/bb/build.py` | stamp files | `make_stamp`, `clean_stamp` | ages decide what is rebuilt |
| bitbake-worker | `bin/bitbake-worker` | child processes, pipes | `runtask`, `finishnow`, `quit`, reaping, flushing | death of any of three kinds of process in the middle of a build |
| hash equivalence in the runqueue | `process_possible_migrations`, `lib/bb/siggen.py` | pending hash updates | migrations | moves running, covered and deferred tasks between all sets |
| hash equivalence server | `lib/hashserv/` | unihash and outhash tables | reports, backfill, garbage collection | concurrent clients, sweep against report |
| PR server | `lib/prserv/` | table of package revisions | allocate, import, export | commit against answer, crash |
| process server | `lib/bb/server/process.py`, `lib/bb/command.py` | sockets, idle functions, current command | dispatch, idle thread, timeout | two threads, a queue of clients that come and go |
| disk monitor | `lib/bb/monitordisk.py` | last free space | `check` | stops or halts a running build |
| RPC | `lib/bb/asyncrpc/` | connections | framing, reconnect | retries |
| everything else | datastore, recipe syntax, cache, event dispatch, fetchers, providers, Toaster, layer index, scripts, OE-Core classes, recipes | | | sequential transformations, I/O or data; not modelled |

### How the parts interact

The cooker's idle thread calls `execute_runqueue` again and again.  Each call
runs one `execute()`: it reads the pipes of the workers (`read_workers`), which
books the exits of tasks; settles or starts at most one setscene task; recomputes
the tasks held off; and skips, completes or starts at most one normal task.  The
workers are separate processes: a task ends at any time, but the executor only
learns of it inside `read_workers`.  The user interface changes the cooker's
state to *shutdown* or *force shutdown* between calls.  Stamp files on disk are
shared by the executor, which reads them, and the workers, which write them.

The idle thread is one of two in the server.  The other, the main thread, accepts
clients and reads their commands.  A command that takes time is recorded and left
to the idle thread, which first parses the recipes, with processes of its own, and
then calls the executor until the build is over.  A shutdown is handled by the main
thread, in the middle of either.

A build asks the hash equivalence server which hash stands for each task, and
reports the outputs of those it runs.  The answers come back into a running build:
`process_possible_migrations` gives tasks new hashes and lets setscene tasks start
over.  The PR service is asked by tasks.

A setscene task restores a task's output from the shared-state cache.  When it
succeeds it *covers* the task and the plain tasks below it, which then need not
run.  The executor runs two graphs at once: the scenequeue (the task graph
collapsed to setscene tasks, walked from the targets down) and the normal queue
(walked from the leaves up).  `holdoff_tasks` keeps the second from running what
the first may still make unnecessary.

### What makes the executor correct

1. A task runs only after its dependencies (`DepsFirst`), and finds their output
   (`InputsPresent`): coverage decisions made at different times agree.
2. A task does not run while a restore may still make it unnecessary
   (`HoldoffRespected`), and nothing is started twice (`StartOnce`).
3. The executor's books are right (`BookkeepingExact`), so that limits hold
   (`ThreadLimit`) and the end waits for all processes (`NothingLeftRunning`).
4. The verdict is right: a build fails only when a task failed
   (`FailedMeansTaskFailed`), a complete build has everything
   (`CompleteMeansBuilt`, `ForcedTargetsRun`), `--continue` builds what it can
   (`ContinueBuildsTheRest`).
5. Every build ends (`Termination`).

### What makes the PR service correct

The service gives every checksum of a package a revision.  Package managers only
upgrade to a higher one, so revisions must not go back (`NoDecrement`), must not
be shared by different contents (`Unique`), and must survive the server
(`CleanStopKeeps`, `CommittedKept`).  A build waits for the answer, so every
request ends (`RequestEnds`).

### What makes the processes of a build correct

An exit code is the only thing the executor knows of a task.  None may be lost
(`NothingLost`) and none may come early (`BookedIsOver`); the workers are dismissed
only when nothing runs (`PoliteEnd`).  When a build is cut short, or a worker dies,
it ends even if its tasks would not (`HaltEnds`), and when the cooker dies the
workers go too (`WorkersFollow`).

### What makes the hash equivalence service correct

Builds reuse each other's results on its word, so it must never equate tasks that
are not equivalent (`Sound`).  It is of use only if all builds are told the same
(`AnswersAgree`) and equal outputs get one hash (`OutputsShare`), and a collection
must not throw away what was in use (`GCKeeps`).  Inside a build, what a changed hash
must not do is take back a result on whose account other tasks were skipped
(`CoveredStays`).

### What makes the server and the parser correct

A command that was accepted is carried out and answered (`Attended`, `Answered`), to
the client that sent it (`OwnEvents`).  A queued client has its turn unless others keep
being served before it (`Served`), a forced shutdown is heard (`ForceHeard`), and a server nobody uses goes away (`NoLinger`).
A parse that says it is complete is complete (`CompleteMeansAll`) and does not fail
for no reason (`OnlyAfterKill`); no signal leaves a lock behind (`StreamLockFree`);
and whatever happens it ends (`ParseEnds`) and takes its processes along
(`ParsersGone`).

The hazards in `PROJECT.json` name the lines where each of these is at risk.

## 2. Modules

| Module | What it is |
|---|---|
| `SceneGraph` | The relations of the collapsed graph, defined by reachability: what each setscene task covers, which setscene tasks need it, the unskippable tasks.  The abstract specification of `build_scenequeue_data`; also used by `RunQueue`. |
| `SceneQueueBuild` | The walk of `build_scenequeue_data` itself, level by level, in any order, on any acyclic graph. |
| `RunQueue` | The executor: `RunQueueExecute`, the scheduler, the stamps, the cooker's idle function and shutdown. |
| `MCRunQueue` | Small builds for TLC. |
| `Migrations` | Extends `RunQueue` by hash equivalence: reports of running tasks and `process_possible_migrations`. |
| `MCMigrations` | Small builds with it. |
| `Worker` | The cooker's end of the pipes, the workers, the tasks' processes and the disk monitor; what can die, dies.  `MCWorker` has its builds. |
| `HashServer` | The hash equivalence server over either database, its upstream server, its administrators and the builds that ask it.  `MCHashServer` has the ways it is set up. |
| `ProcessServer` | The main thread and the idle thread of the server, its clients and their commands.  `MCProcessServer` has the servers and who comes to them. |
| `CookerParser` | The parser processes, their result queue and the two threads that use it.  `MCCookerParser` has the recipes. |
| `RunQueueProofs` | Types, dependency order, holdoff, single start, exact books and the thread limit, for every graph. |
| `PRServer` | The PR service: table, transaction, commits, signals, stop, kill and restart of the server; requests, timeouts and retries of its clients. |
| `PRServerProofs` | No decrement, uniqueness and durability of revisions, for any number of clients. |
| `RunQueueBuildProofs` | The end and the verdict of a build, coverage, inputs and forced targets, for every graph. |
| `MigrationsProofs` | Dependency order, holdoff, single start and what is covered, with hash equivalence, for every graph and every report. |
| `WorkerProofs` | No exit code early or lost, polite end, for any number of workers and tasks. |
| `HashServerProofs` | Soundness, agreement, sharing and collections, for any number of builds. |
| `ProcessServerProofs` | No command forgotten or told to another client, for any number of clients. |
| `CookerParserProofs` | The verdicts of parsing, the lock and the end of the parsers, for any number of parsers and recipes. |

### RunQueue: state

| Variable | Code |
|---|---|
| `opt` | `cooker.configuration` (`halt`, `force`, `skipsetscene`, `setsceneonly`) and `BB_SETSCENE_ENFORCE`; chosen in `Init`, never changed |
| `state` | `rq.state` from `runQueueRunning` on |
| `pc` | where the executor's thread stands: between calls, in one of the three reads, in the setscene loop, at `update_holdofftasks`, at scheduling |
| `shutdown` | the cooker's shutdown state |
| `procs` | processes in the workers; `build_stamps` is derived from it |
| `runq_*`, `failed_tids`, `active` | the sets of the same name, `stats.active` |
| `sq` | `sq_buildable`, `sq_running`, `sq_live`, `scenequeue_covered`, `scenequeue_notcovered`, `tasks_scenequeue_done`, `sq_needed_harddeps`, `sq_harddep_deferred`, `outrightfail`, `holdoff_need_update` |
| `sq_deferred` | the dictionary; `None` (0) when there is no entry |
| `tasks_covered`, `tasks_notcovered`, `holdoff_tasks`, `sqdone` | the same |
| `nstamp`, `sstamp` | age of the stamp and of the setscene stamp of a task: none, old, new |

### RunQueue: actions

| Action | Code |
|---|---|
| `execute_runqueue` | `buildTargetsIdle` up to the first read, including `finish_runqueue` for a requested shutdown |
| `ProcessExit` (`SetsceneExit`, `TaskExit`, `TaskExitFailed`) | one exit code handled in `runQueuePipe.read` → `runqueue_process_waitpid` |
| `ReadReturn` | `read_workers` returns |
| `SceneNotNeeded`, `SceneHardDefer`, `SceneSettle`, `SceneStart`, `SceneNone` | the outcomes of the setscene loop of `execute()` |
| `HoldoffStep` | `update_holdofftasks` and the end of the setscene phase |
| `SchedRefuse`, `SchedSkip`, `SchedNoExec`, `SchedStart`, `SchedNone` | the rest of `execute()` |
| `RequestShutdown` | the user interface stops the build, politely, then by force |

The setscene loop and `task_completeoutright` are each one step: everything the
code does before it can next see an exit is in the action, including the
recursive failures through hard dependencies (`FailSet`), the walk that marks
plain tasks done (`DoneWalk`), and the release of a deferred task.  `DoneWalk`,
`FailSet` and the definitions of `SceneGraph` are least sets closed under a rule
rather than recursions, which lets the proofs reason about them.

### Abstractions

* Hash equivalence is off: `updated_taskhash_queue` stays empty and
  `process_possible_migrations` does nothing.  `Migrations` adds it.
* The task graph, the hard dependencies and the equality of hashes are constants.
* The priorities of the schedulers, the hash check (`valid`), the `depvalidate`
  hook behind `check_dependencies` and the pressure limits are nondeterministic.
  Pressure may hold tasks back only while one is active, as in the code.
* A task makes its stamp when its exit is read, not when the process ends: the
  executor reads no stamp in between for tasks that are running.  `stampcache` is
  not modelled; stamps are evaluated anew.
* `finish_now` kills the processes and ends the executor in one step; `Worker` has
  the details.
* `sorted()` picks the first of a set; `First` is a fixed `CHOOSE`.  `failed_tids`
  is a set.
* Builds with no task at all (`stats.total == 0`), `--dump-signatures` and a failing
  start of the fakeroot worker are left out; the death of a worker is in `Worker`.

### Migrations

`Migrations` adds three variables, `updated_taskhash_queue`, `pending_migrations`
and the local `changed`, and these actions to those of `RunQueue`:

| Action | Code |
|---|---|
| `Report` | a `taskUniHashUpdate` found by `runQueuePipe.read` |
| `Rehash` | `process_possible_migrations` down to the loop that recomputes hashes |
| `Migrate` | the rest of it: which tasks are too late, wait, or start over; `update_scenequeue_data`; failures through hard dependencies; new deferrals |
| `HoldoffWaits` | the setscene phase does not end while there are reports |

Every behaviour of `RunQueue!Spec` is one of `MSpec` without reports.  A hash is
abstracted to whether it changes; under its new name a task may find stamps of an
earlier build, but not if it is tainted, because a tainted hash is new.  Which reports
change anything, and for which of the tasks above the server knows another unihash,
is open.  The report of a task that failed stays in the queue for ever, in the code
as in the model.  The branch "needing to rerun? Halting build" is not followed
further: `CoveredStays` says it is not reached, and is proved.

### Worker

| Variables | Code |
|---|---|
| `state`, `live`, `given`, `failed`, `teardown`, `started` | `rq.state`, `stats.active` with `sq_live`, the tasks sent, `failed_tids`, `rq.teardown`, the keys of `rq.worker` and `rq.fakeworker` |
| `pc`, `todo` | the executor's thread, and the workers its loop has still to visit |
| `checked`, `trigger` | the disk monitor's record of what it has acted on, and what it finds broken |
| `request` | the cooker's shutdown state |
| `stdin`, `eof`, `stdout` | the two pipes of a worker |
| `wpc`, `rank`, `queue`, `build_pids`, `hunt`, `dying`, `outq` | a worker's main thread, its input, its children, the loop of `handle_finishnow`, and `worker_queue` |
| `child`, `term` | a task's process from fork through `prctl` and `setsid` to its end and the `waitpid` |

| Actions | Code |
|---|---|
| `buildTargetsIdle`, `EnterRunqueue`, `SendTask`, `SendNone`, `FinishStep`, `Return` | one call of the idle function, with one send at most |
| `read` | `runQueuePipe.read` for one worker: poll all, then book what is in the pipe |
| `TeardownSend`, `TeardownRead`, `TeardownEnd` | `_teardown_worker`, `teardown_workers` |
| `DiskCheck`, `DiskEntry` | `diskMonitor.check`, called by the cooker's heartbeat |
| `Select`, `handle_runtask`, `handle_finishnow`, `Kill`, `WaitAny`, `handle_quit`, `EndPass`, `process_waitpid`, `Exit` | the loop of a worker |
| `worker_flush` | its writing thread |
| `ChildStart`, `ChildExit`, `ChildTerminated`, `ForkFails` | a task's process |
| `CookerDies`, `WorkerDies` | a kill from outside |

A forced shutdown sets `bb.event._should_exit`, and the next `_execute_runqueue`
raises in `check_for_interrupts`; the handler tears the workers down.  Which task is
sent when is `RunQueue`'s business and open here.

### HashServer

The database is `created` (when the row of a task and an output was made), `uni` and
`mark` (the unihash and the mark of a task's row) and `gc` (the current mark).  A
request is a chain of steps, one for each `await`.  The coroutines of `sqlite.py`
never suspend, so over that database a handler keeps the loop (`loop`) until it ends
or asks upstream; over `sqlalchemy.py` another handler may run at each transaction.
`Build` has the requests of builds, `Handler` their continuations, `Admin` the
collections and removals.  `Class` says which tasks really are equivalent; builds only
report outputs their task can have.  `said` and `kept` record what builds were told and
what a collection has promised to keep.  `insert_outhash` of `sqlite.py` takes every
row to be new (it compares `lastrowid` with the value before, on a new cursor), and
the model does too.

### ProcessServer

`mpc` is the main thread, `ipc` the idle thread; `idlefuns`, `async`, `state`,
`interrupt` and `parser` are shared.  Each critical section of `_idlefuncsLock` is
part of one step, and so is each handler of a synchronous command.  `plan` is what the
idle thread does after an idle function has returned, which takes several steps: remove
the function, fire the end, `finishcommand`, `clear_async_cmd`.  `set_async_cmd` and
`wait_for_idle` may time out at any moment while the condition is false.  A client
connects, sends, and leaves or is killed; a client that is owed an answer does not
leave by itself.  `Clients` are names of connections: once the server has closed its end
(`Holds`), the name is free for the next client, so clients come again without end.
`setup` is the server's timeout and what each client may send.  `heard` and `owed` tell
connections apart: an end that is told to a connection that was not owed one is `None` in
`heard`, and `OwnEvents` forbids it.

### CookerParser

`multiprocessing.Queue` is external: `put` appends to a buffer, a feeder thread writes
it under a lock that all processes share to a pipe that holds `PipeCap` results, and
`get` does not time out inside a message.  `parse_generator` is split where it looks
at one process, removes it, waits for a result, or finds none in time.  Both threads may be in
`shutdown` (`stage`, `at`); its loops run by index over the list `processes`, which
`parse_generator` may shorten meanwhile, as in Python.  A signal is deferred while a
parser sends an event (`catch_sig`).

### SceneQueueBuild

`CollectEndpoints` builds the first level, `process_endpoint(point)` is one
iteration of the loop in `process_endpoints`, `NextLevel` its recursive call,
`StartUnskippable` and `GrowUnskippable` the loop that closes `unskippable`,
followed by the check for "Something went badly wrong".  The graph is a variable
chosen in `Init`, so one run covers all graphs of its size.

### PRServer

| Variable | Code |
|---|---|
| `disk`, `rows` | the committed table, and the table in the transaction of the server's one connection |
| `dirty`, `read_only` | `PRTable.dirty`, `PRServer.read_only` |
| `srv` | the process: serving, told to stop, stopped with its database closed, gone |
| `inbox` | requests the server has not read yet, each with the client's connection it came on |
| `pc`, `req`, `count`, `conn`, `answer` | a client in `_send_wrapper`: its request, retries, current connection and what arrived on it |
| `high`, `floor`, `given`, `imported`, `lost`, `crashes` | history, for the properties only |

`handle_get_pr` and `handle_import_one` are one step each, because the handlers
never await; so are `signal_handler`, `stop` and `start`.  `DispatchRaises` is the
`except` branch of `dispatch_message`; its `else` branch is dead code and has no
action.  A client's steps are `Issue`, `Connect`, `Refused`, `TimedOut` and
`Receive`.  A client that closes its connection leaves the request behind, and the
server may still handle it.

Left out: the requests that only read; history mode, which `PRServer.start` never
selects; the daemon's pid file; other (version, pkgarch) pairs, which no query
relates; loss of committed data when the machine fails (the code sets
`synchronous = off`).  A server is given a database that no other process locks.

## 3. Runs

| Run | Instance | Shows |
|---|---|---|
| `scenequeue_build` | all acyclic graphs of 4 tasks, all choices of setscene tasks and targets, all orders | the walk computes `SceneGraph` (`ComputesSceneGraph`), of which the absence of the fatal branch is a part |
| `diamond` | `Migrations`: two setscene tasks with a hard dependency cover one task, which is also a target and nostamp; a setscene target above; any old stamps; plain, `--force`, `--skip-setscene`; any reports | order, inputs, holdoff, books, verdict, nothing left running, forced targets run, nothing started twice, what is covered stays covered |
| `twin` | `RunQueue`: two multiconfigs with equal hashes: deferral together with a hard dependency, a noexec task; plain, `--continue`, `--setscene-only`, enforce; with fairness | thread limit, no failed restore passes for a success, a complete build is built, `--continue` builds the rest, termination |
| `pr_service` | two clients, two checksums, an empty or used database, writable or read only; timeouts, duplicates, imports, stops, a kill, restarts; with fairness of the clients | no decrement, unique revisions, nothing lost by a stop, commits only raise, every request ends |
| `worker` | three builds over two workers, see `MCWorker`; a worker dies, the cooker dies, the disk monitor stops and halts, the user stops or forces; with fairness | no exit code early or lost, polite end, a halted build ends, workers follow the cooker |
| `hash_server` | seven uses of a server over each of the databases, see `MCHashServer` | soundness, agreement, sharing, collections keep what they promised |
| `server` | three uses of a server, see `MCProcessServer`: two clients with two commands on each connection, without and with a timeout, and three that take turns; all come back again and again; with fairness | no command forgotten, lost or mixed up, queued clients served, forced shutdown heard, server goes away |
| `parser` | two parsers with three recipes; a recipe breaks, a parser is killed, or the main thread shuts down; with fairness | complete means all, incomplete only with a reason, no lock left, no process left, it ends |

Four more runs, in section 4, end in a violation.

`AnswersAgree`, `OutputsShare` and `GCKeeps` are about sqlite
and, the first two, a server without upstream: with suspensions in the middle of a
report two builds can insert different unihashes for equal outputs, and an upstream
server may change its mind between an answer and the backfill.  `Sound` holds for all
of them.  `InputsPresent` holds in `diamond`, where every task with an unavailable hard
dependency shares it with the tasks it needs; section 4 has a build with migrations where
it fails.  `ShutdownMode` fails (section 4); `ForceHeard` is what is left of it.

Each module has a type invariant `TypeOK` (except `CookerParser`).  Those of `RunQueue`,
`PRServer`, `Worker`, `HashServer` and `ProcessServer` are proved; TLC found no violation
of the others on the instances of the runs.

`NoDecrement` and `Unique` say nothing of a read-only server, which answers
`max+1` without storing it: asked for two checksums in turn, it can answer a lower
revision second, and the same one for both.

`ThreadLimit` and `Termination` are checked under enforce only together with
halting at the first failure and with the graph of `twin`; section 4 shows what happens
otherwise.  `CompleteMeansBuilt` leaves enforce out, because a failed restore
then stops the build with no entry in `failed_tids`, and the build ends
`complete`.

### Bounds

Five tasks (four for `scenequeue_build`) are the least number that gives each
build its shape: a plain task below two setscene tasks, a setscene target, a hard
dependency next to a deferral, with something above and below.  In `diamond` the
output of one setscene task changes the hash of another while the task that one
covers is running.  Two threads are
the least for which setscene and normal tasks run side by side and compete for
the limit.  `ActiveFloor` bounds how far `stats.active` falls below zero; only enforce
reaches negative values, and only the sign matters to the code.  All other state
is finite by itself.  Deadlock is checked in every run of these: a build that has
ended stutters in `Finished`, and every other state has a step.  `diamond` has
2.4 million states; termination with migrations is beyond what TLC's liveness check
does in reasonable time, so `Termination` is checked without them.

`Worker`: two tasks (a task that was booked next to one that runs; a task in each
of a normal and a fakeroot worker), one worker's death (`MaxDeaths`).  `HashServer`:
two tasks with one output, or two with different ones; `MaxNow` rows of outputs, enough
for one each; one item in the backfill queue (`MaxQueue`).  Collections, restarts,
removals and requests are not bounded.  `ProcessServer`: two commands per connection
(`MaxSent`), so that one arrives while another is carried out; connections are not
bounded, since clients come back, but no more than three are open at once: one that is
served, one that waits, and one that comes and is served before it.  `CookerParser`: one
result in the pipe (`PipeCap`), so that a feeder blocks while another has more to
write; one parser with one recipe and one with two, so that one ends first.  Deadlock
is not checked there: it stops when all is over.

`PRServer`: two requests in all (`MaxIssues`), each sent at most twice (`MaxCount`
is 1; 3 in the code), so that a request may begin after another was answered while
a duplicate of that one is still unread, and up to two unread requests per client
(`Sockets`).  One kill (`MaxCrashes`); stops and restarts are not bounded.
`MaxValue` is above what these requests can reach.  The safety properties are
proved for all bounds.  Deadlock is not checked in `pr_service`: the service may
rest when all requests are done.

### Fairness

`Fairness` is weak fairness of the executor and strong fairness of exits.  The
server's idle thread calls the idle function again as long as it asks for it,
and one thread runs it, so an enabled executor step is taken.  A running task
ends eventually (the code sets no limit on it, but a build with a task that hangs
is not expected to end).  Its exit is only seen while the executor reads, which
it does again and again, and a read handles all that is in the pipe: enabled
infinitely often, the exit is handled.  In `PRServer` only the clients are fair:
every await of `_send_wrapper` ends with data, with the end of the connection or
after the timeout of 30 seconds.  Nothing is assumed of the server.

In `Worker` every thread of the executor and the workers is weakly fair, and so are
the first steps of a task's process and its death after SIGTERM.  That a task ends by itself is
*not* assumed, so `HaltEnds` covers tasks that hang.  In `ProcessServer` both threads
are weakly fair (a wait on the condition variable ends with the notification or
the timeout); parsing ends, a client that is owed nothing leaves, and builds end
except after a forced shutdown, which has to work without that.  In `CookerParser` the
idle thread, the main thread while it is in `shutdown`, every parser and every feeder
thread are weakly fair; a parser that blocks on a lock or a full pipe is not enabled.

## 4. Where the code and its documentation disagree

Each of these has a run that TLC refutes with the smallest trace.

| Run | Property | What happens |
|---|---|---|
| `dependency_not_met` | `InputsPresent` | With migrations.  3 is a hard dependency of 4, and 1 of 2, which only 4 needs.  3 cannot be restored, so 4 fails with it; 2 waits for 1.  3 runs and its output gives 4 a hash under which an earlier build left a stamp.  `process_possible_migrations` lets 4 start over: `update_scenequeue_data` finds the stamp and marks it covered, and then `harddepfail` marks it not covered as well.  2 is skipped, because 4 is covered and needs nothing; 4 runs, because it is not covered, without what 2 provides. |
| `pr_killed` | `NeverDecremented` | `dispatch_message` returns from its `try`, so `sync_if_dirty` in the `else` branch never runs and answers are not committed.  A killed server forgets the revisions it gave and hands out lower ones, which `db.py` says can not happen. |
| `halt_after_stop` | `HaltEnds` | The user has asked the build to stop, so every call runs `finish()`.  The disk monitor halts the build: `finish_now` ends it and the workers reap the tasks they kill.  The next `finish()` makes the state cleanup again and waits for exit codes that never come. |
| `shutdown_lost` | `ShutdownMode` | `updateCache` looks for a shutdown, then assigns `state.parsing`, and later `state.running`.  A shutdown handled by the main thread in between is overwritten. |

Others were met while modelling.  The models contain them; the properties are stated
so that they hold beside them.

* Without migrations, too, a setscene task can end up covered and not covered: a deferred one that
  fails through a hard dependency keeps its entry in `sq_deferred` (`runqueue.py:2751`); it runs as
  a normal task; when the task it was deferred after completes, it is released, its stamp is found
  and it is marked covered (2831).  The comment at 2154 calls that "a bug".  TLC finds it when it
  checks `CoverExclusive` on the build of `twin` with `PlainOnly`.  `StartOnce` and `CoveredIsPresent`
  hold even so: they are proved without any hypothesis about hashes.
* Under `BB_SETSCENE_ENFORCE` a refused task is taken off `stats.active` without having
  been counted (`runqueue.py:2343`); `finish()` can then end while a process runs, and
  with `--continue` the same task is chosen and failed again in every call.  The
  theorems about the books hold until a task has failed under enforce, and `twin`
  combines it with halting only.
* `bitbake --setscene-only` on a build without setscene tasks: the phase is over at the
  start (`runqueue.py:1613`), so the end of the build is found by the scheduler, whose
  sanity checks (2422) miss every task, and it is reported failed though none failed.
* With `--continue` a failed task occupies its `[number_threads]` slot for ever
  (`runqueue.py:256`).  The builds here have no such limits.
* The cache of stamps "so duplicates can't run in parallel" (`runqueue.py:2917`) holds
  normal stamps, and running setscene tasks are entered under their setscene stamps
  (2306): two with one stamp file run in parallel.
* HALT listed before STOPTASKS in `BB_DISKMON_DIRS`, when both thresholds break in one
  check, hangs as `halt_after_stop` does.
* A failing exit code that is read during the teardown after `finish_now` comes too late
  for the verdict, and the build ends without it.  A task that has not called `prctl` yet
  survives its worker.  `worker_flush` tries a broken pipe again and again while the
  worker's main thread joins it: `WorkersFollow` stops short of it.
* `handle_clean_unused` subtracts a negative age (`hashserv/server.py:616`), so it
  also deletes what is younger than `max_age`.  `report_readonly` answers with the unihash
  of the oldest row with that output even where the task has another.  `get_unihash`
  does not expect an upstream server that knows nothing (346), and an exception in
  `backfill_worker_task` ends the server.
* Over `sqlalchemy.py`, a collection that begins between the two transactions of
  `handle_gc_sweep` is swept in place of the one that was asked for.
* Commands a client has sent and the server has not read are dropped when it
  disconnects.
* Queued clients are served last come, first served (`newconnections.pop(-1)`,
  `process.py:226`), so one may wait for ever while two others take turns: TLC refutes
  `conn[c] = "asked" ~> conn[c] # "asked"` with the clients of `server`.  No document says
  that clients are served in order.  `Served` is what is left: a client only waits for
  ever if the server turns again and again to clients that came after it.
* While the main thread's `CookerParser.shutdown` loops over `self.processes`,
  `parse_generator` may remove an entry (`cooker.py:2261`): the loop then skips a parser,
  which is not signalled, and `join` waits for as long as it parses.  The variable
  `shortened` marks these behaviours, and `ParsersGone` and `ParseEnds` leave them out.
  `ParseEnds` also leaves out a parser that dies while its feeder thread writes to the
  result queue (`Jammed`), whose lock nobody can release.  It need not be killed from
  outside: the `terminate` of bitbake's own `shutdown` may hit it there.
* After the last failed attempt `_send_wrapper` raises before it closes the connection
  (`client.py:152`); the model closes it, because no caller under `src/` uses a PR client
  again after that.
* `teardown_workers` closes pipes that the server may still select on; an exception there
  ends the build, as `TeardownEnd` does.

## 5. Proofs

The theorems about the executor hold for every finite task graph, every set of setscene tasks, hard
dependencies, equal hashes, every number of threads and every combination of
options, under the assumptions named in `RunQueue` (`GraphAssumption`,
`AcyclicAssumption`, `SceneAssumption`, `LimitAssumption`, `OptionAssumption`), which TLC
evaluates on each run.  `AcyclicAssumption` is what `calculate_task_weights` refuses to go
on without (`runqueue.py:595`); only the theorems about the end of a build use it.  Those of
`RunQueueProofs` and `RunQueueBuildProofs` are about `RunQueue!Spec`, builds without
migrations; those of `MigrationsProofs`, further down, are about `MSpec`.

| Theorem | States |
|---|---|
| `TypeCorrect` | `Spec => []TypeOK` |
| `DependenciesFirst` | `Spec => []DepsFirst` |
| `HoldoffWorks` | `Spec => []HoldoffRespected` |
| `StartedOnce` | `Spec => StartOnce` |
| `BooksExact` | `Spec => [](Counted => BookkeepingExact)` |
| `ThreadsBounded` | `Spec => [](Counted => ThreadLimit)` |

`Counted` is `~Enforce \/ failed_tids = {}`.  The theorems of `RunQueueBuildProofs`:

| Theorem | States | Hypotheses |
|---|---|---|
| `OnlyTasksFail` | `Spec => []((SetsceneOnly => SetsceneTids # {}) => FailedMeansTaskFailed)` | `HardDepsAcyclic` |
| `CompletedIsBuilt` | `Spec => []CompleteMeansBuilt` | |
| `NothingRunningAtEnd` | `Spec => [](~Enforce => NothingLeftRunning)` | |
| `ContinueBuilds` | `Spec => [](~Enforce => ContinueBuildsTheRest)` | `HardDepsAcyclic`, no `[number_threads]` |
| `CoveredPresent` | `Spec => []CoveredIsPresent` | |
| `DecidedOneWay` | `Spec => []CoverExclusive` | `UniqueHashes` |
| `InputsThere` | `Spec => []InputsPresent` | `UniqueHashes` |
| `ForcedTargets` | `Spec => []((~SetsceneOnly /\ ~Enforce) => ForcedTargetsRun)` | `UniqueHashes`, no target is both a setscene task and noexec |

**Dependency order.**  `DepsFirst` is not inductive; `DepsInv` adds that every
member of `runq_buildable` has complete dependencies and that what runs is
buildable.  `runq_buildable` grows in two places, `task_completeoutright` (lemma
`CompleteOutright`) and `update_holdofftasks`.

**Holdoff and books.**  They need each other, so `BookInv` proves them together.
An exit is booked by asking whether the task is in `sq_live`; that is right only
if no normal process of a live setscene task runs, which holds because live tasks
are undecided and undecided tasks are held off.  In turn, live tasks stay
undecided because a failing setscene task drags down only tasks with an unsettled
hard dependency (`FailSetBound`), and a live task was started with all of them
settled.  `HoldoffOK` says that `holdoff_tasks` is an upper bound of what is
still open, or `holdoff_need_update` is set; when the scheduler runs it is always
an upper bound.  A completion releases a deferred task, but a live task is never
deferred (`CompleteOK`).

**Counters.**  `CountInv` adds that `stats.active` counts the normal processes and
that the processes are `active` plus the live setscene tasks; each start was
allowed by `can_start_task`.  Enforce is excluded once it has refused a task, because
`SchedRefuse` breaks the count: section 4 describes it.

**The end of a build.**  `BuildInv` relates the scenequeue to the normal queue: the
records of `sq` agree (`SqFix`), the sets of covered and uncovered tasks follow from the
decisions made (`Computed`), a task whose dependencies are complete and that may run is
buildable (`Ready`), and the scheduler is only reached when the setscene loop found no
candidate (`Scanned`) and, before `sqdone`, some setscene task is live or deferred or some
task is held off.  With
`CtrlInv` (the state is cleanup only for a reason) it gives lemma `Ends`: a build ends in one of four ways, by a
forced shutdown, through `finish()`, at the end of the setscene phase of
`--setscene-only`, or at the end of `execute()`.

* In the last case nothing runs and the scheduler has no candidate (`SchedQuiet`).  Take
  the tasks that were not completed, and by `AcyclicAssumption` one of them with no
  dependency among them: it is buildable and not held off, hence a candidate, unless it
  failed or needs a task that did (`Startable`).  That no task is held off for ever
  is lemma `Progress`: among the undecided setscene tasks some are needed by settled ones
  only, and among those one waits for no other through a hard dependency; the setscene
  loop would have taken it.  That each task is below a settled setscene task or unskippable is
  `EveryTaskReached`, by acyclicity again.  So the sanity checks do not fire
  (`NoSanityErrors`): `OnlyTasksFail`.
* `ContinueBuilds` follows the same argument among the tasks that need no failed one.
* In the other cases the books of `CountInv` say that nothing runs, or `finish_now` has
  killed it: `NothingRunningAtEnd`.

**What a task finds.**  `PresentInv`: a setscene task counts as covered only with a stamp
of its own, or because all that need it are covered; hence `CoveredPresent`.  `DecideInv`:
without deferral a setscene task is decided once.  `CompleteInv`: a task is complete
because it ran or because it is rightly skipped, that is, below settled setscene tasks of
which none is uncovered.  A task that runs is not covered itself, and if it has a setscene
variant, that one failed or was not there; either way a dependency that was skipped
has its output, because a setscene task that something uncovered needs
directly can only be covered with a stamp: `InputsThere`.  `ForceInv`: the setscene
variant of a forced target is neither tried nor used, so the target can only be complete
because it ran: `ForcedTargets`.

**The hypotheses.**  `HardDepsAcyclic` is not checked by the code: the metadata's
`setsceneweight` function decides which dependencies between setscene tasks are hard, and
two that wait for each other would never be tried.  `UniqueHashes` says that no two setscene
tasks have the same hash, which happens only across multiconfigs; with equal hashes
the second task is deferred and may be decided twice (section 4), and
`CoverExclusive` is false.  Whether
`InputsPresent` and `ForcedTargetsRun` hold nevertheless is not proved, and no run asks it
of equal hashes; TLC found no violation of either on builds like those of `twin`.  The limits of `[number_threads]` are excluded from
`ContinueBuilds` because failed tasks occupy them, `--setscene-only` without setscene tasks
from `OnlyTasksFail` (section 4).  A forced target that has a setscene variant and the noexec flag
is not tainted, so an old setscene stamp covers it; a noexec task has nothing to restore,
and a setscene variant of one would be a slip in the metadata that the code does not check.

### The executor with hash equivalence

The theorems of `MigrationsProofs`, for any reports in any order:

| Theorem | States | Hypothesis |
|---|---|---|
| `MTypeCorrect` | `MSpec => []TypeOK` | |
| `DependenciesFirstRehashed` | `MSpec => []DepsFirst` | |
| `CoveredStaysCovered` | `MSpec => CoveredStays` | `UniqueNames` |
| `HoldoffRespectedRehashed` | `MSpec => []HoldoffRespected` | `UniqueNames` |
| `StartOnceRehashed` | `MSpec => StartOnce` | `UniqueNames` |

A setscene task that starts over takes a decision back, which breaks much of `BookInv` and
`BuildInv`: tasks it covers may be complete, and hard dependencies of settled or live tasks
may be open again.  `MInv` says what is left.  `SceneInv`, `ProcInv`: what
is settled or live was found, a live task is not covered, every process belongs to a live
or a running task.  `OpenInv`: an undecided setscene task has not been started, and nothing
it may cover is started but not complete; the checks of `Migrate` (too late, blocked by a
running task) keep it when a task starts over.
`UpToDate`: when the scheduler runs, `holdoff_tasks` bounds what is open and the sets of
covered and uncovered tasks follow from the latest decisions; every migration sets
`holdoff_need_update`.  `PendingInv`: what waits to migrate is neither covered nor live, and outside
`process_possible_migrations` it is in `notcovered`.  `CompleteInv`, as above: a task is
complete because it ran or was rightly skipped.

From these, lemma `NobodyReruns`: a task that was skipped is below settled setscene tasks
only, none of them uncovered, while a task that migrates is undecided or not covered, so it
covers no skipped task, and the branch "needing to rerun? Halting build" is never reached.

`UniqueNames` says that no two setscene tasks are the same task of the same recipe, which
holds in a build of one multiconfig; only such tasks can come to have equal hashes, and
then one is deferred and may be decided twice.  `diamond`, which has two such tasks, checks the
three properties without it.

`InputsPresent` and `CoverExclusive` are not among these theorems because they are false with
migrations, even for one multiconfig (`dependency_not_met`).  The books (`BookkeepingExact`)
and the verdict are only checked by `diamond`.  The proof of the books for `RunQueue!Spec` rests on
the hard dependencies of a live task being settled (`LiveOK`), so that it cannot fail while
it is live.  With migrations one would have to show that a hard dependency that starts over
has no live task waiting for it, which comes down to the ages of stamps; TLC found no
violation on builds like that of `dependency_not_met` from any old stamps.

The invariants were also evaluated by TLC on the builds before they were proved.

### The PR service

For any sets of clients and checksums and any bounds (assumptions
`ChecksumAssumption`, `ValueAssumption`, `CountAssumption`, `ImportAssumption`,
`InitAssumption` in `PRServer`):

| Theorem of `PRServerProofs` | States |
|---|---|
| `TypeCorrect` | `Spec => []TypeOK` |
| `RevisionsNotDecremented` | `Spec => []NoDecrement` |
| `RevisionsUnique` | `Spec => []Unique` |
| `StopLosesNothing` | `Spec => []CleanStopKeeps` |
| `CommitsOnlyRaise` | `Spec => CommittedKept` |

`CommitInv`: the transaction is never behind the database, and equals it when
`dirty` is not set, the server is read only or does not serve.  From it,
`CommitsOnlyRaise`.  `HighInv`: until a kill loses rows, everything answered or
received is at most the highest row; with `CommitInv`, `StopLosesNothing`.
`ConnInv`: the unread request on a client's current connection is the one the
client waits for, so that a late duplicate cannot answer another request; with
`HighInv`, `RevisionsNotDecremented`.  `OwnerInv`: the rows differ, and only its
own checksum's row can have the value of a revision that was given; a new one is
above all of them.  TLC evaluated the four on `pr_service`'s instance first.

### The workers

For any sets of tasks and workers and any number of deaths (`WorkerAssumption`):

| Theorem of `WorkerProofs` | States |
|---|---|
| `TypeCorrect` | `Spec => []TypeOK` |
| `Invariant` | `Spec => [](TypeOK /\ LedgerInv /\ ExecInv /\ HuntInv /\ FoundInv)` |
| `Booked` | `Spec => []BookedIsOver` |
| `Found` | `Spec => []NothingLost` |
| `Polite` | `Spec => []PoliteEnd` |

`LedgerInv` says where a task can be: a task that waits in a pipe or a queue waits there
once and was never forked (`MailInv`), what was not sent is nowhere (`SentInv`), and an
exit code on its way back belongs to a process that was collected (`ReportInv`).
`BookedIsOver` is the part of it that the executor relies on.  `ExecInv` says that,
unless the build is cut short, the executor decides and tears down only when it waits
for no task; `HuntInv` that no worker gets `finishnow`, sees the end of its input or
hunts its children before that.  So in a build that is not cut short nobody discards
a task or an exit code (`FoundInv`), and no process is left when the workers are dismissed.

### The hash equivalence server

For any sets of clients, tasks, outputs and marks, and any set-up of the server:

| Theorem of `HashServerProofs` | States |
|---|---|
| `Core` | `Spec => [](TypeOK /\ HandlerInv /\ ClassInv)` |
| `TypeCorrect` | `Spec => []TypeOK` |
| `Soundness` | `Spec => []Sound` |
| `Agreement` | `Spec => []AnswersAgree` |
| `SweepKeeps` | `Spec => GCKeeps` |
| `Sharing` | `Deterministic => (Spec => []OutputsShare)` |

`TypeOK` is not inductive: a handler that goes on after an `await` uses what it read
before.  `HandlerInv` says what a handler holds at each of its calls.  `ClassInv` follows
a unihash wherever it is kept, in the database, in a handler, with the backfill task and
upstream, and says that it is of the class of its task.  `AloneInv` says that over sqlite
without upstream one handler at most is under way, which is why the answer of
`handle_report` is the row's.  `GCInv` says that what a collection keeps has its mark, until
the sweep or a new collection.

`OutputsShare` needs a hypothesis the instance of `hash_server` satisfies, `Deterministic`:
a task that can have the only output of another task always has that output.  Without it
TLC finds a counterexample on a larger instance.  Tasks `a` and `b` have the output `x`, `c`
has `x` or `y`.  `c` reports `x`, and an administrator removes its unihash; `a` reports `x`,
finds nobody and keeps its own unihash; `c` gets a unihash again by reporting `y`.  Now `b`
reports `x`: the oldest row with `x` is that of `c`, so `b` gets the unihash of `c`, and `a`
has another.  This is a loss of reuse only, and `Sound` holds regardless.  Under `Deterministic`, `ShareInv` says
that a task with a unihash and one output has a row with that output, and that a report
about to insert a unihash has found what the others have.

### The process server

For any set of clients, any servers and any bound on their commands (`NoneAssumption`,
`SetupAssumption`, `BoundAssumption`):

| Theorem of `ProcessServerProofs` | States |
|---|---|
| `Invariant` | `Spec => [](Types /\ DoorInv /\ WorkInv /\ OwedInv)` |
| `TypeCorrect` | `Spec => []TypeOK` |
| `NoneForgotten` | `Spec => []Attended` |
| `OnlyOwn` | `Spec => []OwnEvents` |

`DoorInv`: the current command is the one of the client behind the command channel, or
nobody is there any more because a disconnect gave up waiting and the server quits.
`WorkInv`: for every place of the idle thread, and every step left of what it does after an
idle function returned (`plan`), which functions are registered and whether there is a
command.  It is needed because `idlefuns` and `async` are changed by both threads in different
critical sections.  `OwedInv`: as long as the end has not been fired, the client behind the
command channel is still owed it, unless it has left.  It separates connections: a client
that comes back is not behind the command channel, and the next one only gets there when
there is no command.

### The parsers

For any finite sets of parsers and recipes, any distribution of the recipes and any
capacity of the pipe (`ParserAssumption`):

| Theorem of `CookerParserProofs` | States |
|---|---|
| `Invariant` | `Spec => []IInv` |
| `Complete` | `Spec => []CompleteMeansAll` |
| `Incomplete` | `Spec => []OnlyAfterKill` |
| `LockFree` | `Spec => []StreamLockFree` |
| `Gone` | `Spec => []ParsersGone` |

`SingleInv`: a recipe is in one place at most (a parser's list, being parsed, a buffer, the
pipe, the cache), so every result that is counted is a new one (`CountInv`), and the counter
can reach the number of recipes only when all are there: `Complete`.  `CalmInv`: as long as
nobody kills a parser or shuts down, a recipe is in one place at least, and when
`parse_generator` has seen an empty queue after the last process left the list, the pipe is
empty.  Dead parsers have nothing left (`HoldInv`), so nothing is missing: `Incomplete`.
`LockInv`: who holds the lock of the event stream is sending, or was killed.  `ListInv`,
`JoinInv` and `AfterInv`: only dead processes are off the list, the last loop of `shutdown`
leaves dead ones behind, and once `haveshutdown` is set some thread is still at it or no
parser is left; hence `Gone`, although the second thread returns at once.

These invariants too were evaluated by TLC on the instances of the runs before they were
proved.

**Only model-checked.**  Liveness (`Termination`, `RequestEnds`, `HaltEnds`,
`WorkersFollow`, `Answered`, `Served`, `NoLinger`, `ForceHeard`, `ParseEnds`) needs
fairness and ENABLED, which this prover does not handle.  `ComputesSceneGraph` is about
what a walk over arbitrary graphs computes and needs induction over the graph.  With
migrations, the books, the verdict and the forced targets are only checked (`diamond`), and so
is `ThreadLimit` once enforce has refused a task (`twin`).

## 6. Not modelled

The models cover the parts of BitBake in which processes, threads or messages meet.
What remains is most of the repository's 156,000 lines of code, and it is of kinds a
model of states and steps has nothing to say about:

* **Recipe language and datastore** (`lib/bb/parse`, `data_smart.py`, `codeparser.py`,
  `cache.py`, vendored `ply` and `pyinotify`): string expansion and overrides over free
  text, in one thread.  Parsing is a step that succeeds or fails in `CookerParser`.
* **Preparation of the runqueue**, task data and providers: one sequential pass from
  metadata to a task graph.  The graph is a constant, any graph in the proofs.
* **Fetchers**: calls of external tools around files.
* **Toaster, layer index client, devtool, recipetool, wic and the other scripts**:
  applications with no protocol of their own.
* **OE-Core libraries and classes, their tests, recipes, patches, configuration**: data,
  and code that runs inside one task.  The hooks the executor calls are open choices.
* **The audio programs** of meta-audio: loops over ALSA calls.

In the parts that are modelled, what is left out is named with each module above.  Two of
the hazards have no property for that reason: the cache of stamp checks
(`runqueue.py:1512`), whose state multiplies that of the builds, and the PR daemon's pid file
(`prserv/serv.py:292`), which is pure file I/O around the service.  Three others have none
because the code does not keep what one would state; they are described above (stamps
in parallel, read-only PR servers, the list of parsers).

## 7. Plan

Done: all modules above with their runs; the theorems of section 5.

To prove next: the books and the verdict for `MSpec`, which need an invariant about the
stamps of setscene tasks that have hard dependencies; and `InputsThere` with equal hashes,
which needs one about what a released task finds.
