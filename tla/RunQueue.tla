------------------------------ MODULE RunQueue ------------------------------
(***************************************************************************)
(* BitBake's task executor: RunQueueExecute of                             *)
(* poky/bitbake/lib/bb/runqueue.py, the scheduler it asks for the next     *)
(* task, and the part of RunQueue and of the cooker's idle function that   *)
(* drives it.                                                              *)
(*                                                                         *)
(* A build is a graph of tasks.  Some tasks have a setscene variant, which *)
(* restores the task's output from the shared-state cache instead of       *)
(* running it.  The executor decides for every setscene task whether it    *)
(* covers the tasks below it, and runs the tasks that are not covered, in  *)
(* dependency order and never more than BB_NUMBER_THREADS at a time.       *)
(*                                                                         *)
(* The executor is one thread.  Worker processes run the tasks and exit at *)
(* any time, but an exit is only seen inside read_workers().  execute() is *)
(* therefore split at its reads, its setscene loop, update_holdofftasks    *)
(* and its scheduling step; pc says where it stands.                       *)
(*                                                                         *)
(* Hashes that change during the build (hash equivalence) are the subject  *)
(* of the module Migrations; here updated_taskhash_queue is empty.         *)
(***************************************************************************)
EXTENDS Integers, FiniteSets, SceneGraph

CONSTANTS
  HardDepsRev,     \* sqdata.sq_harddeps_rev
  HashIndex,       \* pending_hash_index(tid)
  FileOf,          \* the recipe file of a task
  StampOf,         \* stampfile_mcfn(taskname, taskfn, extrainfo=False)
  TaskName,        \* taskname_from_tid(tid)
  NumberThreads,   \* the [number_threads] flag of a task name, 0 when unset
  NoExec,          \* tasks with the noexec flag
  NoStamp,         \* tasks with the nostamp flag
  NumberTasks,     \* BB_NUMBER_THREADS
  Options,         \* the command line options to consider, see OptionType
  IgnoreTasks,     \* tasks matched by BB_SETSCENE_ENFORCE_IGNORE_TASKS
  OldStamps,       \* possible sets of tasks with a stamp from earlier builds
  OldSetscene,     \* possible sets of tasks with an old setscene stamp
  ActiveFloor      \* bound of the model: stats.active stays above -ActiveFloor

\* Stamp files by age; None also stands for "not deferred" in sq_deferred.
None == 0
Old  == 1
New  == 2

(***************************************************************************)
(* The facts about the constants that the executor relies on.              *)
(***************************************************************************)
ASSUME GraphAssumption ==
  /\ IsFiniteSet(Tasks) /\ None \notin Tasks
  /\ Depends \in [Tasks -> SUBSET Tasks]
  /\ SetsceneTids \subseteq Tasks /\ TargetTids \subseteq Tasks
  /\ NoExec \subseteq Tasks /\ NoStamp \subseteq Tasks
  /\ IgnoreTasks \subseteq Tasks

\* calculate_task_weights refuses a graph with circular dependencies: among the
\* members of any set of tasks there is a first one and a last one.
ASSUME AcyclicAssumption ==
  \A U \in (SUBSET Tasks) \ {{}} : /\ \E t \in U : Depends[t] \cap U = {}
                                  /\ \E t \in U : Revdeps(t) \cap U = {}

ASSUME SceneAssumption ==
  /\ HardDepsRev \in [SetsceneTids -> SUBSET SetsceneTids]
  \* equal hashes come from the same recipe in different multiconfigs
  /\ \A t, u \in SetsceneTids : (t # u /\ HashIndex[t] = HashIndex[u]) => FileOf[t] # FileOf[u]

ASSUME LimitAssumption ==
  /\ NumberTasks \in Nat \ {0} /\ ActiveFloor \in Nat \ {0}
  /\ \A t \in Tasks : NumberThreads[TaskName[t]] \in Nat

\* cooker.configuration: halt is FALSE for bitbake --continue, enforce stands
\* for BB_SETSCENE_ENFORCE.
OptionType == [halt : BOOLEAN, force : BOOLEAN, skipsetscene : BOOLEAN,
               setsceneonly : BOOLEAN, enforce : BOOLEAN]

ASSUME OptionAssumption ==
  /\ Options \subseteq OptionType
  /\ OldStamps \subseteq SUBSET Tasks
  /\ OldSetscene \subseteq SUBSET SetsceneTids

VARIABLES
  opt,               \* cooker.configuration, fixed for the build
  state,             \* rq.state
  pc,                \* where the executor's thread stands
  shutdown,          \* cooker.state: "no", "clean" or "force"
  procs,             \* processes in the workers; their stamps are build_stamps
  runq_buildable, runq_running, runq_complete, runq_tasksrun, failed_tids,
  active,            \* stats.active
  sq,                \* the scenequeue sets, see SqType
  sq_deferred,       \* tid deferred -> tid it waits for, 0 when not deferred
  tasks_covered, tasks_notcovered, holdoff_tasks, sqdone,
  nstamp, sstamp     \* stamps of tasks and setscene tasks: none, old or new

runqVars  == <<runq_buildable, runq_running, runq_complete, runq_tasksrun,
               failed_tids, active>>
coverVars == <<tasks_covered, tasks_notcovered, holdoff_tasks>>
stampVars == <<nstamp, sstamp>>
vars == <<opt, state, pc, shutdown, procs, runqVars, sq, sq_deferred, coverVars,
          sqdone, stampVars>>

Halt == opt.halt
ForceTargets == opt.force
SkipSetscene == opt.skipsetscene
SetsceneOnly == opt.setsceneonly
Enforce == opt.enforce

States == {"running", "cleanup", "failed", "complete"}
\* Only Migrations has the executor in process_possible_migrations ("migrate").
Places == {"idle", "execute", "migrate", "scan", "holdoff", "sched", "wait",
           "finish", "done"}
Proc(t, kind) == [tid |-> t, kind |-> kind]
Procs  == [tid : Tasks, kind : {"task", "setscene"}]

\* The scenequeue bookkeeping of RunQueueExecute: sq_buildable, sq_running,
\* sq_live, scenequeue_covered, scenequeue_notcovered, tasks_scenequeue_done,
\* sq_needed_harddeps, sq_harddep_deferred, sqdata.outrightfail and
\* holdoff_need_update.
SqType == [buildable : SUBSET SetsceneTids, running : SUBSET SetsceneTids,
           live : SUBSET SetsceneTids, covered : SUBSET SetsceneTids,
           notcovered : SUBSET SetsceneTids, done : SUBSET Tasks,
           needed : SUBSET SetsceneTids, harddeferred : SUBSET SetsceneTids,
           outrightfail : SUBSET SetsceneTids, needupdate : BOOLEAN]

\* Every variable keeps the shape the code gives it.
TypeOK ==
  /\ opt \in OptionType
  /\ state \in States /\ pc \in Places
  /\ shutdown \in {"no", "clean", "force"}
  /\ procs \subseteq Procs
  /\ runq_buildable \subseteq Tasks /\ runq_running \subseteq Tasks
  /\ runq_complete \subseteq Tasks /\ runq_tasksrun \subseteq Tasks
  /\ failed_tids \subseteq Tasks /\ active \in Int
  /\ sq \in SqType
  /\ sq_deferred \in [SetsceneTids -> SetsceneTids \cup {None}]
  /\ tasks_covered \subseteq Tasks /\ tasks_notcovered \subseteq Tasks
  /\ holdoff_tasks \subseteq Tasks /\ sqdone \in BOOLEAN
  /\ nstamp \in [Tasks -> {None, Old, New}]
  /\ sstamp \in [Tasks -> {None, Old, New}]

-----------------------------------------------------------------------------
(***************************************************************************)
(* Stamp files.  A setscene stamp newer than the task's own stamp excuses  *)
(* a dependency from the check; only dependencies of the same recipe file  *)
(* are compared at all.                                                    *)
(***************************************************************************)
ComparedDeps(t) == {d \in Depends[t] : FileOf[d] = FileOf[t] /\ sstamp[d] =< nstamp[d]}

\* check_stamp_task(tid, taskname)
check_stamp_task(t) ==
  /\ nstamp[t] # None
  /\ t \notin NoStamp
  /\ \A d \in ComparedDeps(t) : nstamp[d] # None /\ nstamp[d] =< nstamp[t]

\* check_stamp_task(tid, taskname, recurse = True)
check_stamp_task_recurse(t) ==
  \E S \in SUBSET Tasks :
    t \in S /\ \A x \in S : check_stamp_task(x) /\ ComparedDeps(x) \subseteq S

\* check_setscene_stamps: its stamppresent result
stamppresent(t) == sstamp[t] # None \/ check_stamp_task_recurse(t)

BuildStamp(p) == <<StampOf[p.tid], p.kind>>
build_stamps == {BuildStamp(p) : p \in procs}

-----------------------------------------------------------------------------
(***************************************************************************)
(* Scenequeue updates, as functions of the sq record.                      *)
(***************************************************************************)
\* The non-setscene tasks that scenequeue_updatecounters marks done below the
\* setscene tasks T, given that the tasks in done are marked already.
DoneWalk(done, T) ==
  LET Closed(W) == \A t \in W : \A d \in Depends[t] :
        (d \notin SetsceneTids /\ d \notin done /\ Revdeps(d) \subseteq done \cup W)
        => d \in W
  IN  {x \in Tasks : \A W \in SUBSET Tasks : (T \subseteq W /\ Closed(W)) => x \in W}

\* The setscene tasks that become buildable when the tasks T are settled
NowBuildable(T, settled) ==
  {d \in SetsceneTids : SqRevdeps[d] \cap T # {} /\ SqRevdeps[d] \subseteq settled}

\* Mutant: tasks deferred for hard dependencies are never let go.
StillDeferred_Forever(deferred, T, settled) == deferred

\* The tasks still waiting for hard dependencies when the tasks T are settled
StillDeferred(deferred, T, settled) ==
  IF \E d \in SetsceneTids : HardDepsRev[d] \cap T # {}
  THEN {d \in deferred : ~(HardDepsRev[d] \subseteq settled)} ELSE deferred

\* scenequeue_updatecounters for the setscene tasks C that became covered and
\* the tasks F that became notcovered.
scenequeue_updatecounters(s, C, F) ==
  LET settled == s.covered \cup C \cup s.notcovered \cup F
      T       == C \cup F
  IN  [s EXCEPT
        !.covered      = @ \cup C,
        !.notcovered   = @ \cup F,
        !.buildable    = @ \cup NowBuildable(T, settled),
        !.done         = @ \cup DoneWalk(@, T),
        !.harddeferred = StillDeferred(@, T, settled),
        !.needupdate   = TRUE]

\* The setscene tasks that fail with t, through the hard dependencies.
FailSet(s, t) ==
  LET Falls(d) == /\ d \notin s.covered \cup s.notcovered
                  /\ d \notin NoExec /\ ~stamppresent(d)
      Closed(F) == \A d \in SetsceneTids :
                     (HardDepsRev[d] \cap F # {} /\ Falls(d)) => d \in F
  IN  {x \in SetsceneTids : \A F \in SUBSET SetsceneTids : (t \in F /\ Closed(F)) => x \in F}

Touch(s, T) == [s EXCEPT !.running = @ \cup T, !.buildable = @ \cup T]

sq_task_completeoutright(s, t) == scenequeue_updatecounters(s, {t}, {})

sq_task_skip(s, t) == sq_task_completeoutright(Touch(s, {t}), t)

\* Also the effect of sq_task_fail on the record: a task that ran is already
\* in sq_running and sq_buildable.
sq_task_failoutright(s, t) ==
  LET F == FailSet(s, t) IN scenequeue_updatecounters(Touch(s, F), {}, F)

\* update_scenequeue_data([t]); deferred is sq_deferred at the call and valid
\* is what the hash check answers for t.
update_scenequeue_data(s, t, deferred, valid) ==
  LET s1 == [s EXCEPT !.outrightfail = @ \ {t}]
  IN  IF t \in NoExec \/ stamppresent(t) THEN sq_task_skip(s1, t)
      ELSE IF valid \/ deferred[t] # None \/ t \in s.covered \cup s.notcovered THEN s1
      ELSE [s1 EXCEPT !.outrightfail = @ \cup {t}]

-----------------------------------------------------------------------------
(***************************************************************************)
(* Initial states: RunQueueExecute.__init__, with build_scenequeue_data's  *)
(* effects on the executor and update_scenequeue_data for all setscene     *)
(* tasks, and the start of execution in _execute_runqueue.  --force has    *)
(* tainted the hashes of the targets, which so have no stamps.             *)
(***************************************************************************)
\* The first element of a set in the order of sorted()
First(S) == CHOOSE x \in S : TRUE

InitDeferred ==
  [t \in SetsceneTids |->
     LET first == First({u \in SetsceneTids : HashIndex[u] = HashIndex[t]})
     IN  IF t = first THEN None ELSE first]

InitSq(valid) ==
  LET skipped == {t \in SetsceneTids : t \in NoExec \/ stamppresent(t)}
      built   == [buildable |-> {t \in SetsceneTids : SqRevdeps[t] = {}},
                  running |-> {}, live |-> {}, covered |-> {}, notcovered |-> {},
                  done |-> Unskippable \ SetsceneTids,
                  needed |-> {}, harddeferred |-> {},
                  outrightfail |-> {t \in SetsceneTids \ (skipped \cup valid) :
                                      InitDeferred[t] = None},
                  needupdate |-> TRUE]
  IN  scenequeue_updatecounters(Touch(built, skipped), skipped, {})

Tainted == IF ForceTargets THEN TargetTids ELSE {}

Init ==
  /\ opt \in Options
  /\ state = "running" /\ pc = "idle" /\ shutdown = "no" /\ procs = {}
  /\ \E S \in OldStamps : nstamp = [t \in Tasks |-> IF t \in S \ Tainted THEN Old ELSE None]
  /\ \E S \in OldSetscene :
       sstamp = [t \in Tasks |-> IF t \in NoExec \cap SetsceneTids THEN New
                                 ELSE IF t \in S \ Tainted THEN Old ELSE None]
  /\ runq_buildable = {t \in Unskippable \ SetsceneTids : Depends[t] = {}}
  /\ runq_running = {} /\ runq_complete = {} /\ runq_tasksrun = {}
  /\ failed_tids = {} /\ active = 0
  /\ sq_deferred = InitDeferred
  /\ \E valid \in SUBSET SetsceneTids : sq = InitSq(valid)
  /\ tasks_covered = {} /\ holdoff_tasks = {}
  /\ tasks_notcovered = IF SetsceneTids = {} THEN Tasks ELSE {}
  /\ sqdone = (SetsceneTids = {})

-----------------------------------------------------------------------------
(***************************************************************************)
(* Return from execute(), and finish().                                    *)
(***************************************************************************)
\* Mutant: setscene processes are not counted.
can_start_NoLive(act, live) == act < NumberTasks

can_start(act, live) == act + Cardinality(live) < NumberTasks

can_start_task == can_start(active, sq.live)

\* Mutant: finish() does not wait for setscene processes.
finish_NoLive(act, live, failed) ==
  IF act > 0
  THEN state' = "cleanup" /\ pc' = "finish"
  ELSE /\ state' = IF failed # {} THEN "failed" ELSE "complete"
       /\ pc' = "done"

\* finish(), called with the given counters
finish(act, live, failed) ==
  IF act + Cardinality(live) > 0
  THEN state' = "cleanup" /\ pc' = "finish"
  ELSE /\ state' = IF failed # {} THEN "failed" ELSE "complete"
       /\ pc' = "done"

\* _execute_runqueue after execute() has returned and left rq.state at st
Return(st, act, live, failed) ==
  CASE st = "running" -> state' = st /\ pc' = "idle"
    [] st = "cleanup" -> finish(act, live, failed)
    [] OTHER          -> state' = st /\ pc' = "done"

ReturnUnchanged == Return(state, active, sq.live, failed_tids)

(***************************************************************************)
(* One call of the cooker's idle function (buildTargetsIdle) up to the     *)
(* first read: a requested shutdown goes through finish_runqueue first.    *)
(***************************************************************************)
\* A forced shutdown: finish_now has the workers kill and reap their
\* children, then check_for_interrupts raises and execute_runqueue's handler
\* sets runQueueComplete, whatever failed before.
finish_now ==
  /\ state' = "complete"
  /\ pc' = "done"
  /\ procs' = {}

execute_runqueue ==
  /\ pc = "idle"
  /\ \/ shutdown = "force" /\ finish_now
     \/ /\ shutdown = "clean" \/ (shutdown = "no" /\ state = "cleanup")
        /\ finish(active, sq.live, failed_tids)
        /\ UNCHANGED procs
     \/ /\ shutdown = "no" /\ state = "running"
        /\ pc' = "execute" /\ UNCHANGED <<state, procs>>
  /\ UNCHANGED <<shutdown, runqVars, sq, sq_deferred, coverVars, sqdone, stampVars>>

\* The user interface asks the cooker to stop, politely and then by force.
RequestShutdown ==
  /\ pc # "done"
  /\ \/ shutdown = "no" /\ shutdown' = "clean"
     \/ shutdown = "clean" /\ shutdown' = "force"
  /\ UNCHANGED <<opt, state, pc, procs, runqVars, sq, sq_deferred, coverVars, sqdone, stampVars>>

-----------------------------------------------------------------------------
(***************************************************************************)
(* Completion of normal tasks.                                             *)
(***************************************************************************)
\* Mutant: one completed dependency is enough.
NewlyBuildable_AnyDep(complete) ==
  {r \in Tasks : r \notin runq_running /\ Depends[r] \cap complete # {}}

NewlyBuildable(complete) ==
  {r \in Tasks : r \notin runq_running /\ Depends[r] \subseteq complete}

\* task_completeoutright(t).  buildable and ss are runq_buildable and sstamp
\* as the caller has left them; valid is the hash check's answer for the
\* deferred task that is released.
task_completeoutright(t, buildable, ss, valid) ==
  LET waiting  == {d \in SetsceneTids : sq_deferred[d] = t}
      found    == First(waiting)
      deferred == [d \in SetsceneTids |->
                     IF d \notin waiting THEN sq_deferred[d]
                     ELSE IF d = found THEN None ELSE found]
  IN  /\ runq_complete' = runq_complete \cup {t}
      /\ runq_buildable' =
           buildable \cup (Revdeps(t) \cap NewlyBuildable(runq_complete \cup {t}))
      /\ sq_deferred' = IF waiting = {} THEN sq_deferred ELSE deferred
      /\ sq' = IF waiting = {} THEN sq
               ELSE update_scenequeue_data(sq, found, deferred, valid)
      /\ sstamp' = IF waiting # {} /\ found \in NoExec
                   THEN [ss EXCEPT ![found] = New] ELSE ss

\* make_stamp for a task, when it is made at all: the task's stamp replaces
\* its setscene stamp.
Stamped(t, made)  == IF made THEN [nstamp EXCEPT ![t] = New] ELSE nstamp
Unscened(t, made) == IF made THEN [sstamp EXCEPT ![t] = None] ELSE sstamp

\* The answer of a hash check only matters when a deferred task is released.
Validity(t) == IF \E d \in SetsceneTids : sq_deferred[d] = t THEN BOOLEAN ELSE {FALSE}

(***************************************************************************)
(* read_workers() handles the exit of one process.  An executed task has   *)
(* made its stamp before it exits.                                         *)
(***************************************************************************)
Reading == pc \in {"execute", "wait", "finish"}

\* Mutant: the exit status is not looked at.
Settle_NoStatus(t, ok) == sq_task_completeoutright(sq, t)

\* sq_task_complete or sq_task_fail
Settle(t, ok) ==
  IF ok THEN sq_task_completeoutright(sq, t) ELSE sq_task_failoutright(sq, t)

\* runqueue_process_waitpid for a task in sq_live
SetsceneExit(p, ok) ==
  LET t == p.tid
  IN  /\ Reading /\ t \in sq.live
      /\ procs' = procs \ {p}
      /\ sq' = [Settle(t, ok) EXCEPT !.live = @ \ {t}]
      /\ sstamp' = IF ok THEN [sstamp EXCEPT ![t] = New] ELSE sstamp
      /\ state' = IF ~ok /\ Enforce /\ t \notin IgnoreTasks THEN "cleanup" ELSE state
      /\ UNCHANGED <<pc, shutdown, runqVars, sq_deferred, coverVars, sqdone, nstamp>>

\* runqueue_process_waitpid for any other task: task_complete
TaskExit(p, valid) ==
  LET t    == p.tid
      made == t \notin NoStamp /\ ~Enforce
  IN  /\ Reading /\ t \notin sq.live
      /\ procs' = procs \ {p}
      /\ active' = active - 1
      /\ nstamp' = Stamped(t, made)
      /\ task_completeoutright(t, runq_buildable, Unscened(t, made), valid)
      /\ runq_tasksrun' = runq_tasksrun \cup {t}
      /\ UNCHANGED <<state, pc, shutdown, runq_running, failed_tids, coverVars, sqdone>>

\* Mutants: the counter is left alone; the failure is not recorded.
task_fail_NoCount(t) ==
  active' = active /\ failed_tids' = failed_tids \cup {t}
task_fail_NoRecord(t) ==
  /\ active' = IF active > -ActiveFloor THEN active - 1 ELSE active
  /\ failed_tids' = failed_tids

\* task_fail
task_fail(t) ==
  /\ active' = IF active > -ActiveFloor THEN active - 1 ELSE active
  /\ failed_tids' = failed_tids \cup {t}

\* Mutant: a failure always stops the build.
AfterFail_Always == "cleanup"

\* rq.state after task_fail
AfterFail == IF Halt THEN "cleanup" ELSE state

TaskExitFailed(p) ==
  /\ Reading /\ p.tid \notin sq.live
  /\ procs' = procs \ {p}
  /\ task_fail(p.tid)
  /\ state' = AfterFail
  /\ UNCHANGED <<pc, shutdown, runq_buildable, runq_running, runq_complete, runq_tasksrun,
                 sq, sq_deferred, coverVars, sqdone, stampVars>>

ProcessExit(p) ==
  \/ \E ok \in BOOLEAN : SetsceneExit(p, ok)
  \/ \E valid \in Validity(p.tid) : TaskExit(p, valid)
  \/ TaskExitFailed(p)

\* read_workers() returns: to the rest of execute(), out of execute(), or out
\* of finish().
ReadReturn ==
  /\ \/ pc = "execute" /\ pc' = "scan" /\ UNCHANGED state
     \/ pc = "wait" /\ ReturnUnchanged
     \/ pc = "finish" /\ pc' = "idle" /\ UNCHANGED state
  /\ UNCHANGED <<shutdown, procs, runqVars, sq, sq_deferred, coverVars, sqdone, stampVars>>

-----------------------------------------------------------------------------
(***************************************************************************)
(* The setscene loop of execute().  The loop starts where the last call    *)
(* left off in an order that depends on a Python set, so any candidate may *)
(* be the next.                                                            *)
(***************************************************************************)
SceneCandidates ==
  {t \in sq.buildable \ (sq.running \cup sq.harddeferred) :
     /\ <<StampOf[t], "task">> \notin build_stamps
     /\ sq_deferred[t] # None => sq_deferred[t] \in runq_complete}

InScan == pc = "scan" /\ ~sqdone /\ can_start_task

\* check_dependencies (the metadata's depvalidate hook) may answer anything.
MayBeNotNeeded(t) ==
  /\ t \notin Unskippable /\ t \notin TargetTids /\ t \notin sq.needed
  /\ SqRevdeps[t] # {} /\ SqRevdeps[t] \subseteq sq.covered

HardDepsSettled(t) == HardDepsRev[t] \subseteq sq.covered \cup sq.notcovered

SceneUnchanged ==
  UNCHANGED <<shutdown, runqVars, coverVars, sqdone, stampVars>>

\* The task is not needed: everything that needs it is covered.
SceneNotNeeded(t) ==
  /\ InScan /\ MayBeNotNeeded(t)
  /\ sq' = sq_task_skip(sq, t)
  /\ sq_deferred' = [sq_deferred EXCEPT ![t] = None]
  /\ ReturnUnchanged
  /\ UNCHANGED procs /\ SceneUnchanged

\* The task waits for its hard dependencies, which are enabled if they are
\* not; the loop goes on when they were enabled before.
SceneHardDefer(t) ==
  LET enabled == HardDepsRev[t] \ sq.needed
  IN  /\ InScan /\ ~HardDepsSettled(t)
      /\ sq' = [sq EXCEPT !.buildable = @ \cup enabled, !.needed = @ \cup enabled,
                          !.harddeferred = @ \cup {t}]
      /\ IF enabled # {} THEN ReturnUnchanged ELSE UNCHANGED <<state, pc>>
      /\ UNCHANGED <<procs, sq_deferred>> /\ SceneUnchanged

\* Mutant: --force does not look at the setscene variants.
Forced_Never(t) == FALSE

\* bitbake --force runs the targets themselves.
Forced(t) == ForceTargets /\ t \in TargetTids

\* The task is settled as notcovered or skipped without running, by what the
\* hash check (valid, for a task that was deferred), the stamps and the
\* options say.
SceneSettle(t, valid) ==
  LET fails == \/ sq_deferred[t] # None /\ ~valid
               \/ t \in sq.outrightfail
               \/ check_stamp_task_recurse(t)
               \/ Forced(t)
  IN  /\ InScan /\ HardDepsSettled(t)
      /\ \/ /\ fails \/ (sstamp[t] = None /\ SkipSetscene)
            /\ sq' = sq_task_failoutright(sq, t)
         \/ /\ ~fails /\ sstamp[t] # None
            /\ sq' = sq_task_skip(sq, t)
      /\ sq_deferred' = [sq_deferred EXCEPT ![t] = None]
      /\ ReturnUnchanged
      /\ UNCHANGED procs /\ SceneUnchanged

\* The setscene task is sent to a worker.
SceneStart(t) ==
  /\ InScan /\ HardDepsSettled(t)
  /\ ~(t \in sq.outrightfail \/ check_stamp_task_recurse(t) \/ Forced(t))
  /\ sstamp[t] = None /\ ~SkipSetscene
  /\ procs' = procs \cup {Proc(t, "setscene")}
  /\ sq' = [sq EXCEPT !.running = @ \cup {t}, !.live = @ \cup {t}]
  /\ sq_deferred' = [sq_deferred EXCEPT ![t] = None]
  /\ IF can_start(active, sq'.live)
     THEN Return(state, active, sq'.live, failed_tids)
     ELSE pc' = "holdoff" /\ UNCHANGED state
  /\ SceneUnchanged

SceneNone ==
  /\ pc = "scan"
  /\ sqdone \/ ~can_start_task \/ SceneCandidates = {}
  /\ pc' = "holdoff"
  /\ UNCHANGED <<state, procs, sq, sq_deferred>> /\ SceneUnchanged

SceneStep ==
  \/ \E t \in SceneCandidates :
       \/ SceneNotNeeded(t) \/ SceneHardDefer(t) \/ SceneStart(t)
       \/ \E valid \in IF sq_deferred[t] = None THEN {TRUE} ELSE BOOLEAN : SceneSettle(t, valid)
  \/ SceneNone

-----------------------------------------------------------------------------
(***************************************************************************)
(* update_holdofftasks and the end of the setscene phase.                  *)
(***************************************************************************)
CoveredBy(T) == T \cup UNION {SqCoveredTasks[t] : t \in T}

\* Mutant: covered wins over notcovered, not the other way round.
NotCoveredTasks_CoveredWins ==
  ((CoveredBy(sq.notcovered) \cup CantSkip \cup (Unskippable \ SetsceneTids))
     \ CoveredBy(sq.covered)) \cap sq.done

NotCoveredTasks ==
  (CoveredBy(sq.notcovered) \cup CantSkip \cup (Unskippable \ SetsceneTids)) \cap sq.done

CoveredTasks == (CoveredBy(sq.covered) \ NotCoveredTasks) \cap sq.done

Undecided == SetsceneTids \ (sq.covered \cup sq.notcovered)

HoldoffTasks ==
  Undecided \cup UNION {SqCoveredTasks[t] \ runq_complete : t \in Undecided}

update_holdofftasks ==
  IF sq.needupdate
  THEN /\ tasks_notcovered' = NotCoveredTasks
       /\ tasks_covered' = CoveredTasks
       /\ runq_buildable' = runq_buildable \cup
            {t \in NotCoveredTasks \cup CoveredTasks : Depends[t] \subseteq runq_complete}
       /\ holdoff_tasks' = HoldoffTasks
       /\ sq' = [sq EXCEPT !.needupdate = FALSE]
  ELSE UNCHANGED <<coverVars, runq_buildable, sq>>

\* summarise_scenequeue_errors, on the given values of the sets
SceneErrors(buildable, covered, notcovered, holdoff) ==
  \/ \E t \in SetsceneTids : sq_deferred[t] # None
  \/ holdoff # {}
  \/ Undecided # {}
  \/ ~(SetsceneTids \subseteq sq.buildable \cap sq.running)
  \/ ~(Tasks \subseteq (covered \cup notcovered) \cap sq.done)
  \/ \E t \in Tasks : Depends[t] = {} /\ t \notin buildable

SceneOver ==
  /\ sq.live = {} /\ ~sqdone /\ \A t \in SetsceneTids : sq_deferred[t] = None
  /\ holdoff_tasks' = {}

HoldoffStep ==
  LET err == SceneErrors(runq_buildable', tasks_covered', tasks_notcovered', holdoff_tasks')
  IN  /\ pc = "holdoff"
      /\ update_holdofftasks
      /\ \/ /\ SceneOver /\ (err \/ SetsceneOnly)
            /\ Return(IF err THEN "failed" ELSE "complete", active, sq.live, failed_tids)
            /\ UNCHANGED sqdone
         \/ /\ ~(SceneOver /\ (err \/ SetsceneOnly))
            /\ sqdone' = (sqdone \/ SceneOver)
            /\ pc' = "sched" /\ UNCHANGED state
      /\ UNCHANGED <<shutdown, procs, runq_running, runq_complete, runq_tasksrun, failed_tids,
                     active, sq_deferred, stampVars>>

-----------------------------------------------------------------------------
(***************************************************************************)
(* RunQueueScheduler.next() and the rest of execute().                     *)
(***************************************************************************)
\* The running tasks counted against [number_threads] are those of
\* runq_running that are not in runq_complete.
ThreadsFull(name) ==
  /\ NumberThreads[name] # 0
  /\ Cardinality({r \in runq_running \ runq_complete : TaskName[r] = name}) >= NumberThreads[name]

\* Mutant: runq_running is not consulted.
SchedCandidates_Again ==
  {t \in (runq_buildable \ holdoff_tasks) \cap (tasks_covered \cup tasks_notcovered) :
     ~ThreadsFull(TaskName[t]) /\ <<StampOf[t], "task">> \notin build_stamps}

\* next_buildable_task: any of the tasks a scheduler's priorities may prefer
SchedCandidates ==
  {t \in (runq_buildable \ (runq_running \cup holdoff_tasks)) \cap (tasks_covered \cup tasks_notcovered) :
     ~ThreadsFull(TaskName[t]) /\ <<StampOf[t], "task">> \notin build_stamps}

InSched == pc = "sched" /\ ~SetsceneOnly /\ can_start_task

SchedUnchanged == UNCHANGED <<shutdown, coverVars, sqdone>>

\* check_setscene_ignore_tasks
check_setscene_ignore_tasks(t) ==
  /\ Enforce /\ t \notin tasks_covered /\ ~check_stamp_task(t)
  /\ t \notin NoExec /\ t \notin IgnoreTasks

\* A task that may not run under BB_SETSCENE_ENFORCE fails on the spot.
SchedRefuse(t) ==
  /\ InSched /\ check_setscene_ignore_tasks(t)
  /\ task_fail(t)
  /\ Return(AfterFail, active', sq.live, failed_tids')
  /\ UNCHANGED <<procs, runq_buildable, runq_running, runq_complete, runq_tasksrun, sq,
                 sq_deferred, stampVars>>
  /\ SchedUnchanged

\* task_skip: the task is covered, or its stamp is current.
SchedSkip(t, valid) ==
  LET existing == t \notin tasks_covered
  IN  /\ InSched /\ ~check_setscene_ignore_tasks(t)
      /\ existing => check_stamp_task(t)
      /\ runq_running' = runq_running \cup {t}
      /\ task_completeoutright(t, runq_buildable \cup {t}, sstamp, valid)
      /\ runq_tasksrun' = IF existing THEN runq_tasksrun \cup {t} ELSE runq_tasksrun
      /\ Return(state, active, sq'.live, failed_tids)
      /\ UNCHANGED <<procs, failed_tids, active, nstamp>>
      /\ SchedUnchanged

Runnable(t) == /\ ~check_setscene_ignore_tasks(t)
               /\ t \notin tasks_covered /\ ~check_stamp_task(t)

\* A noexec task is stamped and completed without a process.
SchedNoExec(t, valid) ==
  /\ InSched /\ Runnable(t) /\ t \in NoExec
  /\ runq_running' = runq_running \cup {t}
  /\ nstamp' = Stamped(t, ~Enforce)
  /\ task_completeoutright(t, runq_buildable, Unscened(t, ~Enforce), valid)
  /\ runq_tasksrun' = runq_tasksrun \cup {t}
  /\ Return(state, active, sq'.live, failed_tids)
  /\ UNCHANGED <<procs, failed_tids, active>>
  /\ SchedUnchanged

\* The task is sent to a worker.
SchedStart(t) ==
  /\ InSched /\ Runnable(t) /\ t \notin NoExec
  /\ procs' = procs \cup {Proc(t, "task")}
  /\ runq_running' = runq_running \cup {t}
  /\ active' = active + 1
  /\ IF can_start(active', sq.live)
     THEN Return(state, active', sq.live, failed_tids)
     ELSE pc' = "wait" /\ UNCHANGED state
  /\ UNCHANGED <<runq_buildable, runq_complete, runq_tasksrun, failed_tids, sq, sq_deferred, stampVars>>
  /\ SchedUnchanged

\* The sanity checks at the end of execute()
SanityErrors ==
  \/ SceneErrors(runq_buildable, tasks_covered, tasks_notcovered, holdoff_tasks)
  \/ ~(Tasks \subseteq runq_buildable \cap runq_running \cap runq_complete)

\* Tasks may be held back for the load of the machine while one is active.
exceeds_max_pressure == active # 0

\* Mutant: the deferred task is not taken out of sq_deferred.
ForceDeferred_Kept ==
  \E t \in SetsceneTids : sq_deferred[t] # None /\ sq_deferred' = sq_deferred

\* "Runqueue deadlocked on deferred tasks": one of them is let go.
ForceDeferred ==
  \E t \in SetsceneTids : /\ sq_deferred[t] # None
                          /\ sq_deferred' = [sq_deferred EXCEPT ![t] = None]

\* No task to start: wait for the workers, force a deferred setscene task, or
\* end.
SchedNone ==
  /\ pc = "sched"
  /\ SetsceneOnly \/ ~can_start_task \/ SchedCandidates = {} \/ exceeds_max_pressure
  /\ \/ /\ active > 0 \/ sq.live # {}
        /\ pc' = "wait" /\ UNCHANGED <<state, sq_deferred>>
     \/ /\ active =< 0 /\ sq.live = {}
        /\ ForceDeferred
        /\ ReturnUnchanged
     \/ /\ active =< 0 /\ sq.live = {} /\ \A t \in SetsceneTids : sq_deferred[t] = None
        /\ Return(IF failed_tids # {} \/ SanityErrors THEN "failed" ELSE "complete",
                  active, sq.live, failed_tids)
        /\ UNCHANGED sq_deferred
  /\ UNCHANGED <<procs, runqVars, sq, stampVars>>
  /\ SchedUnchanged

SchedStep ==
  \/ \E t \in SchedCandidates :
       \/ SchedRefuse(t) \/ SchedStart(t)
       \/ \E valid \in Validity(t) : SchedSkip(t, valid) \/ SchedNoExec(t, valid)
  \/ SchedNone

-----------------------------------------------------------------------------
Executor ==
  /\ execute_runqueue \/ ReadReturn \/ SceneStep \/ HoldoffStep \/ SchedStep
  /\ UNCHANGED opt

Exits == /\ \E p \in procs : ProcessExit(p)
         /\ UNCHANGED opt

\* After the end nothing happens any more.
Finished == pc = "done" /\ UNCHANGED vars

Next == Executor \/ Exits \/ RequestShutdown \/ Finished

Spec == Init /\ [][Next]_vars

\* The server's idle thread calls the executor as long as it wants to be
\* called, a task ends eventually, and a read_workers() that finds the exit of
\* a process in the pipe handles it.
Fairness == WF_vars(Executor) /\ SF_vars(Exits)

FairSpec == Spec /\ Fairness

-----------------------------------------------------------------------------
(***************************************************************************)
(* Correctness.                                                            *)
(***************************************************************************)
Running(kind) == {p.tid : p \in {q \in procs : q.kind = kind}}

\* A task's process only ever runs when every dependency of the task has been
\* completed (run, skipped as covered, or found up to date): the promise of
\* task_completeoutright, update_holdofftasks and the scheduler together.
DepsFirst == \A t \in Running("task") : Depends[t] \subseteq runq_complete

\* d's output exists: it ran or was up to date, or was restored.
OutputPresent(d) ==
  \/ d \in runq_tasksrun \/ nstamp[d] # None \/ sstamp[d] # None \/ d \in NoExec

\* A task that really executes finds the output of each of its dependencies:
\* no dependency was skipped as covered (or its setscene variant skipped as
\* not needed) although a task that is not covered needs it.
InputsPresent == \A t \in Running("task") : \A d \in Depends[t] : OutputPresent(d)

\* A setscene task counts as covered only when what it stands for is there, or
\* when every setscene task that needs it is covered: a failed or impossible
\* restore never passes for a successful one.
CoveredIsPresent ==
  \A s \in sq.covered : \/ OutputPresent(s)
                        \/ SqRevdeps[s] # {} /\ SqRevdeps[s] \subseteq sq.covered

\* bitbake --force: a finished build has run its targets, none of them was
\* skipped because a setscene task covers it or was restored.
ForcedTargetsRun ==
  (ForceTargets /\ state = "complete" /\ shutdown = "no") =>
     TargetTids \subseteq runq_tasksrun \ tasks_covered

\* BB_NUMBER_THREADS bounds the processes, setscene and normal ones together.
ThreadLimit == Cardinality(procs) =< NumberTasks

\* What the executor believes to be running is what runs: stats.active counts
\* the normal processes and sq_live lists the setscene ones, so that finish()
\* waits for all of them and an exit is booked on the right variant.
BookkeepingExact ==
  pc # "done" => /\ active = Cardinality(Running("task"))
                 /\ sq.live = Running("setscene")

\* holdoff_tasks at work: no task executes while a setscene task that would
\* make it unnecessary is running or still undecided.
HoldoffRespected ==
  \A t \in Running("task") : \A s \in Undecided : t # s /\ t \notin SqCoveredTasks[s]

\* "No task should end up in both covered and uncovered, that is a bug."
CoverExclusive == sq.covered \cap sq.notcovered = {}

\* The sanity checks of execute() and summarise_scenequeue_errors never fire:
\* the executor only ends in the failed state because a task failed.
FailedMeansTaskFailed == state = "failed" => failed_tids # {}

\* An undisturbed build that is reported complete completed every task.  (With
\* BB_SETSCENE_ENFORCE a failed restore stops the build by itself.)
CompleteMeansBuilt ==
  (state = "complete" /\ shutdown = "no" /\ ~SetsceneOnly /\ ~Enforce) =>
     runq_complete = Tasks /\ failed_tids = {}

\* The workers are only torn down when no process is left in them, except by
\* a forced shutdown, which kills the processes.
NothingLeftRunning == pc = "done" => procs = {}

\* Nothing runs twice: no process, normal or setscene, is started for a task
\* that is complete, in whatever order deferrals and failures are settled.
StartOnce == [][\A p \in procs' \ procs : p.tid \notin runq_complete]_vars

\* W contains what its members need.
NeedsClosed(W) == \A t \in W : Depends[t] \subseteq W
Needs(t) == {x \in Tasks : \A W \in SUBSET Tasks : (t \in W /\ NeedsClosed(W)) => x \in W}

\* bitbake --continue: "While the target that failed and anything depending
\* on it cannot be built, as much as possible will be built before stopping."
ContinueBuildsTheRest ==
  (pc = "done" /\ ~Halt /\ shutdown = "no" /\ ~SetsceneOnly) =>
     \A t \in Tasks : Needs(t) \cap failed_tids = {} => t \in runq_complete

\* Every build ends, whatever fails, is deferred or is asked to stop.
Termination == <>(pc = "done")
=============================================================================
