-------------------------- MODULE MigrationsProofs --------------------------
(***************************************************************************)
(* What hash equivalence may not break, for every task graph: the order of *)
(* the dependencies, the rule that nothing runs which a setscene task may  *)
(* yet cover, and the decisions that tasks were skipped for.               *)
(***************************************************************************)
EXTENDS Migrations, RunQueueBuildProofs

-----------------------------------------------------------------------------
(***************************************************************************)
(* The steps.                                                              *)
(***************************************************************************)
\* A step of RunQueue, or a report, which only joins the queue
QueueStep == [Next]_vars /\ UNCHANGED <<pending_migrations, changed>>

LEMMA MNextCases ==
  ASSUME [MNext]_mvars
  PROVE  QueueStep \/ HoldoffWaits \/ Rehash \/ Migrate
<1>1. CASE UNCHANGED mvars
  BY <1>1 DEF QueueStep, mvars, hashVars
<1>2. ASSUME NEW t \in SetsceneTids, Report(t) PROVE QueueStep
  BY <1>2 DEF Report, QueueStep
<1>3. CASE MExits \/ ((RequestShutdown \/ Finished) /\ UNCHANGED hashVars)
  BY <1>3 DEF QueueStep, MExits, Next, hashVars
<1>4. CASE MExecutor
  BY <1>4 DEF QueueStep, MExecutor, Next, Executor, hashVars
<1> QED BY <1>1, <1>2, <1>3, <1>4 DEF MNext

\* In process_possible_migrations nothing else can happen, but for a request to stop.
LEMMA MigratingStays ==
  ASSUME pc = "migrate", [Next]_vars
  PROVE  UNCHANGED <<pc, procs, runqVars, sq, sq_deferred, coverVars, sqdone>>
<1>1. ~(execute_runqueue \/ ReadReturn \/ SceneNone \/ HoldoffStep \/ SchedNone \/ Finished)
  BY DEF execute_runqueue, ReadReturn, SceneNone, HoldoffStep, SchedNone, Finished
<1>2. \A t, valid : ~(SceneNotNeeded(t) \/ SceneHardDefer(t) \/ SceneStart(t) \/ SceneSettle(t, valid))
  BY DEF InScan, SceneNotNeeded, SceneHardDefer, SceneStart, SceneSettle
<1>3. \A t, valid : ~(SchedRefuse(t) \/ SchedStart(t) \/ SchedSkip(t, valid) \/ SchedNoExec(t, valid))
  BY DEF InSched, SchedRefuse, SchedStart, SchedSkip, SchedNoExec
<1>4. \A p, ok, valid : ~(SetsceneExit(p, ok) \/ TaskExit(p, valid) \/ TaskExitFailed(p))
  BY DEF Reading, SetsceneExit, TaskExit, TaskExitFailed
<1>5. RequestShutdown \/ UNCHANGED vars
  BY <1>1, <1>2, <1>3, <1>4 DEF Next, Executor, SceneStep, SchedStep, Exits, ProcessExit
<1> QED BY <1>5 DEF RequestShutdown, vars, runqVars

\* Where a step may lead
LEMMA PlacesReached ==
  ASSUME [Next]_vars
  PROVE  /\ pc' = "migrate" => pc = "migrate"
         /\ pc' = "sched" => (pc = "sched" /\ sq' = sq) \/ HoldoffStep
<1>r. \A st, act, live, failed : Return(st, act, live, failed) => pc' \in {"idle", "finish", "done"}
  BY ReturnPlace
<1>1. CASE execute_runqueue \/ ReadReturn \/ SceneNone
  BY <1>1, <1>r DEF execute_runqueue, finish_now, finish, ReadReturn, ReturnUnchanged, SceneNone
<1>2. ASSUME NEW t \in SceneCandidates, NEW valid,
             SceneNotNeeded(t) \/ SceneHardDefer(t) \/ SceneStart(t) \/ SceneSettle(t, valid)
      PROVE  pc' \in {"idle", "finish", "done", "scan", "holdoff"}
  BY <1>2, <1>r DEF SceneNotNeeded, SceneHardDefer, SceneStart, SceneSettle, ReturnUnchanged, InScan
<1>3. CASE HoldoffStep
  BY <1>3, <1>r DEF HoldoffStep
<1>4. ASSUME NEW t \in SchedCandidates, NEW valid,
             SchedRefuse(t) \/ SchedStart(t) \/ SchedSkip(t, valid) \/ SchedNoExec(t, valid)
      PROVE  pc' \in {"idle", "finish", "done", "wait"}
  BY <1>4, <1>r DEF SchedRefuse, SchedStart, SchedSkip, SchedNoExec, ReturnUnchanged
<1>5. CASE SchedNone
  BY <1>5, <1>r DEF SchedNone, ReturnUnchanged
<1>6. ASSUME NEW p, NEW ok, NEW valid, SetsceneExit(p, ok) \/ TaskExit(p, valid) \/ TaskExitFailed(p)
      PROVE  pc' = pc /\ pc \in {"execute", "wait", "finish"}
  BY <1>6 DEF Reading, SetsceneExit, TaskExit, TaskExitFailed
<1>7. CASE RequestShutdown \/ UNCHANGED vars
  BY <1>7 DEF RequestShutdown, vars
<1> QED
  BY <1>1, <1>2, <1>3, <1>4, <1>5, <1>6, <1>7
     DEF Next, Executor, SceneStep, SchedStep, Exits, ProcessExit, Finished

-----------------------------------------------------------------------------
(***************************************************************************)
(* Types.                                                                  *)
(***************************************************************************)
MTypeOK ==
  /\ TypeOK
  /\ updated_taskhash_queue \subseteq SetsceneTids
  /\ pending_migrations \subseteq SetsceneTids /\ changed \in BOOLEAN

LEMMA UnsettleType ==
  ASSUME TypeOK, NEW T \in SUBSET SetsceneTids
  PROVE  /\ Unsettle(T) \in SqType
         /\ Unsettle(T).running = sq.running \ T /\ Unsettle(T).live = sq.live
         /\ Unsettle(T).covered = sq.covered \ T /\ Unsettle(T).notcovered = sq.notcovered \ T
<1> DEFINE below   == UNION {SqCoveredTasks[t] : t \in T}
           settled == (sq.covered \cup sq.notcovered) \ T
           free    == {t \in T : \/ SqRevdeps[t] = {}
                                 \/ /\ HardDepsRev[t] \cap (sq.notcovered \ T) = {}
                                    /\ SqRevdeps[t] \subseteq settled}
           u == Unsettle(T)
<1>1. u = [sq EXCEPT !.done = (@ \ T) \ (below \ (runq_complete \cup Unskippable)),
                     !.buildable = (@ \ T) \cup free,
                     !.running = @ \ T, !.outrightfail = @ \ T,
                     !.covered = @ \ T, !.notcovered = @ \ T]
  BY DEF Unsettle
<1>2. free \subseteq SetsceneTids
  OBVIOUS
<1> HIDE DEF below, free, u
<1>3. /\ u \in SqType /\ u.running = sq.running \ T /\ u.live = sq.live
      /\ u.covered = sq.covered \ T /\ u.notcovered = sq.notcovered \ T
  BY <1>1, <1>2 DEF TypeOK, SqType
<1> QED BY <1>3 DEF u

\* Skipping some of the tasks T
LEMMA SkipSome ==
  ASSUME NEW s \in SqType, NEW T \in SUBSET SetsceneTids
  PROVE  LET u == Skip(s, T) IN
         \E K \in SUBSET T :
           /\ u \in SqType /\ u.running = s.running \cup K /\ u.live = s.live
           /\ u.covered = s.covered \cup K /\ u.notcovered = s.notcovered
<1> DEFINE K == {t \in T : t \in NoExec \/ stamppresent(t)}
           u == scenequeue_updatecounters(Touch(s, K), K, {})
<1>1. Skip(s, T) = u
  BY DEF Skip
<1>2. K \in SUBSET T /\ K \in SUBSET SetsceneTids
  OBVIOUS
<1> HIDE DEF K
<1>3. Touch(s, K) \in SqType
  BY <1>2, TouchGrows DEF SqGrows
<1>4. u \in SqType
  <2>1. {} \in SUBSET SetsceneTids
    OBVIOUS
  <2> QED BY <1>2, <1>3, <2>1, UpdateCounters DEF SqGrows
<1>5. u.running = s.running \cup K /\ u.live = s.live
  BY <1>2, SkipExact
<1>6. u.covered = s.covered \cup K /\ u.notcovered = s.notcovered
  BY <1>2, SkipCovers
<1> HIDE DEF u
<1> QED BY <1>1, <1>2, <1>4, <1>5, <1>6

LEMMA RecheckSame ==
  ASSUME NEW s \in SqType, NEW T \in SUBSET SetsceneTids, NEW deferred, NEW valid
  PROVE  LET u == Recheck(s, T, deferred, valid) IN
           /\ u \in SqType /\ u.running = s.running /\ u.live = s.live
           /\ u.covered = s.covered /\ u.notcovered = s.notcovered
  BY DEF Recheck, SqType

\* What fails with t is t, or was not settled.
LEMMA FailSetOpen ==
  ASSUME NEW s, NEW t \in SetsceneTids
  PROVE  FailSet(s, t) \subseteq (SetsceneTids \ Settled(s)) \cup {t}
<1> DEFINE F0 == (SetsceneTids \ Settled(s)) \cup {t}
           Falls(d) == /\ d \notin s.covered \cup s.notcovered
                       /\ d \notin NoExec /\ ~stamppresent(d)
           Closed(F) == \A d \in SetsceneTids :
                          (HardDepsRev[d] \cap F # {} /\ Falls(d)) => d \in F
<1>1. F0 \in SUBSET SetsceneTids /\ t \in F0
  OBVIOUS
<1>2. Closed(F0)
  BY DEF Settled
<1>3. \A x \in FailSet(s, t) : \A F \in SUBSET SetsceneTids : (t \in F /\ Closed(F)) => x \in F
  BY DEF FailSet
<1> QED
  <2> HIDE DEF F0, Closed
  <2>1. FailSet(s, t) \subseteq F0
    BY <1>1, <1>2, <1>3
  <2> QED BY <2>1 DEF F0

LEMMA FailHardSome ==
  ASSUME NEW s \in SqType, NEW T \in SUBSET SetsceneTids
  PROVE  LET u == FailHard(s, T) IN
         \E F \in SUBSET SetsceneTids :
           /\ F \subseteq (SetsceneTids \ Settled(s)) \cup T
           /\ u \in SqType /\ u.running = s.running \cup F /\ u.live = s.live
           /\ u.covered = s.covered /\ u.notcovered = s.notcovered \cup F
<1> DEFINE H == {u \in T : HardDepsRev[u] \cap (sq.notcovered \ T) # {}}
           F == UNION {FailSet(s, t) : t \in H}
           v == Touch(s, F)
           u == scenequeue_updatecounters(v, {}, F)
<1>1. FailHard(s, T) = u
  BY DEF FailHard
<1>2. F \in SUBSET SetsceneTids /\ F \subseteq (SetsceneTids \ Settled(s)) \cup T
  <2>1. H \subseteq T
    OBVIOUS
  <2> HIDE DEF H
  <2>2. ASSUME NEW t \in H PROVE FailSet(s, t) \subseteq (SetsceneTids \ Settled(s)) \cup T
    BY <2>1, FailSetOpen
  <2> QED BY <2>1, <2>2
<1> HIDE DEF F
<1>3. /\ v \in SqType /\ v.running = s.running \cup F /\ v.live = s.live
      /\ v.covered = s.covered /\ v.notcovered = s.notcovered
  BY <1>2, TouchGrows DEF SqGrows, Touch, SqType
<1> HIDE DEF v
<1>4. {} \in SUBSET SetsceneTids
  OBVIOUS
<1>5. u \in SqType
  BY <1>2, <1>3, <1>4, UpdateCounters DEF SqGrows
<1>6. /\ u.running = v.running /\ u.live = v.live
      /\ u.covered = v.covered \cup {} /\ u.notcovered = v.notcovered \cup F
  BY <1>3 DEF scenequeue_updatecounters, SqType
<1> HIDE DEF u
<1> QED BY <1>1, <1>2, <1>3, <1>5, <1>6

LEMMA AgainSame ==
  ASSUME NEW s \in SqType, NEW update \in BOOLEAN
  PROVE  LET u == Again(s, update) IN
           /\ u \in SqType /\ u.running = s.running /\ u.live = s.live
           /\ u.covered = s.covered /\ u.notcovered = s.notcovered
           /\ update => u.needupdate
           /\ ~update => u = s
  BY DEF Again, SqType

\* The tasks T start over: K of them are skipped at once, and F fail, of the tasks T
\* and those that were undecided.
Restarted(T) ==
  \E K \in SUBSET T, F \in SUBSET SetsceneTids :
    /\ F \subseteq Undecided \cup T
    /\ sq' \in SqType /\ sq'.needupdate /\ sq'.live = sq.live
    /\ sq'.running = (sq.running \ T) \cup K \cup F
    /\ sq'.covered = (sq.covered \ T) \cup K
    /\ sq'.notcovered = (sq.notcovered \ T) \cup F

LEMMA RestartStep ==
  ASSUME TypeOK, NEW T \in SUBSET SetsceneTids, NEW valid,
         sq' = Again(FailHard(Recheck(Skip(Unsettle(T), T), T, sq_deferred', valid), T), TRUE)
  PROVE  Restarted(T)
<1> DEFINE s0 == Unsettle(T)
           s1 == Skip(s0, T)
           s2 == Recheck(s1, T, sq_deferred', valid)
           s3 == FailHard(s2, T)
<1>1. /\ s0 \in SqType /\ s0.running = sq.running \ T /\ s0.live = sq.live
      /\ s0.covered = sq.covered \ T /\ s0.notcovered = sq.notcovered \ T
  BY UnsettleType
<1> HIDE DEF s0
<1>2. PICK K \in SUBSET T :
        /\ s1 \in SqType /\ s1.running = s0.running \cup K /\ s1.live = s0.live
        /\ s1.covered = s0.covered \cup K /\ s1.notcovered = s0.notcovered
  BY <1>1, SkipSome
<1> HIDE DEF s1
<1>3. /\ s2 \in SqType /\ s2.running = s1.running /\ s2.live = s1.live
      /\ s2.covered = s1.covered /\ s2.notcovered = s1.notcovered
  BY <1>2, RecheckSame
<1> HIDE DEF s2
<1>4. PICK F \in SUBSET SetsceneTids :
        /\ F \subseteq (SetsceneTids \ Settled(s2)) \cup T
        /\ s3 \in SqType /\ s3.running = s2.running \cup F /\ s3.live = s2.live
        /\ s3.covered = s2.covered /\ s3.notcovered = s2.notcovered \cup F
  BY <1>3, FailHardSome
<1> HIDE DEF s3
<1>5. sq' = Again(s3, TRUE)
  BY DEF s0, s1, s2, s3
<1>6. /\ sq' \in SqType /\ sq'.running = s3.running /\ sq'.live = s3.live
      /\ sq'.covered = s3.covered /\ sq'.notcovered = s3.notcovered /\ sq'.needupdate
  BY <1>4, <1>5, AgainSame
<1>7. F \subseteq Undecided \cup T
  BY <1>1, <1>2, <1>3, <1>4 DEF Settled, Undecided
<1>8. /\ sq'.live = sq.live /\ sq'.running = (sq.running \ T) \cup K \cup F
      /\ sq'.covered = (sq.covered \ T) \cup K /\ sq'.notcovered = (sq.notcovered \ T) \cup F
  BY <1>1, <1>2, <1>3, <1>4, <1>6
<1> QED BY <1>6, <1>7, <1>8 DEF Restarted

\* The second half of process_possible_migrations: a task is found that would have to
\* run again, nothing starts over, or some tasks do.
LEMMA MigrateCases ==
  ASSUME MTypeOK, Migrate
  PROVE  /\ Migrating \in SUBSET SetsceneTids
         /\ \/ /\ \E t \in Migrating : Rerun(t)
               /\ sq' = sq /\ sq_deferred' = sq_deferred /\ state' = "cleanup"
               /\ sstamp' = sstamp /\ \E t \in SetsceneTids : failed_tids' = failed_tids \cup {t}
            \/ /\ \A t \in Migrating : ~Rerun(t)
               /\ \A t \in SetsceneTids : sq_deferred'[t] \in {sq_deferred[t]} \cup Deferrals(t)
               /\ sq_deferred' \in [SetsceneTids -> SetsceneTids \cup {None}]
               /\ UNCHANGED <<state, failed_tids>>
               /\ \/ Migrating = {} /\ sq' = Again(sq, changed)
                  \/ Restarted(Migrating)
<1> DEFINE T == Migrating
<1>1. T \in SUBSET SetsceneTids
  BY DEF Migrating, MTypeOK
<1> HIDE DEF T
<1>2. CASE \E t \in T : Rerun(t)
  BY <1>1, <1>2 DEF Migrate, T
<1>3. CASE ~ \E t \in T : Rerun(t)
  <2>1. PICK after \in [T -> SetsceneTids \cup {None}] :
          /\ \A t \in T : after[t] \in Deferrals(t)
          /\ sq_deferred' = [t \in SetsceneTids |-> IF t \in T THEN after[t] ELSE sq_deferred[t]]
    BY <1>3 DEF Migrate, T
  <2>2. sq_deferred' \in [SetsceneTids -> SetsceneTids \cup {None}]
    BY <1>1, <2>1 DEF MTypeOK, TypeOK
  <2>3. \A t \in SetsceneTids : sq_deferred'[t] \in {sq_deferred[t]} \cup Deferrals(t)
    BY <1>1, <2>1
  <2>4. \/ T = {} /\ sq' = Again(sq, changed)
        \/ \E valid \in SUBSET T, s \in {Skip(Unsettle(T), T)} :
             \E u \in {Recheck(s, T, sq_deferred', valid)} : sq' = Again(FailHard(u, T), TRUE)
    BY <1>3 DEF Migrate, T
  <2>5. ASSUME NEW valid,
               sq' = Again(FailHard(Recheck(Skip(Unsettle(T), T), T, sq_deferred', valid), T), TRUE)
        PROVE  Restarted(T)
    BY <1>1, <2>5, RestartStep DEF MTypeOK
  <2>6. (T = {} /\ sq' = Again(sq, changed)) \/ Restarted(T)
    BY <2>4, <2>5
  <2>7. UNCHANGED <<state, failed_tids>>
    BY <1>3 DEF Migrate, T
  <2> QED BY <1>1, <1>3, <2>2, <2>3, <2>6, <2>7 DEF T
<1> QED BY <1>2, <1>3

LEMMA MTypeNext == MTypeOK /\ [MNext]_mvars => MTypeOK'
<1> SUFFICES ASSUME MTypeOK, [MNext]_mvars PROVE MTypeOK'
  OBVIOUS
<1>1. updated_taskhash_queue' \subseteq SetsceneTids
  BY DEF MNext, mvars, hashVars, MExecutor, MExits, Report, HoldoffWaits, Rehash, Migrate, MTypeOK
<1>2. CASE QueueStep
  BY <1>1, <1>2, TypeNext DEF QueueStep, MTypeOK
<1>3. CASE HoldoffWaits
  <2>1. sq' = sq \/ sq' = [sq EXCEPT !.needupdate = FALSE]
    BY <1>3 DEF HoldoffWaits, update_holdofftasks
  <2>2. sq' \in SqType
    BY <2>1 DEF MTypeOK, TypeOK, SqType
  <2>3. sq.done \subseteq Tasks /\ Undecided \subseteq SetsceneTids
    BY DEF Undecided, MTypeOK, TypeOK, SqType
  <2>4. NotCoveredTasks \subseteq Tasks /\ CoveredTasks \subseteq Tasks /\ HoldoffTasks \subseteq Tasks
    <3>1. UNION {SqCoveredTasks[t] \ runq_complete : t \in Undecided} \subseteq Tasks
      BY <2>3, GraphTypes
    <3> QED BY <2>3, <3>1, GraphAssumption DEF NotCoveredTasks, CoveredTasks, HoldoffTasks
  <2>5. /\ tasks_covered' \subseteq Tasks /\ tasks_notcovered' \subseteq Tasks
        /\ holdoff_tasks' \subseteq Tasks /\ runq_buildable' \subseteq Tasks
    BY <1>3, <2>4 DEF HoldoffWaits, update_holdofftasks, MTypeOK, TypeOK, coverVars
  <2> QED BY <1>1, <1>3, <2>2, <2>5 DEF HoldoffWaits, MTypeOK, TypeOK, Places, stampVars, hashVars
<1>4. CASE Rehash
  <2>1. /\ nstamp' \in [Tasks -> {None, Old, New}] /\ sstamp' \in [Tasks -> {None, Old, New}]
        /\ pending_migrations' \subseteq SetsceneTids /\ changed' \in BOOLEAN
    BY <1>4 DEF Rehash, Renamed, MTypeOK, TypeOK
  <2>2. /\ UNCHANGED <<opt, state, shutdown, procs, runqVars, sq, sq_deferred, coverVars, sqdone>>
        /\ pc' = "migrate"
    BY <1>4 DEF Rehash
  <2> QED BY <1>1, <2>1, <2>2 DEF MTypeOK, TypeOK, Places, runqVars, coverVars
<1>5. CASE Migrate
  <2>1. sq' \in SqType
    BY <1>5, MigrateCases, AgainSame DEF Restarted, MTypeOK, TypeOK
  <2>2. /\ sq_deferred' \in [SetsceneTids -> SetsceneTids \cup {None}]
        /\ state' \in States /\ failed_tids' \subseteq Tasks
    BY <1>5, MigrateCases, GraphAssumption DEF MTypeOK, TypeOK, States
  <2>3. sstamp' \in [Tasks -> {None, Old, New}] /\ sqdone' \in BOOLEAN
    BY <1>5 DEF Migrate, MTypeOK, TypeOK
  <2>4. pending_migrations' \subseteq SetsceneTids /\ changed' \in BOOLEAN /\ pc' \in Places
    BY <1>5 DEF Migrate, MTypeOK, Places
  <2>5. UNCHANGED <<opt, shutdown, procs, runq_buildable, runq_running, runq_complete, runq_tasksrun,
                    active, coverVars, nstamp>>
    BY <1>5 DEF Migrate
  <2> QED BY <1>1, <2>1, <2>2, <2>3, <2>4, <2>5 DEF MTypeOK, TypeOK, coverVars
<1> QED BY <1>2, <1>3, <1>4, <1>5, MNextCases

LEMMA MTypeInit == MInit => MTypeOK
  BY TypeInit DEF MInit, MTypeOK

\* The executor's state keeps its shape when hashes change, too.
THEOREM MTypeCorrect == MSpec => []TypeOK
<1>1. MTypeOK => TypeOK
  BY DEF MTypeOK
<1> QED BY <1>1, MTypeInit, MTypeNext, PTL DEF MSpec

-----------------------------------------------------------------------------
(***************************************************************************)
(* Dependency order: a new hash takes no completion back.                  *)
(***************************************************************************)
LEMMA MDepsNext == MTypeOK /\ DepsInv /\ [MNext]_mvars => DepsInv'
<1> SUFFICES ASSUME MTypeOK, DepsInv, [MNext]_mvars PROVE DepsInv'
  OBVIOUS
<1>1. CASE QueueStep
  BY <1>1, DepsNext DEF QueueStep, MTypeOK
<1>2. CASE HoldoffWaits
  <2>1. runq_complete' = runq_complete /\ Running("task")' = Running("task")
    BY <1>2 DEF HoldoffWaits, Running
  <2>2. \/ runq_buildable' = runq_buildable
        \/ runq_buildable' = runq_buildable \cup
            {t \in NotCoveredTasks \cup CoveredTasks : Depends[t] \subseteq runq_complete}
    BY <1>2 DEF HoldoffWaits, update_holdofftasks
  <2> QED BY <2>1, <2>2 DEF DepsInv
<1>3. CASE Rehash \/ Migrate
  <2>1. procs' = procs /\ runq_buildable' = runq_buildable /\ runq_complete' = runq_complete
    BY <1>3 DEF Rehash, Migrate, runqVars
  <2> QED BY <2>1 DEF DepsInv, Running
<1> QED BY <1>1, <1>2, <1>3, MNextCases

\* A task's process only ever runs when every dependency of the task has been
\* completed, also when hashes change and setscene tasks are taken back.
THEOREM DependenciesFirstRehashed == MSpec => []DepsFirst
<1>1. MInit => DepsInv
  BY DEF MInit, Init, DepsInv, Running
<1>2. DepsInv => DepsFirst
  BY DEF DepsInv, DepsFirst
<1> QED BY <1>1, <1>2, MTypeInit, MTypeNext, MDepsNext, PTL DEF MSpec

-----------------------------------------------------------------------------
(***************************************************************************)
(* The inductive invariant.  Unlike in a build without hash equivalence, a *)
(* setscene task can fail again while it is decided, so that LiveOK of     *)
(* RunQueueProofs is lost; what is kept is that a live task is not         *)
(* covered, and that a task waiting to migrate is notcovered.              *)
(***************************************************************************)
\* No two setscene tasks have the same recipe and name: a build of one multiconfig.
UniqueNames == \A t, u \in SetsceneTids : NameOf[t] = NameOf[u] => t = u

SceneInv ==
  /\ NoneDeferred
  /\ Settled(sq) \cup sq.live \subseteq sq.running
  /\ sq.live \cap sq.covered = {}

\* What the processes belong to
ProcInv ==
  /\ \A p \in procs : IF p.kind = "task"
                      THEN p.tid \in runq_running \ (runq_complete \ SetsceneTids)
                      ELSE p.tid \in SetsceneTids \cap (sq.live \cup runq_running)
  /\ runq_complete \subseteq runq_running

\* What an undecided setscene task may cover has not been started.
OpenInv ==
  \A s \in Undecided : /\ s \notin runq_running
                       /\ SqCoveredTasks[s] \cap (runq_running \ runq_complete) = {}

\* update_holdofftasks has been called for the latest decisions, or will be.
UpToDate ==
  /\ sq.needupdate \/ /\ HoldoffOK
                      /\ tasks_covered = CoveredTasks /\ tasks_notcovered = NotCoveredTasks
  /\ pc = "sched" => ~sq.needupdate

PendingInv ==
  /\ pending_migrations \cap (sq.covered \cup sq.live) = {}
  /\ pc # "migrate" => pending_migrations \subseteq sq.notcovered

MInv == MTypeOK /\ SceneInv /\ ProcInv /\ OpenInv /\ UpToDate /\ PendingInv /\ CompleteInv

\* What sq_task_failoutright does to a record
LEMMA FailExact ==
  ASSUME NEW s \in SqType, NEW t \in SetsceneTids
  PROVE  LET u == sq_task_failoutright(s, t) IN
         \E F \in SUBSET SetsceneTids :
           /\ F \subseteq (SetsceneTids \ Settled(s)) \cup {t}
           /\ u \in SqType /\ u.running = s.running \cup F /\ u.live = s.live
           /\ u.covered = s.covered /\ u.notcovered = s.notcovered \cup F /\ u.needupdate
<1> DEFINE F == FailSet(s, t)
           v == Touch(s, F)
           u == scenequeue_updatecounters(v, {}, F)
<1>1. sq_task_failoutright(s, t) = u
  BY DEF sq_task_failoutright
<1>2. F \in SUBSET SetsceneTids /\ F \subseteq (SetsceneTids \ Settled(s)) \cup {t}
  BY FailSetOpen DEF FailSet
<1> HIDE DEF F
<1>3. /\ v \in SqType /\ v.running = s.running \cup F /\ v.live = s.live
      /\ v.covered = s.covered /\ v.notcovered = s.notcovered
  BY <1>2, TouchGrows DEF SqGrows, Touch, SqType
<1> HIDE DEF v
<1>4. {} \in SUBSET SetsceneTids
  OBVIOUS
<1>5. u \in SqType
  BY <1>2, <1>3, <1>4, UpdateCounters DEF SqGrows
<1>6. /\ u.running = v.running /\ u.live = v.live /\ u.needupdate
      /\ u.covered = v.covered \cup {} /\ u.notcovered = v.notcovered \cup F
  BY <1>3 DEF scenequeue_updatecounters, SqType
<1> HIDE DEF u
<1> QED BY <1>1, <1>2, <1>3, <1>5, <1>6

\* A step of RunQueue decides undecided tasks, or settles a live one.
Decides ==
  /\ sq.covered \subseteq sq'.covered
  /\ sq'.covered \subseteq sq.covered \cup Undecided \cup sq.live
  /\ sq.notcovered \subseteq sq'.notcovered /\ sq'.notcovered \subseteq sq.notcovered \cup Undecided
  /\ sq'.live \subseteq sq.live \cup Undecided
  /\ sq'.needupdate \/ SameDecisions(sq, sq')

\* The record of a step that is not about the scenequeue
LEMMA SameRecord ==
  ASSUME SceneInv, sq' = sq, sq_deferred' = sq_deferred
  PROVE  SceneInv' /\ Decides
  BY DEF SceneInv, Decides, NoneDeferred, SameDecisions, Settled

\* The candidates of the setscene loop
LEMMA MSceneStep ==
  ASSUME TypeOK, SceneInv, NEW t \in SceneCandidates, NEW valid,
         SceneNotNeeded(t) \/ SceneHardDefer(t) \/ SceneStart(t) \/ SceneSettle(t, valid)
  PROVE  SceneInv' /\ Decides
<1>t. sq \in SqType /\ sq_deferred \in [SetsceneTids -> SetsceneTids \cup {None}]
  BY DEF TypeOK
<1>c. t \in SetsceneTids /\ t \notin sq.running /\ t \in Undecided /\ t \notin sq.live
  BY <1>t DEF SceneCandidates, SceneInv, SqType, Undecided, Settled
<1>d. NoneDeferred'
  <2>1. sq_deferred' = sq_deferred \/ sq_deferred' = [sq_deferred EXCEPT ![t] = None]
    BY DEF SceneNotNeeded, SceneHardDefer, SceneStart, SceneSettle
  <2> QED BY <2>1, <1>t DEF SceneInv, NoneDeferred
<1>1. CASE sq' = sq_task_skip(sq, t)
  <2>1. sq' = scenequeue_updatecounters(Touch(sq, {t}), {t}, {})
    BY <1>1 DEF sq_task_skip, sq_task_completeoutright
  <2>2. {t} \in SUBSET SetsceneTids
    BY <1>c
  <2>3. /\ sq'.running = sq.running \cup {t} /\ sq'.live = sq.live /\ sq'.needupdate
        /\ sq'.covered = sq.covered \cup {t} /\ sq'.notcovered = sq.notcovered
    BY <1>t, <2>1, <2>2, SkipExact, SkipCovers
  <2> QED BY <1>c, <1>d, <2>3 DEF SceneInv, Decides, Settled
<1>2. CASE sq' = sq_task_failoutright(sq, t)
  <2>1. PICK F \in SUBSET SetsceneTids :
           /\ F \subseteq (SetsceneTids \ Settled(sq)) \cup {t}
           /\ sq'.running = sq.running \cup F /\ sq'.live = sq.live
           /\ sq'.covered = sq.covered /\ sq'.notcovered = sq.notcovered \cup F /\ sq'.needupdate
    BY <1>t, <1>c, <1>2, FailExact
  <2> QED BY <1>c, <1>d, <2>1, UndecidedIs DEF SceneInv, Decides, Settled
<1>3. CASE SceneHardDefer(t)
  <2>1. /\ sq'.running = sq.running /\ sq'.live = sq.live /\ SameDecisions(sq, sq')
        /\ sq'.covered = sq.covered /\ sq'.notcovered = sq.notcovered
    BY <1>3, <1>t DEF SceneHardDefer, SqType, SameDecisions
  <2> QED BY <1>d, <2>1 DEF SceneInv, Decides, Settled
<1>4. CASE SceneStart(t)
  <2>1. /\ sq'.running = sq.running \cup {t} /\ sq'.live = sq.live \cup {t} /\ SameDecisions(sq, sq')
        /\ sq'.covered = sq.covered /\ sq'.notcovered = sq.notcovered
    BY <1>4, <1>t DEF SceneStart, SqType, SameDecisions
  <2> QED BY <1>c, <1>d, <2>1 DEF SceneInv, Decides, Settled, Undecided
<1> QED BY <1>1, <1>2, <1>3, <1>4 DEF SceneNotNeeded, SceneSettle

\* The exit of a setscene process
LEMMA MSceneExit ==
  ASSUME TypeOK, SceneInv, NEW p \in procs, NEW ok, SetsceneExit(p, ok)
  PROVE  SceneInv' /\ Decides
<1> DEFINE t == p.tid
           u == Settle(t, ok)
<1>t. sq \in SqType
  BY DEF TypeOK
<1>1. t \in sq.live /\ sq' = [u EXCEPT !.live = @ \ {t}] /\ sq_deferred' = sq_deferred
  BY DEF SetsceneExit
<1>2. t \in SetsceneTids
  BY <1>t, <1>1 DEF SqType
<1>3. u \in SqType
  BY <1>t, <1>2, SettleType
<1>4. /\ sq'.running = u.running /\ sq'.live = u.live \ {t} /\ sq'.needupdate = u.needupdate
      /\ sq'.covered = u.covered /\ sq'.notcovered = u.notcovered
  <2> HIDE DEF u
  <2> QED BY <1>1, <1>3 DEF SqType
<1>5. NoneDeferred'
  BY <1>1 DEF SceneInv, NoneDeferred
<1>6. CASE ok
  <2>1. u = scenequeue_updatecounters(sq, {t}, {})
    BY <1>6 DEF Settle, sq_task_completeoutright
  <2>2. /\ u.running = sq.running /\ u.live = sq.live /\ u.needupdate
        /\ u.covered = sq.covered \cup {t} /\ u.notcovered = sq.notcovered \cup {}
    BY <2>1, <1>t DEF scenequeue_updatecounters, SqType
  <2> HIDE DEF u
  <2> QED BY <1>1, <1>4, <1>5, <2>2 DEF SceneInv, Decides, Settled
<1>7. CASE ~ok
  <2>1. u = sq_task_failoutright(sq, t)
    BY <1>7 DEF Settle
  <2>2. PICK F \in SUBSET SetsceneTids :
           /\ F \subseteq (SetsceneTids \ Settled(sq)) \cup {t}
           /\ u.running = sq.running \cup F /\ u.live = sq.live
           /\ u.covered = sq.covered /\ u.notcovered = sq.notcovered \cup F /\ u.needupdate
    BY <1>t, <1>2, <2>1, FailExact
  <2>3. t \notin sq.covered
    BY <1>1 DEF SceneInv
  <2>4. F \subseteq sq.notcovered \cup Undecided
    BY <1>2, <2>2, <2>3, UndecidedIs DEF Settled
  <2> HIDE DEF u
  <2> QED BY <1>1, <1>4, <1>5, <2>2, <2>4 DEF SceneInv, Decides, Settled
<1> QED BY <1>6, <1>7

\* update_holdofftasks, in either of the two steps that call it
LEMMA HoldoffUpdates ==
  ASSUME TypeOK, SceneInv, UpToDate, update_holdofftasks,
         UNCHANGED <<sq_deferred, runq_complete>>
  PROVE  /\ SceneInv' /\ UpToDate' /\ ~sq'.needupdate
         /\ sq'.covered = sq.covered /\ sq'.notcovered = sq.notcovered /\ sq'.live = sq.live
<1>t. sq \in SqType
  BY DEF TypeOK
<1>1. \/ sq' = sq /\ UNCHANGED coverVars /\ ~sq.needupdate
      \/ /\ sq' = [sq EXCEPT !.needupdate = FALSE]
         /\ tasks_notcovered' = NotCoveredTasks /\ tasks_covered' = CoveredTasks
         /\ holdoff_tasks' = HoldoffTasks
  BY DEF update_holdofftasks
<1>2. /\ sq'.covered = sq.covered /\ sq'.notcovered = sq.notcovered /\ sq'.live = sq.live
      /\ sq'.running = sq.running /\ sq'.done = sq.done /\ ~sq'.needupdate
  BY <1>1, <1>t DEF SqType
<1>3. SceneInv'
  BY <1>2 DEF SceneInv, NoneDeferred, Settled
<1>4. Undecided' = Undecided /\ NotCoveredTasks' = NotCoveredTasks /\ CoveredTasks' = CoveredTasks
  BY <1>2 DEF Undecided, NotCoveredTasks, CoveredTasks, CoveredBy
<1>5. CASE sq' = sq /\ UNCHANGED coverVars /\ ~sq.needupdate
  BY <1>2, <1>3, <1>4, <1>5 DEF UpToDate, HoldoffOK, coverVars
<1>6. CASE /\ tasks_notcovered' = NotCoveredTasks /\ tasks_covered' = CoveredTasks
           /\ holdoff_tasks' = HoldoffTasks
  <2>1. HoldoffOK'
    BY <1>4, <1>6 DEF HoldoffOK, HoldoffTasks
  <2> QED BY <1>2, <1>3, <1>4, <1>6, <2>1 DEF UpToDate
<1> QED BY <1>1, <1>5, <1>6

\* The decisions of a step of RunQueue
LEMMA PlainDecides ==
  ASSUME TypeOK, SceneInv, [Next]_vars
  PROVE  HoldoffStep \/ (SceneInv' /\ Decides /\ UNCHANGED coverVars)
<1> DEFINE Goal == SceneInv' /\ Decides /\ UNCHANGED coverVars
<1>1. CASE execute_runqueue \/ ReadReturn \/ SceneNone \/ RequestShutdown \/ UNCHANGED vars
  BY <1>1, SameRecord DEF execute_runqueue, ReadReturn, SceneNone, SceneUnchanged, RequestShutdown, vars
<1>2. ASSUME NEW t \in SceneCandidates, NEW valid,
             SceneNotNeeded(t) \/ SceneHardDefer(t) \/ SceneStart(t) \/ SceneSettle(t, valid)
      PROVE  Goal
  <2>1. UNCHANGED coverVars
    BY <1>2 DEF SceneNotNeeded, SceneHardDefer, SceneStart, SceneSettle, SceneUnchanged
  <2> QED BY <1>2, <2>1, MSceneStep
<1>3. ASSUME NEW t \in SchedCandidates, SchedRefuse(t) \/ SchedStart(t) PROVE Goal
  BY <1>3, SameRecord DEF SchedRefuse, SchedStart, SchedUnchanged
<1>4. ASSUME NEW t \in SchedCandidates, NEW valid, SchedSkip(t, valid) \/ SchedNoExec(t, valid)
      PROVE  Goal
  <2>1. t \in Tasks
    BY DEF SchedCandidates, TypeOK
  <2>2. /\ \E buildable, ss : task_completeoutright(t, buildable, ss, valid)
        /\ UNCHANGED coverVars
    BY <1>4 DEF SchedSkip, SchedNoExec, SchedUnchanged
  <2> QED BY <2>1, <2>2, CompleteIdle, SameRecord DEF SceneInv
<1>5. CASE SchedNone
  <2>1. sq' = sq /\ sq_deferred' = sq_deferred /\ UNCHANGED coverVars
    BY <1>5 DEF SchedNone, SchedUnchanged, ForceDeferred, SceneInv, NoneDeferred
  <2> QED BY <2>1, SameRecord
<1>6. ASSUME NEW p \in procs, NEW ok, SetsceneExit(p, ok) PROVE Goal
  BY <1>6, MSceneExit DEF SetsceneExit
<1>7. ASSUME NEW p \in procs, NEW valid, TaskExit(p, valid) PROVE Goal
  <2>1. p.tid \in Tasks
    BY DEF TypeOK, Procs
  <2>2. /\ \E buildable, ss : task_completeoutright(p.tid, buildable, ss, valid)
        /\ UNCHANGED coverVars
    BY <1>7 DEF TaskExit
  <2> QED BY <2>1, <2>2, CompleteIdle, SameRecord DEF SceneInv
<1>8. ASSUME NEW p \in procs, TaskExitFailed(p) PROVE Goal
  BY <1>8, SameRecord DEF TaskExitFailed
<1> QED
  BY <1>1, <1>2, <1>3, <1>4, <1>5, <1>6, <1>7, <1>8
     DEF Next, Executor, SceneStep, SchedStep, Exits, ProcessExit, Finished

\* How the tasks that were started and completed change
TasksChange ==
  /\ runq_complete \subseteq runq_complete' /\ runq_running \subseteq runq_running'
  /\ \A t \in runq_running' \ runq_running : pc = "sched" /\ t \in SchedCandidates

LEMMA TasksStep ==
  ASSUME [Next]_vars
  PROVE  TasksChange
<1> USE DEF TasksChange
<1>1. CASE execute_runqueue \/ ReadReturn \/ SceneNone \/ RequestShutdown \/ HoldoffStep \/ SchedNone
           \/ UNCHANGED vars
  BY <1>1 DEF execute_runqueue, ReadReturn, SceneNone, SceneUnchanged, RequestShutdown, HoldoffStep,
              SchedNone, vars, runqVars
<1>2. ASSUME NEW t \in SceneCandidates, NEW valid,
             SceneNotNeeded(t) \/ SceneHardDefer(t) \/ SceneStart(t) \/ SceneSettle(t, valid)
      PROVE  TasksChange
  BY <1>2 DEF SceneNotNeeded, SceneHardDefer, SceneStart, SceneSettle, SceneUnchanged, runqVars
<1>3. ASSUME NEW t \in SchedCandidates, NEW valid,
             SchedRefuse(t) \/ SchedStart(t) \/ SchedSkip(t, valid) \/ SchedNoExec(t, valid)
      PROVE  TasksChange
  BY <1>3 DEF SchedRefuse, SchedStart, SchedSkip, SchedNoExec, InSched, task_completeoutright
<1>4. ASSUME NEW p \in procs, NEW ok, NEW valid,
             SetsceneExit(p, ok) \/ TaskExit(p, valid) \/ TaskExitFailed(p)
      PROVE  TasksChange
  BY <1>4 DEF SetsceneExit, TaskExit, TaskExitFailed, task_completeoutright, runqVars
<1> QED
  BY <1>1, <1>2, <1>3, <1>4
     DEF Next, Executor, SceneStep, SchedStep, Exits, ProcessExit, Finished

\* A task that starts runs, or is complete at once; it is not below an undecided
\* setscene task, nor one itself.
LEMMA StartedOutside ==
  ASSUME UpToDate, pc = "sched", NEW t \in SchedCandidates, NEW s \in Undecided
  PROVE  t # s /\ t \notin SqCoveredTasks[s] \ runq_complete
  BY DEF UpToDate, HoldoffOK, SchedCandidates

LEMMA OpenStep ==
  ASSUME UpToDate, OpenInv, TasksChange, Undecided' \subseteq Undecided
  PROVE  OpenInv'
<1> SUFFICES ASSUME NEW s \in Undecided',
                    \/ s \in runq_running'
                    \/ \E d \in SqCoveredTasks[s] : d \in runq_running' \ runq_complete'
             PROVE  FALSE
  BY DEF OpenInv
<1>1. s \in Undecided
  OBVIOUS
<1>2. ASSUME NEW d \in runq_running' \ runq_running, d = s \/ d \in SqCoveredTasks[s] \ runq_complete'
      PROVE  FALSE
  BY <1>1, <1>2, StartedOutside DEF TasksChange
<1>3. s \notin runq_running'
  BY <1>1, <1>2 DEF OpenInv
<1>4. PICK d \in SqCoveredTasks[s] : d \in runq_running' \ runq_complete'
  BY <1>3
<1>5. d \in runq_running \ runq_complete
  BY <1>2, <1>4 DEF TasksChange
<1> QED BY <1>1, <1>4, <1>5 DEF OpenInv

\* Processes and what they belong to
LEMMA ProcStep ==
  ASSUME TypeOK, ProcInv, [Next]_vars
  PROVE  ProcInv'
<1>u. ASSUME procs' \subseteq procs, runq_running' = runq_running, runq_complete' = runq_complete,
             sq.live \subseteq sq'.live
      PROVE  ProcInv'
  BY <1>u DEF ProcInv
<1>t. sq \in SqType
  BY DEF TypeOK
<1>1. CASE execute_runqueue \/ ReadReturn \/ SceneNone \/ RequestShutdown \/ UNCHANGED vars
  <2>1. procs' \subseteq procs
    BY <1>1 DEF execute_runqueue, finish_now, ReadReturn, SceneNone, RequestShutdown, vars
  <2>2. runq_running' = runq_running /\ runq_complete' = runq_complete /\ sq' = sq
    BY <1>1 DEF execute_runqueue, ReadReturn, SceneNone, SceneUnchanged, RequestShutdown, vars, runqVars
  <2> QED BY <1>u, <2>1, <2>2
<1>2. ASSUME NEW t \in SceneCandidates, NEW valid,
             SceneNotNeeded(t) \/ SceneHardDefer(t) \/ SceneStart(t) \/ SceneSettle(t, valid)
      PROVE  ProcInv'
  <2>1. t \in SetsceneTids
    BY <1>t DEF SceneCandidates, SqType
  <2>2. runq_running' = runq_running /\ runq_complete' = runq_complete
    BY <1>2 DEF SceneNotNeeded, SceneHardDefer, SceneStart, SceneSettle, SceneUnchanged, runqVars
  <2>3. sq.live \subseteq sq'.live
    <3>1. CASE SceneNotNeeded(t) \/ SceneSettle(t, valid)
      BY <3>1, <1>t, <2>1, SkipGrows, FailGrows DEF SceneNotNeeded, SceneSettle, SqGrows
    <3>2. CASE SceneHardDefer(t) \/ SceneStart(t)
      BY <3>2, <1>t DEF SceneHardDefer, SceneStart, SqType
    <3> QED BY <1>2, <3>1, <3>2
  <2>4. CASE SceneStart(t)
    <3>1. procs' = procs \cup {Proc(t, "setscene")} /\ t \in sq'.live
      BY <2>4, <1>t DEF SceneStart, SqType
    <3>2. Proc(t, "setscene").tid = t /\ Proc(t, "setscene").kind = "setscene"
      BY DEF Proc
    <3> QED BY <2>1, <2>2, <2>3, <3>1, <3>2 DEF ProcInv
  <2>5. CASE SceneNotNeeded(t) \/ SceneHardDefer(t) \/ SceneSettle(t, valid)
    BY <2>5, <1>u, <2>2, <2>3 DEF SceneNotNeeded, SceneHardDefer, SceneSettle
  <2> QED BY <1>2, <2>4, <2>5
<1>3. CASE HoldoffStep
  BY <1>3, <1>u, <1>t DEF HoldoffStep, update_holdofftasks, SqType
<1>4. CASE SchedNone
  BY <1>4, <1>u DEF SchedNone, runqVars
<1>5. ASSUME NEW t \in SchedCandidates, SchedRefuse(t) PROVE ProcInv'
  BY <1>5, <1>u DEF SchedRefuse
<1>6. ASSUME NEW t \in SchedCandidates, SchedStart(t) PROVE ProcInv'
  <2>1. Proc(t, "task").tid = t /\ Proc(t, "task").kind = "task" /\ t \notin runq_running
    BY DEF Proc, SchedCandidates
  <2> QED BY <1>6, <2>1 DEF SchedStart, ProcInv
<1>7. ASSUME NEW t \in SchedCandidates, NEW valid, SchedSkip(t, valid) \/ SchedNoExec(t, valid)
      PROVE  ProcInv'
  <2>1. t \in Tasks /\ t \notin runq_running
    BY DEF SchedCandidates, TypeOK
  <2>2. /\ procs' = procs /\ runq_running' = runq_running \cup {t}
        /\ runq_complete' = runq_complete \cup {t}
    BY <1>7 DEF SchedSkip, SchedNoExec, task_completeoutright
  <2>3. sq.live \subseteq sq'.live
    <3>1. /\ (~Enforce) \in BOOLEAN /\ sstamp \in [Tasks -> {None, Old, New}]
          /\ runq_buildable \in SUBSET Tasks /\ runq_buildable \cup {t} \in SUBSET Tasks
      BY <2>1 DEF TypeOK
    <3>2. Unscened(t, ~Enforce) \in [Tasks -> {None, Old, New}]
      BY <2>1, <3>1, StampedType
    <3>3. PICK buildable \in SUBSET Tasks, ss \in [Tasks -> {None, Old, New}] :
             task_completeoutright(t, buildable, ss, valid)
      BY <1>7, <3>1, <3>2 DEF SchedSkip, SchedNoExec
    <3> QED BY <2>1, <3>3, CompleteOutright DEF SqGrows
  <2> QED BY <2>1, <2>2, <2>3 DEF ProcInv
<1>8. ASSUME NEW p \in procs, NEW ok, SetsceneExit(p, ok) PROVE ProcInv'
  <2> DEFINE u == Settle(p.tid, ok)
  <2>1. /\ p.tid \in sq.live /\ sq' = [u EXCEPT !.live = @ \ {p.tid}] /\ procs' = procs \ {p}
        /\ runq_running' = runq_running /\ runq_complete' = runq_complete
    BY <1>8 DEF SetsceneExit, runqVars
  <2>2. p.tid \in SetsceneTids /\ u \in SqType
    BY <1>t, <2>1, SettleType DEF SqType
  <2>3. u.live = sq.live
    <3>1. CASE ok
      <4>1. u = scenequeue_updatecounters(sq, {p.tid}, {})
        BY <3>1 DEF Settle, sq_task_completeoutright
      <4> QED BY <4>1, <1>t DEF scenequeue_updatecounters, SqType
    <3>2. CASE ~ok
      BY <3>2, <1>t, <2>2, FailGrows DEF Settle, SqGrows
    <3> QED BY <3>1, <3>2
  <2>4. sq'.live = sq.live \ {p.tid}
    <3> HIDE DEF u
    <3> QED BY <2>1, <2>2, <2>3 DEF SqType
  <2> HIDE DEF u
  <2>5. ASSUME NEW q \in procs', q.tid = p.tid, q.kind # "task" PROVE q.tid \in runq_running
    <3>1. q \in procs /\ q # p /\ q \in Procs /\ p \in Procs
      BY <2>1 DEF TypeOK
    <3>2. p.kind = "task"
      BY <2>5, <3>1 DEF Procs
    <3> QED BY <2>5, <3>2 DEF ProcInv
  <2>6. ASSUME NEW q \in procs', q.kind # "task"
        PROVE  q.tid \in SetsceneTids \cap (sq'.live \cup runq_running')
    BY <2>1, <2>4, <2>5, <2>6 DEF ProcInv
  <2> QED BY <2>1, <2>6 DEF ProcInv
<1>9. ASSUME NEW p \in procs, NEW valid, TaskExit(p, valid) PROVE ProcInv'
  <2> DEFINE made == p.tid \notin NoStamp /\ ~Enforce
  <2>1. /\ task_completeoutright(p.tid, runq_buildable, Unscened(p.tid, made), valid)
        /\ p.tid \in Tasks /\ made \in BOOLEAN /\ runq_buildable \in SUBSET Tasks
        /\ procs' = procs \ {p} /\ p.tid \notin sq.live /\ runq_running' = runq_running
    BY <1>9 DEF TaskExit, TypeOK, Procs
  <2> HIDE DEF made
  <2>2. Unscened(p.tid, made) \in [Tasks -> {None, Old, New}]
    BY <2>1, StampedType
  <2>3. runq_complete' = runq_complete \cup {p.tid} /\ sq'.live = sq.live
    BY <2>1, <2>2, CompleteOutright DEF SqGrows
  <2>4. p.tid \in runq_running
    BY <2>1 DEF ProcInv
  <2>5. ASSUME NEW q \in procs', q.kind = "task", q.tid = p.tid PROVE q.tid \in SetsceneTids
    <3>1. q \in procs /\ q # p /\ q \in Procs /\ p \in Procs
      BY <2>1 DEF TypeOK
    <3>2. p.kind # "task"
      BY <2>5, <3>1 DEF Procs
    <3> QED BY <2>5, <3>2 DEF ProcInv
  <2>6. ASSUME NEW q \in procs', q.kind = "task"
        PROVE  q.tid \in runq_running' \ (runq_complete' \ SetsceneTids)
    BY <2>1, <2>3, <2>5, <2>6 DEF ProcInv
  <2> QED BY <2>1, <2>3, <2>4, <2>6 DEF ProcInv
<1>10. ASSUME NEW p \in procs, TaskExitFailed(p) PROVE ProcInv'
  BY <1>10, <1>u DEF TaskExitFailed
<1> QED
  BY <1>1, <1>2, <1>3, <1>4, <1>5, <1>6, <1>7, <1>8, <1>9, <1>10
     DEF Next, Executor, SceneStep, SchedStep, Exits, ProcessExit, Finished

\* What was rightly skipped stays so while only the tasks U are, or become, undecided
\* or notcovered, and none of these covers it.
LEMMA StaysSkipped ==
  ASSUME NEW d, RightlySkipped(d), NEW U,
         sq.covered \subseteq sq'.covered, sq'.notcovered \subseteq sq.notcovered \cup U,
         Undecided' \subseteq U, \A s \in U : d # s /\ d \notin SqCoveredTasks[s]
  PROVE  RightlySkipped(d)'
<1>1. d \in CoveredBy(sq'.covered)
  BY DEF RightlySkipped, CoveredBy
<1>2. d \notin CoveredBy(sq'.notcovered)
  BY DEF RightlySkipped, CoveredBy
<1>3. CoveredBy(sq'.covered) = CoveredBy(sq.covered)' /\ CoveredBy(sq'.notcovered) = CoveredBy(sq.notcovered)'
  BY DEF CoveredBy
<1> QED BY <1>1, <1>2, <1>3 DEF RightlySkipped

LEMMA MCompletePlain ==
  ASSUME MInv, [Next]_vars,
         Decides \/ (sq'.covered = sq.covered /\ sq'.notcovered = sq.notcovered)
  PROVE  CompleteInv'
<1>t. TypeOK /\ sq \in SqType
  BY DEF MInv, MTypeOK, TypeOK
<1>1. /\ sq.covered \subseteq sq'.covered /\ sq'.notcovered \subseteq sq.notcovered \cup Undecided
      /\ Undecided' \subseteq Undecided
  BY DEF Decides, Undecided
<1>2. ASSUME NEW d \in runq_complete, RightlySkipped(d) PROVE RightlySkipped(d)'
  <2>1. \A s \in Undecided : d # s /\ d \notin SqCoveredTasks[s]
    BY <1>2 DEF MInv, ProcInv, OpenInv, RightlySkipped
  <2> QED BY <1>1, <1>2, <2>1, StaysSkipped
<1>3. ASSUME NEW t \in SchedCandidates, pc = "sched", t \in tasks_covered, NEW valid,
             task_completeoutright(t, runq_buildable \cup {t}, sstamp, valid)
      PROVE  t \in runq_complete \/ RightlySkipped(t)'
  <2>1. t \in Tasks
    BY <1>t DEF SchedCandidates, TypeOK
  <2>2. sq' = sq
    BY <1>t, <1>3, <2>1, CompleteIdle DEF MInv, SceneInv
  <2>3. tasks_covered = CoveredTasks
    BY <1>3 DEF MInv, UpToDate
  <2>4. /\ t \in CoveredBy(sq.covered)
        /\ t \notin CoveredBy(sq.notcovered) \cup CantSkip \cup (Unskippable \ SetsceneTids)
    BY <1>3, <2>3 DEF CoveredTasks, NotCoveredTasks
  <2>5. t \in runq_complete \/ \A s \in Undecided : t \notin SqCoveredTasks[s]
    BY <1>3, StartedOutside DEF MInv
  <2>6. t \in runq_complete \/ RightlySkipped(t)
    BY <2>4, <2>5 DEF RightlySkipped
  <2>7. RightlySkipped(t)' = RightlySkipped(t)
    BY <2>2 DEF RightlySkipped, CoveredBy, Undecided
  <2> QED BY <2>6, <2>7
<1> SUFFICES ASSUME NEW d \in runq_complete' PROVE d \in runq_tasksrun' \/ RightlySkipped(d)'
  BY DEF CompleteInv
<1>4. CompletesOne
  BY CompleteStep
<1>5. CASE d \in runq_complete
  BY <1>2, <1>4, <1>5 DEF CompletesOne, MInv, CompleteInv
<1>6. CASE d \notin runq_complete
  BY <1>3, <1>4, <1>6 DEF CompletesOne
<1> QED BY <1>5, <1>6

\* A step of RunQueue, or a report
LEMMA MInvPlain ==
  ASSUME MInv, QueueStep, MTypeOK'
  PROVE  MInv' /\ sq.covered \subseteq sq'.covered
<1>t. TypeOK /\ sq \in SqType /\ [Next]_vars
  BY DEF MInv, MTypeOK, TypeOK, QueueStep
<1>p. ProcInv'
  BY <1>t, ProcStep DEF MInv
<1>k. TasksChange
  BY <1>t, TasksStep
<1>r. pending_migrations' = pending_migrations
  BY DEF QueueStep
<1>1. CASE HoldoffStep
  <2>1. update_holdofftasks /\ UNCHANGED <<sq_deferred, runq_complete>> /\ pc = "holdoff"
    BY <1>1 DEF HoldoffStep
  <2>2. /\ SceneInv' /\ UpToDate'
        /\ sq'.covered = sq.covered /\ sq'.notcovered = sq.notcovered /\ sq'.live = sq.live
    BY <1>t, <2>1, HoldoffUpdates DEF MInv
  <2>3. Undecided' = Undecided
    BY <2>2 DEF Undecided
  <2>4. OpenInv'
    BY <1>k, <2>3, OpenStep DEF MInv
  <2>5. PendingInv'
    BY <1>r, <2>1, <2>2 DEF MInv, PendingInv
  <2>6. CompleteInv'
    BY <1>t, <2>2, MCompletePlain
  <2> QED BY <1>p, <2>2, <2>4, <2>5, <2>6 DEF MInv
<1>2. CASE ~HoldoffStep
  <2>1. SceneInv' /\ Decides /\ UNCHANGED coverVars
    BY <1>t, <1>2, PlainDecides DEF MInv
  <2>2. Undecided' \subseteq Undecided
    BY <2>1 DEF Decides, Undecided
  <2>3. OpenInv'
    BY <1>k, <2>2, OpenStep DEF MInv
  <2>4. UpToDate'
    <3>1. pc' = "sched" => pc = "sched" /\ sq' = sq
      BY <1>t, <1>2, PlacesReached
    <3>2. CASE sq'.needupdate
      BY <3>1, <3>2 DEF MInv, UpToDate
    <3>3. CASE ~sq'.needupdate
      <4>1. SameDecisions(sq, sq') /\ ~sq.needupdate
        BY <2>1, <3>3 DEF Decides, SameDecisions
      <4>2. Undecided' = Undecided /\ NotCoveredTasks' = NotCoveredTasks /\ CoveredTasks' = CoveredTasks
        BY <4>1 DEF SameDecisions, Undecided, NotCoveredTasks, CoveredTasks, CoveredBy
      <4>3. HoldoffOK'
        BY <1>k, <2>1, <4>1, <4>2 DEF MInv, UpToDate, HoldoffOK, TasksChange, coverVars
      <4> QED BY <2>1, <3>3, <4>1, <4>2, <4>3 DEF MInv, UpToDate, coverVars
    <3> QED BY <3>2, <3>3
  <2>5. PendingInv'
    <3>1. CASE pc = "migrate"
      <4>1. sq' = sq /\ pc' = pc
        BY <1>t, <3>1, MigratingStays
      <4> QED BY <1>r, <3>1, <4>1 DEF MInv, PendingInv
    <3>2. CASE pc # "migrate"
      <4>1. pc' # "migrate"
        BY <1>t, <3>2, PlacesReached
      <4>2. pending_migrations \subseteq sq.notcovered /\ pending_migrations \cap (sq.covered \cup sq.live) = {}
        BY <3>2 DEF MInv, PendingInv
      <4> QED BY <1>r, <2>1, <4>1, <4>2 DEF PendingInv, Decides, Undecided
    <3> QED BY <3>1, <3>2
  <2>6. CompleteInv'
    BY <1>t, <2>1, MCompletePlain
  <2>7. sq.covered \subseteq sq'.covered
    BY <2>1 DEF Decides
  <2> QED BY <1>p, <2>1, <2>3, <2>4, <2>5, <2>6, <2>7 DEF MInv
<1> QED BY <1>1, <1>2

\* The steps of process_possible_migrations and of the holdoff that waits for reports
LEMMA MInvWaits ==
  ASSUME MInv, HoldoffWaits, MTypeOK'
  PROVE  MInv' /\ sq.covered \subseteq sq'.covered
<1>1. /\ update_holdofftasks /\ UNCHANGED <<sq_deferred, runq_complete>> /\ pc = "holdoff"
      /\ UNCHANGED <<procs, runq_running, runq_tasksrun, pending_migrations>> /\ pc' = "sched"
  BY DEF HoldoffWaits, hashVars
<1>2. /\ SceneInv' /\ UpToDate'
      /\ sq'.covered = sq.covered /\ sq'.notcovered = sq.notcovered /\ sq'.live = sq.live
  BY <1>1, HoldoffUpdates DEF MInv, MTypeOK
<1>3. Undecided' = Undecided
  BY <1>2 DEF Undecided
<1>4. ProcInv' /\ OpenInv' /\ PendingInv'
  BY <1>1, <1>2, <1>3 DEF MInv, ProcInv, OpenInv, PendingInv
<1>5. CompleteInv'
  BY <1>1, <1>2, <1>3 DEF MInv, CompleteInv, RightlySkipped, CoveredBy
<1> QED BY <1>2, <1>4, <1>5 DEF MInv

LEMMA MInvRehash ==
  ASSUME MInv, Rehash, MTypeOK'
  PROVE  MInv' /\ sq.covered \subseteq sq'.covered
<1>1. /\ UNCHANGED <<procs, runqVars, sq, sq_deferred, coverVars>>
      /\ pc = "execute" /\ pc' = "migrate"
  BY DEF Rehash
<1>2. pending_migrations' \subseteq pending_migrations \cup (SetsceneTids \ Keeps)
  BY DEF Rehash
<1>3. PendingInv'
  BY <1>1, <1>2 DEF MInv, PendingInv, Keeps
<1>4. SceneInv' /\ ProcInv' /\ OpenInv' /\ UpToDate' /\ CompleteInv'
  <2>1. SceneInv' /\ ProcInv'
    BY <1>1 DEF MInv, SceneInv, NoneDeferred, ProcInv, Settled, runqVars
  <2>2. OpenInv' /\ CompleteInv'
    BY <1>1 DEF MInv, OpenInv, CompleteInv, RightlySkipped, CoveredBy, Undecided, runqVars
  <2>3. UpToDate'
    BY <1>1 DEF MInv, UpToDate, HoldoffOK, CoveredTasks, NotCoveredTasks, CoveredBy, Undecided,
                runqVars, coverVars
  <2> QED BY <2>1, <2>2, <2>3
<1> QED BY <1>1, <1>3, <1>4 DEF MInv

\* The heart of it: no task was skipped on account of a setscene task that may migrate.
\* It was skipped when nothing undecided or notcovered could cover it, and a task that
\* may migrate is one of these.
LEMMA NobodyReruns ==
  ASSUME MInv, NEW t \in Migrating
  PROVE  /\ t \in SetsceneTids \ (sq.covered \cup sq.live \cup runq_running)
         /\ SqCoveredTasks[t] \cap (runq_running \ runq_complete) = {}
         /\ ~Rerun(t)
<1>1. /\ t \in pending_migrations /\ t \in SetsceneTids
      /\ t \notin sq.covered \cup sq.live \cup runq_running
      /\ SqCoveredTasks[t] \cap (runq_running \ runq_complete) = {}
  BY DEF Migrating, Late, Waits, MInv, MTypeOK, PendingInv
<1>2. t \in sq.notcovered \cup Undecided
  BY <1>1 DEF Undecided
<1>3. ASSUME NEW d \in SqCoveredTasks[t] \cap (runq_complete \ runq_tasksrun) PROVE FALSE
  <2>1. RightlySkipped(d)
    BY <1>3 DEF MInv, CompleteInv
  <2> QED BY <1>2, <1>3, <2>1 DEF RightlySkipped, CoveredBy
<1> QED BY <1>1, <1>3 DEF Rerun

LEMMA MInvMigrate ==
  ASSUME UniqueNames, MInv, Migrate, MTypeOK'
  PROVE  MInv' /\ sq.covered \subseteq sq'.covered /\ \A t \in Migrating : ~Rerun(t)
<1> DEFINE T == Migrating
<1>t. sq \in SqType /\ TypeOK
  BY DEF MInv, MTypeOK, TypeOK
<1>1. \A t \in T : /\ t \in SetsceneTids \ (sq.covered \cup sq.live \cup runq_running)
                   /\ SqCoveredTasks[t] \cap (runq_running \ runq_complete) = {}
                   /\ ~Rerun(t)
  BY NobodyReruns
<1>2. /\ \A t \in SetsceneTids : sq_deferred'[t] \in {sq_deferred[t]} \cup Deferrals(t)
      /\ \/ T = {} /\ sq' = Again(sq, changed)
         \/ Restarted(T)
  BY <1>1, MigrateCases DEF MInv
<1>3. /\ UNCHANGED <<procs, runq_buildable, runq_running, runq_complete, runq_tasksrun, coverVars>>
      /\ pc' = "scan" /\ pending_migrations' = pending_migrations \ (Late \cup T)
  BY DEF Migrate
<1>4. T \subseteq SetsceneTids /\ T \cap (sq.covered \cup sq.live \cup runq_running) = {}
  BY <1>1
<1>5. \A w \in pending_migrations \ (Late \cup T) : SqCoveredTasks[w] \cap (runq_running \ runq_complete) # {}
  BY DEF Migrating, Waits
<1>6. NoneDeferred'
  BY <1>2 DEF MInv, SceneInv, NoneDeferred, Deferrals, UniqueNames
<1> HIDE DEF T
\* What happens to the record in either case
<1>7. PICK K \in SUBSET T, F \in SUBSET SetsceneTids :
        /\ F \subseteq Undecided \cup T /\ sq'.live = sq.live
        /\ sq'.running = (sq.running \ T) \cup K \cup F
        /\ sq'.covered = sq.covered \cup K
        /\ sq'.notcovered = (sq.notcovered \ T) \cup F
        /\ sq'.needupdate \/ sq' = sq
  <2>1. CASE Restarted(T)
    <3>1. sq.covered \ T = sq.covered
      BY <1>4
    <3> QED BY <2>1, <3>1 DEF Restarted
  <2>2. CASE T = {} /\ sq' = Again(sq, changed)
    <3>1. changed \in BOOLEAN
      BY DEF MInv, MTypeOK
    <3>2. /\ sq'.running = sq.running /\ sq'.live = sq.live
          /\ sq'.covered = sq.covered /\ sq'.notcovered = sq.notcovered
          /\ sq'.needupdate \/ sq' = sq
      BY <1>t, <2>2, <3>1, AgainSame
    <3>3. {} \in SUBSET T /\ {} \in SUBSET SetsceneTids
      OBVIOUS
    <3> QED BY <2>2, <3>2, <3>3
  <2> QED BY <1>2, <2>1, <2>2
<1>8. Undecided' \subseteq Undecided \cup T
  BY <1>7 DEF Undecided
<1>9. SceneInv'
  <2>1. sq'.live \cap sq'.covered = {}
    BY <1>4, <1>7 DEF MInv, SceneInv
  <2>2. sq'.covered \cup sq'.notcovered \cup sq'.live \subseteq sq'.running
    BY <1>4, <1>7 DEF MInv, SceneInv, Settled
  <2> QED BY <1>6, <2>1, <2>2 DEF SceneInv, Settled
<1>10. ProcInv'
  BY <1>3, <1>7 DEF MInv, ProcInv
<1>11. OpenInv'
  BY <1>1, <1>3, <1>8 DEF MInv, OpenInv, T
<1>12. UpToDate'
  <2>1. CASE sq'.needupdate
    BY <1>3, <2>1 DEF UpToDate
  <2>2. CASE sq' = sq
    BY <1>3, <2>2 DEF MInv, UpToDate, HoldoffOK, CoveredTasks, NotCoveredTasks, CoveredBy,
                      Undecided, coverVars
  <2> QED BY <1>7, <2>1, <2>2
<1>13. PendingInv'
  <2> SUFFICES ASSUME NEW w \in pending_migrations'
               PROVE  w \in sq'.notcovered /\ w \notin sq'.covered /\ w \notin sq'.live
    BY DEF PendingInv
  <2>1. /\ w \in SetsceneTids \ T /\ w \notin sq.covered \cup sq.live
        /\ SqCoveredTasks[w] \cap (runq_running \ runq_complete) # {}
    BY <1>3, <1>5 DEF MInv, MTypeOK, PendingInv
  <2>2. w \notin Undecided
    BY <2>1 DEF MInv, OpenInv
  <2> QED BY <1>7, <2>1, <2>2 DEF Undecided
<1>14. CompleteInv'
  <2> SUFFICES ASSUME NEW d \in runq_complete, d \notin runq_tasksrun PROVE RightlySkipped(d)'
    BY <1>3 DEF CompleteInv
  <2>1. RightlySkipped(d) /\ d \in runq_running
    BY DEF MInv, CompleteInv, ProcInv
  <2>2. \A s \in Undecided \cup T : d # s /\ d \notin SqCoveredTasks[s]
    BY <1>1, <2>1 DEF MInv, OpenInv, RightlySkipped, Rerun, T
  <2>3. sq.covered \subseteq sq'.covered /\ sq'.notcovered \subseteq sq.notcovered \cup (Undecided \cup T)
    BY <1>7
  <2> QED BY <1>8, <2>1, <2>2, <2>3, StaysSkipped
<1> QED BY <1>1, <1>7, <1>9, <1>10, <1>11, <1>12, <1>13, <1>14 DEF MInv, T

LEMMA MInvInit ==
  ASSUME UniqueNames
  PROVE  MInit => MInv
<1> SUFFICES ASSUME MInit PROVE MInv
  OBVIOUS
<1>1. Init /\ pending_migrations = {} /\ pc = "idle" /\ procs = {}
      /\ runq_running = {} /\ runq_complete = {}
  BY DEF MInit, Init
<1>2. UniqueHashes
  BY NameAssumption DEF UniqueHashes, UniqueNames
<1>3. SceneInv
  BY <1>1, <1>2, DecideInit, BookInit DEF SceneInv, DecideInv, BookInv, LiveOK, Settled
<1>4. UpToDate
  BY <1>1, InitCovers DEF UpToDate
<1>5. ProcInv /\ OpenInv /\ PendingInv /\ CompleteInv
  BY <1>1 DEF ProcInv, OpenInv, PendingInv, CompleteInv
<1> QED BY <1>3, <1>4, <1>5, MTypeInit DEF MInv

LEMMA MInvNext ==
  ASSUME UniqueNames, MInv, [MNext]_mvars
  PROVE  MInv' /\ sq.covered \subseteq sq'.covered
<1>1. MTypeOK'
  BY MTypeNext DEF MInv
<1> QED BY <1>1, MNextCases, MInvPlain, MInvWaits, MInvRehash, MInvMigrate

LEMMA MInvAlways ==
  ASSUME UniqueNames
  PROVE  MSpec => []MInv
<1>1. MInv /\ [MNext]_mvars => MInv'
  BY MInvNext
<1> QED BY <1>1, MInvInit, PTL DEF MSpec

-----------------------------------------------------------------------------
(***************************************************************************)
(* The theorems, for builds of one multiconfig.                            *)
(***************************************************************************)
\* What is restored, or skipped as not needed, stays so: no report takes a covered
\* setscene task back after tasks were skipped on its account, and "Task %s marked as
\* completed but now needing to rerun? Halting build." is never reached.
THEOREM CoveredStaysCovered ==
  ASSUME UniqueNames
  PROVE  MSpec => CoveredStays
<1> DEFINE Stays == sq.covered \subseteq sq'.covered
                    /\ (pc = "migrate" => \A t \in Migrating : ~Rerun(t))
<1>1. MInv /\ [MNext]_mvars => [Stays]_mvars
  BY MInvNext, NobodyReruns
<1>2. CoveredStays <=> [][Stays]_mvars
  BY DEF CoveredStays
<1> QED BY <1>1, <1>2, MInvAlways, PTL DEF MSpec

\* No task executes while a setscene task that would make it unnecessary is running
\* or undecided, also when that task has been taken back and starts over.
THEOREM HoldoffRespectedRehashed ==
  ASSUME UniqueNames
  PROVE  MSpec => []HoldoffRespected
<1>1. ASSUME MInv, NEW t \in Running("task"), NEW s \in Undecided
      PROVE  t # s /\ t \notin SqCoveredTasks[s]
  <2>1. t \in runq_running \ (runq_complete \ SetsceneTids)
    BY <1>1 DEF Running, MInv, ProcInv
  <2>2. s \in SetsceneTids
    BY DEF Undecided
  <2>3. SqCoveredTasks[s] \cap SetsceneTids = {}
    BY <2>2 DEF SqCoveredTasks, PlainBelow
  <2> QED BY <1>1, <2>1, <2>3 DEF MInv, OpenInv
<1>2. MInv => HoldoffRespected
  BY <1>1 DEF HoldoffRespected
<1> QED BY <1>2, MInvAlways, PTL

\* No process, normal or setscene, is started for a task that is complete, although
\* a setscene task may be tried again.
THEOREM StartOnceRehashed ==
  ASSUME UniqueNames
  PROVE  MSpec => StartOnce
<1> DEFINE Once == \A p \in procs' \ procs : p.tid \notin runq_complete
<1>1. ASSUME MInv, [MNext]_mvars PROVE Once
  <2>t. sq \in SqType
    BY <1>1 DEF MInv, MTypeOK, TypeOK
  <2>1. CASE QueueStep
    <3>1. ASSUME NEW t \in SceneCandidates, SceneStart(t) PROVE Once
      <4>1. t \in SetsceneTids /\ t \notin sq.running
        BY <2>t DEF SceneCandidates, SqType
      <4>2. t \in Undecided
        BY <1>1, <4>1 DEF MInv, SceneInv, Undecided, Settled
      <4>3. t \notin runq_complete
        BY <1>1, <4>2 DEF MInv, OpenInv, ProcInv
      <4>4. procs' = procs \cup {[tid |-> t, kind |-> "setscene"]}
        BY <3>1 DEF SceneStart, Proc
      <4> QED BY <4>3, <4>4
    <3>2. ASSUME NEW t \in SchedCandidates, SchedStart(t) PROVE Once
      <4>1. t \notin runq_complete
        BY <1>1 DEF SchedCandidates, MInv, ProcInv
      <4>2. procs' = procs \cup {[tid |-> t, kind |-> "task"]}
        BY <3>2 DEF SchedStart, Proc
      <4> QED BY <4>1, <4>2
    <3>3. \/ procs' \subseteq procs
          \/ \E s \in SceneCandidates : SceneStart(s)
          \/ \E s \in SchedCandidates : SchedStart(s)
      BY <2>1 DEF QueueStep, Next, Executor, execute_runqueue, finish_now, ReadReturn, SceneStep, SceneNotNeeded,
             SceneHardDefer, SceneSettle, SceneNone, HoldoffStep, SchedStep, SchedRefuse, SchedSkip,
             SchedNoExec, SchedNone, Exits, ProcessExit, SetsceneExit, TaskExit, TaskExitFailed,
             RequestShutdown, Finished, vars
    <3> QED BY <3>1, <3>2, <3>3
  <2>2. CASE HoldoffWaits \/ Rehash \/ Migrate
    BY <2>2 DEF HoldoffWaits, Rehash, Migrate
  <2> QED BY <1>1, <2>1, <2>2, MNextCases
<1>2. StartOnce <=> [][Once]_vars
  BY DEF StartOnce
<1>3. UNCHANGED mvars => UNCHANGED vars
  BY DEF mvars
<1>4. MInv /\ [MNext]_mvars => [Once]_vars
  BY <1>1
<1> QED BY <1>2, <1>4, MInvAlways, PTL DEF MSpec
=============================================================================
