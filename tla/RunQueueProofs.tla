--------------------------- MODULE RunQueueProofs ---------------------------
(***************************************************************************)
(* What RunQueue guarantees for every task graph, every set of setscene    *)
(* tasks and every number of threads.                                      *)
(***************************************************************************)
EXTENDS RunQueue, FiniteSetTheorems, TLAPS

USE DEF None, Old, New

\* The relations of SceneGraph have the types their definitions suggest.
LEMMA GraphTypes ==
  /\ SqRevdeps \in [SetsceneTids -> SUBSET SetsceneTids]
  /\ SqCoveredTasks \in [SetsceneTids -> SUBSET Tasks]
  /\ Unskippable \subseteq Tasks /\ CantSkip \subseteq Tasks
  BY GraphAssumption DEF SqRevdeps, SqCoveredTasks, PlainBelow, Unskippable, CantSkip

\* A released or deferred task is one of the waiting ones.
LEMMA FirstIn == ASSUME NEW S, S # {} PROVE First(S) \in S
  BY DEF First

-----------------------------------------------------------------------------
(***************************************************************************)
(* Scenequeue updates.                                                     *)
(***************************************************************************)
Settled(s) == s.covered \cup s.notcovered

\* What every update of the sq record does: decisions are only added, and an
\* update that adds one asks for a new computation of the holdoff tasks.
SqGrows(s, u) ==
  /\ u \in SqType
  /\ u.live = s.live
  /\ s.running \subseteq u.running
  /\ Settled(s) \subseteq Settled(u)
  /\ u.needupdate \/ (u.needupdate = s.needupdate /\ Settled(u) = Settled(s))

LEMMA UpdateCounters ==
  ASSUME NEW s \in SqType, NEW C \in SUBSET SetsceneTids, NEW F \in SUBSET SetsceneTids
  PROVE  /\ SqGrows(s, scenequeue_updatecounters(s, C, F))
         /\ C \cup F \subseteq Settled(scenequeue_updatecounters(s, C, F))
<1> DEFINE u == scenequeue_updatecounters(s, C, F)
<1>1. DoneWalk(s.done, C \cup F) \subseteq Tasks
  BY DEF DoneWalk
<1>2. /\ u.covered = s.covered \cup C /\ u.notcovered = s.notcovered \cup F
      /\ u.live = s.live /\ u.running = s.running /\ u.needupdate = TRUE
      /\ u.needed = s.needed /\ u.outrightfail = s.outrightfail
      /\ u.buildable \subseteq SetsceneTids
      /\ u.harddeferred \subseteq SetsceneTids
      /\ u.done = s.done \cup DoneWalk(s.done, C \cup F)
  BY GraphTypes, SceneAssumption DEF scenequeue_updatecounters, NowBuildable, StillDeferred, SqType
<1>3. u \in SqType
  BY <1>1, <1>2 DEF scenequeue_updatecounters, SqType
<1> QED BY <1>2, <1>3 DEF SqGrows, Settled

LEMMA TouchGrows ==
  ASSUME NEW s \in SqType, NEW T \in SUBSET SetsceneTids
  PROVE  SqGrows(s, Touch(s, T))
  BY DEF SqGrows, Settled, Touch, SqType

LEMMA SqGrowsTrans ==
  ASSUME NEW s, NEW u, NEW w, SqGrows(s, u), SqGrows(u, w)
  PROVE  SqGrows(s, w)
  BY DEF SqGrows

LEMMA SkipGrows ==
  ASSUME NEW s \in SqType, NEW t \in SetsceneTids
  PROVE  SqGrows(s, sq_task_skip(s, t))
<1>1. SqGrows(s, Touch(s, {t}))
  BY TouchGrows
<1>2. Touch(s, {t}) \in SqType
  BY <1>1 DEF SqGrows
<1>3. SqGrows(Touch(s, {t}), sq_task_skip(s, t))
  BY <1>2, UpdateCounters DEF sq_task_skip, sq_task_completeoutright
<1> QED BY <1>1, <1>3, SqGrowsTrans

LEMMA FailGrows ==
  ASSUME NEW s \in SqType, NEW t \in SetsceneTids
  PROVE  /\ SqGrows(s, sq_task_failoutright(s, t))
         /\ t \in Settled(sq_task_failoutright(s, t))
<1> DEFINE F == FailSet(s, t)
<1>1. F \in SUBSET SetsceneTids /\ t \in F
  BY DEF FailSet
<1>2. SqGrows(s, Touch(s, F)) /\ Touch(s, F) \in SqType
  BY <1>1, TouchGrows DEF SqGrows
<1>3. sq_task_failoutright(s, t) = scenequeue_updatecounters(Touch(s, F), {}, F)
  BY DEF sq_task_failoutright
<1>4. /\ SqGrows(Touch(s, F), sq_task_failoutright(s, t))
      /\ {} \cup F \subseteq Settled(sq_task_failoutright(s, t))
  <2> HIDE DEF F
  <2> QED BY <1>1, <1>2, <1>3, UpdateCounters
<1> QED BY <1>1, <1>2, <1>4, SqGrowsTrans

LEMMA DataGrows ==
  ASSUME NEW s \in SqType, NEW t \in SetsceneTids, NEW deferred, NEW valid
  PROVE  SqGrows(s, update_scenequeue_data(s, t, deferred, valid))
<1> DEFINE s1 == [s EXCEPT !.outrightfail = @ \ {t}]
           s2 == [s1 EXCEPT !.outrightfail = @ \cup {t}]
<1>1. SqGrows(s, s1) /\ SqGrows(s, s2) /\ s1 \in SqType
  BY DEF SqGrows, Settled, SqType
<1>2. SqGrows(s1, sq_task_skip(s1, t))
  BY <1>1, SkipGrows
<1>3. SqGrows(s, sq_task_skip(s1, t))
  BY <1>1, <1>2, SqGrowsTrans
<1> QED BY <1>1, <1>3 DEF update_scenequeue_data

-----------------------------------------------------------------------------
(***************************************************************************)
(* Types.                                                                  *)
(***************************************************************************)
LEMMA ReturnType ==
  ASSUME NEW st \in States, NEW act, NEW live, NEW failed, Return(st, act, live, failed)
  PROVE  state' \in States /\ pc' \in Places
  BY DEF Return, finish, States, Places

LEMMA ReturnUnchangedType ==
  ASSUME TypeOK, ReturnUnchanged
  PROVE  state' \in States /\ pc' \in Places
  BY ReturnType DEF ReturnUnchanged, TypeOK

LEMMA StampedType ==
  ASSUME TypeOK, NEW t \in Tasks, NEW made \in BOOLEAN
  PROVE  /\ Stamped(t, made) \in [Tasks -> {None, Old, New}]
         /\ Unscened(t, made) \in [Tasks -> {None, Old, New}]
  BY DEF TypeOK, Stamped, Unscened

LEMMA CompleteOutright ==
  ASSUME TypeOK, NEW t \in Tasks, NEW buildable \in SUBSET Tasks,
         NEW ss \in [Tasks -> {None, Old, New}], NEW valid,
         task_completeoutright(t, buildable, ss, valid)
  PROVE  /\ runq_complete' = runq_complete \cup {t}
         /\ runq_buildable' \subseteq Tasks
         /\ buildable \subseteq runq_buildable'
         /\ \A r \in runq_buildable' \ buildable : Depends[r] \subseteq runq_complete'
         /\ SqGrows(sq, sq')
         /\ sq_deferred' \in [SetsceneTids -> SetsceneTids \cup {None}]
         /\ sstamp' \in [Tasks -> {None, Old, New}]
<1> DEFINE waiting == {d \in SetsceneTids : sq_deferred[d] = t}
           found == First(waiting)
           deferred == [d \in SetsceneTids |->
                          IF d \notin waiting THEN sq_deferred[d]
                          ELSE IF d = found THEN None ELSE found]
<1>1. waiting # {} => found \in SetsceneTids
  BY FirstIn
<1>2. /\ runq_complete' = runq_complete \cup {t}
      /\ runq_buildable' = buildable \cup (Revdeps(t) \cap NewlyBuildable(runq_complete \cup {t}))
  BY DEF task_completeoutright
<1>3. /\ sq_deferred' = IF waiting = {} THEN sq_deferred ELSE deferred
      /\ sq' = IF waiting = {} THEN sq ELSE update_scenequeue_data(sq, found, deferred, valid)
      /\ sstamp' = IF waiting # {} /\ found \in NoExec THEN [ss EXCEPT ![found] = New] ELSE ss
  BY DEF task_completeoutright
<1>4. SqGrows(sq, sq)
  BY DEF SqGrows, TypeOK
<1>5. SqGrows(sq, sq')
  <2> HIDE DEF waiting, found, deferred
  <2> QED BY <1>1, <1>3, <1>4, DataGrows DEF TypeOK
<1>6. sq_deferred' \in [SetsceneTids -> SetsceneTids \cup {None}]
  <2>1. CASE waiting = {}
    BY <2>1, <1>3 DEF TypeOK
  <2>2. CASE waiting # {}
    <3>1. found \in SetsceneTids /\ sq_deferred' = deferred
      BY <2>2, <1>1, <1>3
    <3>2. \A d \in SetsceneTids : sq_deferred[d] \in SetsceneTids \cup {None}
      BY DEF TypeOK
    <3> HIDE DEF found, waiting
    <3> QED BY <3>1, <3>2
  <2> QED BY <2>1, <2>2
<1>7. sstamp' \in [Tasks -> {None, Old, New}]
  <2> HIDE DEF found, waiting
  <2> QED BY <1>3, <1>1, GraphAssumption
<1>8. Revdeps(t) \subseteq Tasks
  BY DEF Revdeps
<1> QED BY <1>2, <1>5, <1>6, <1>7, <1>8 DEF NewlyBuildable

LEMMA TypeInit == Init => TypeOK
<1> SUFFICES ASSUME Init PROVE TypeOK
  OBVIOUS
<1>1. PICK valid \in SUBSET SetsceneTids : sq = InitSq(valid)
  BY DEF Init
<1> DEFINE skipped == {t \in SetsceneTids : t \in NoExec \/ stamppresent(t)}
           built   == [buildable |-> {t \in SetsceneTids : SqRevdeps[t] = {}},
                  running |-> {}, live |-> {}, covered |-> {}, notcovered |-> {},
                  done |-> Unskippable \ SetsceneTids,
                  needed |-> {}, harddeferred |-> {},
                  outrightfail |-> {t \in SetsceneTids \ (skipped \cup valid) :
                                      InitDeferred[t] = None},
                  needupdate |-> TRUE]
<1>2. sq = scenequeue_updatecounters(Touch(built, skipped), skipped, {})
  BY <1>1 DEF InitSq
<1>3. built \in SqType
  BY GraphTypes DEF SqType
<1>4. skipped \in SUBSET SetsceneTids
  OBVIOUS
<1>5. Touch(built, skipped) \in SqType
  <2> HIDE DEF built, skipped
  <2> QED BY <1>3, <1>4, TouchGrows DEF SqGrows
<1>6. sq \in SqType
  <2> HIDE DEF built, skipped
  <2> QED BY <1>2, <1>4, <1>5, UpdateCounters DEF SqGrows
<1>7. sq_deferred \in [SetsceneTids -> SetsceneTids \cup {None}]
  <2>1. ASSUME NEW t \in SetsceneTids
        PROVE  First({u \in SetsceneTids : HashIndex[u] = HashIndex[t]}) \in SetsceneTids
    <3>1. {u \in SetsceneTids : HashIndex[u] = HashIndex[t]} # {}
      OBVIOUS
    <3> QED BY <3>1, FirstIn
  <2> QED BY <2>1 DEF Init, InitDeferred
<1>8. runq_buildable \subseteq Tasks
  BY GraphTypes DEF Init
<1>9. nstamp \in [Tasks -> {None, Old, New}] /\ sstamp \in [Tasks -> {None, Old, New}]
  BY DEF Init
<1> QED BY <1>6, <1>7, <1>8, <1>9, OptionAssumption DEF Init, TypeOK, States, Places

LEMMA TypeNext == TypeOK /\ [Next]_vars => TypeOK'
<1> SUFFICES ASSUME TypeOK, [Next]_vars PROVE TypeOK'
  OBVIOUS
<1> USE GraphAssumption
<1> DEFINE Ages == {None, Old, New}
<1>0. opt' \in OptionType
  <2>1. opt' = opt
    BY DEF Next, Executor, Exits, RequestShutdown, Finished, vars
  <2> QED BY <2>1 DEF TypeOK
<1> USE <1>0
<1>1. CASE execute_runqueue
  BY <1>1 DEF execute_runqueue, finish_now, finish, TypeOK, States, Places, runqVars, coverVars, stampVars
<1>2. CASE ReadReturn
  <2>1. state' \in States /\ pc' \in Places
    BY <1>2, ReturnUnchangedType DEF ReadReturn, TypeOK, States, Places
  <2> QED BY <1>2, <2>1 DEF ReadReturn, TypeOK, runqVars, coverVars, stampVars
<1>3. ASSUME NEW t \in SceneCandidates, NEW valid \in BOOLEAN,
             SceneNotNeeded(t) \/ SceneHardDefer(t) \/ SceneStart(t) \/ SceneSettle(t, valid)
      PROVE  TypeOK'
  <2>1. t \in SetsceneTids /\ t \in Tasks /\ HardDepsRev[t] \subseteq SetsceneTids
    BY SceneAssumption DEF SceneCandidates, TypeOK, SqType
  <2>2. sq' \in SqType
    <3>1. CASE SceneNotNeeded(t)
      BY <2>1, <3>1, SkipGrows DEF SceneNotNeeded, SqGrows, TypeOK
    <3>2. CASE SceneHardDefer(t)
      BY <2>1, <3>2 DEF SceneHardDefer, TypeOK, SqType
    <3>3. CASE SceneStart(t)
      BY <2>1, <3>3 DEF SceneStart, TypeOK, SqType
    <3>4. CASE SceneSettle(t, valid)
      BY <2>1, <3>4, SkipGrows, FailGrows DEF SceneSettle, SqGrows, TypeOK
    <3> QED BY <1>3, <3>1, <3>2, <3>3, <3>4
  <2>3. sq_deferred' \in [SetsceneTids -> SetsceneTids \cup {None}]
    BY <1>3 DEF SceneNotNeeded, SceneHardDefer, SceneStart, SceneSettle, TypeOK
  <2>4. state' \in States /\ pc' \in Places
    <3>1. Return(state, active, sq'.live, failed_tids) => state' \in States /\ pc' \in Places
      BY ReturnType DEF TypeOK
    <3> QED BY <1>3, <3>1, ReturnUnchangedType DEF SceneNotNeeded, SceneHardDefer, SceneStart, SceneSettle, TypeOK, Places
  <2>5. procs' \subseteq Procs
    BY <1>3, <2>1 DEF SceneNotNeeded, SceneHardDefer, SceneStart, SceneSettle, TypeOK, Proc, Procs
  <2>6. UNCHANGED <<shutdown, runqVars, coverVars, sqdone, stampVars>>
    BY <1>3 DEF SceneNotNeeded, SceneHardDefer, SceneStart, SceneSettle, SceneUnchanged
  <2> QED BY <2>2, <2>3, <2>4, <2>5, <2>6 DEF TypeOK, runqVars, coverVars, stampVars
<1>4. CASE SceneNone
  BY <1>4 DEF SceneNone, SceneUnchanged, TypeOK, Places, runqVars, coverVars, stampVars
<1>5. CASE HoldoffStep
  <2>1. state' \in States /\ pc' \in Places /\ sqdone' \in BOOLEAN
    BY <1>5, ReturnType DEF HoldoffStep, SceneOver, TypeOK, States, Places
  <2>2. /\ tasks_covered' \subseteq Tasks /\ tasks_notcovered' \subseteq Tasks
        /\ holdoff_tasks' \subseteq Tasks /\ runq_buildable' \subseteq Tasks
        /\ sq' \in SqType
    <3>1. sq.done \subseteq Tasks /\ Undecided \subseteq SetsceneTids
      BY DEF Undecided, TypeOK, SqType
    <3>2. NotCoveredTasks \subseteq Tasks /\ CoveredTasks \subseteq Tasks
      BY <3>1 DEF NotCoveredTasks, CoveredTasks
    <3>3. UNION {SqCoveredTasks[t] \ runq_complete : t \in Undecided} \subseteq Tasks
      BY <3>1, GraphTypes
    <3>4. update_holdofftasks
      BY <1>5 DEF HoldoffStep
    <3>5. sq' = sq \/ sq' = [sq EXCEPT !.needupdate = FALSE]
      BY <3>4 DEF update_holdofftasks
    <3>6. sq' \in SqType
      BY <3>5 DEF TypeOK, SqType
    <3> QED BY <3>1, <3>2, <3>3, <3>4, <3>6 DEF update_holdofftasks, HoldoffTasks, TypeOK, coverVars
  <2> QED BY <1>5, <2>1, <2>2 DEF HoldoffStep, TypeOK, stampVars
<1>6. ASSUME NEW t \in SchedCandidates, NEW valid \in BOOLEAN,
             SchedRefuse(t) \/ SchedStart(t) \/ SchedSkip(t, valid) \/ SchedNoExec(t, valid)
      PROVE  TypeOK'
  <2>1. t \in Tasks
    BY DEF SchedCandidates, TypeOK
  <2>2. CASE SchedRefuse(t)
    <3>1. state' \in States /\ pc' \in Places
      BY <2>2, ReturnType DEF SchedRefuse, AfterFail, TypeOK, States
    <3> QED BY <2>1, <2>2, <3>1, LimitAssumption DEF SchedRefuse, task_fail, SchedUnchanged, TypeOK, coverVars, stampVars
  <2>3. CASE SchedStart(t)
    <3>1. state' \in States /\ pc' \in Places
      BY <2>3, ReturnType DEF SchedStart, TypeOK, Places
    <3> QED BY <2>1, <2>3, <3>1 DEF SchedStart, SchedUnchanged, TypeOK, coverVars, stampVars, Proc, Procs
  <2>4. CASE SchedSkip(t, valid)
    <3>1. state' \in States /\ pc' \in Places
      BY <2>4, ReturnType DEF SchedSkip, TypeOK
    <3>2. task_completeoutright(t, runq_buildable \cup {t}, sstamp, valid)
      BY <2>4 DEF SchedSkip
    <3>3. runq_buildable \cup {t} \in SUBSET Tasks /\ sstamp \in [Tasks -> Ages]
      BY <2>1 DEF TypeOK
    <3>4. /\ runq_complete' \subseteq Tasks /\ runq_buildable' \subseteq Tasks /\ sq' \in SqType
          /\ sq_deferred' \in [SetsceneTids -> SetsceneTids \cup {None}]
          /\ sstamp' \in [Tasks -> Ages]
      <4>1. /\ runq_complete' = runq_complete \cup {t} /\ runq_buildable' \subseteq Tasks
            /\ SqGrows(sq, sq')
            /\ sq_deferred' \in [SetsceneTids -> SetsceneTids \cup {None}]
            /\ sstamp' \in [Tasks -> Ages]
        BY <2>1, <3>2, <3>3, CompleteOutright
      <4> QED BY <2>1, <4>1 DEF SqGrows, TypeOK
    <3> QED BY <2>1, <2>4, <3>1, <3>4 DEF SchedSkip, SchedUnchanged, TypeOK, coverVars
  <2>5. CASE SchedNoExec(t, valid)
    <3>1. state' \in States /\ pc' \in Places
      BY <2>5, ReturnType DEF SchedNoExec, TypeOK
    <3>2. task_completeoutright(t, runq_buildable, Unscened(t, ~Enforce), valid)
      BY <2>5 DEF SchedNoExec
    <3>3. /\ Unscened(t, ~Enforce) \in [Tasks -> Ages] /\ Stamped(t, ~Enforce) \in [Tasks -> Ages]
          /\ runq_buildable \in SUBSET Tasks
      BY <2>1, StampedType DEF TypeOK
    <3>4. /\ runq_complete' \subseteq Tasks /\ runq_buildable' \subseteq Tasks /\ sq' \in SqType
          /\ sq_deferred' \in [SetsceneTids -> SetsceneTids \cup {None}]
          /\ sstamp' \in [Tasks -> Ages]
      <4>1. /\ runq_complete' = runq_complete \cup {t} /\ runq_buildable' \subseteq Tasks
            /\ SqGrows(sq, sq')
            /\ sq_deferred' \in [SetsceneTids -> SetsceneTids \cup {None}]
            /\ sstamp' \in [Tasks -> Ages]
        BY <2>1, <3>2, <3>3, CompleteOutright
      <4> QED BY <2>1, <4>1 DEF SqGrows, TypeOK
    <3> QED BY <2>1, <2>5, <3>1, <3>3, <3>4 DEF SchedNoExec, SchedUnchanged, TypeOK, coverVars
  <2> QED BY <1>6, <2>2, <2>3, <2>4, <2>5
<1>7. CASE SchedNone
  <2>1. state' \in States /\ pc' \in Places
    BY <1>7, ReturnType, ReturnUnchangedType DEF SchedNone, TypeOK, States, Places
  <2>2. sq_deferred' \in [SetsceneTids -> SetsceneTids \cup {None}]
    BY <1>7 DEF SchedNone, ForceDeferred, TypeOK
  <2> QED BY <1>7, <2>1, <2>2 DEF SchedNone, SchedUnchanged, TypeOK, runqVars, coverVars, stampVars
<1>8. ASSUME NEW p \in procs, NEW ok \in BOOLEAN, SetsceneExit(p, ok) PROVE TypeOK'
  <2>1. p.tid \in SetsceneTids
    BY <1>8 DEF SetsceneExit, TypeOK, SqType
  <2>2. Settle(p.tid, ok) \in SqType
    BY <2>1, UpdateCounters, FailGrows DEF Settle, sq_task_completeoutright, SqGrows, TypeOK
  <2>3. sq' = [Settle(p.tid, ok) EXCEPT !.live = @ \ {p.tid}]
    BY <1>8 DEF SetsceneExit
  <2>4. sq' \in SqType
    BY <2>2, <2>3 DEF SqType
  <2> QED BY <1>8, <2>1, <2>4 DEF SetsceneExit, TypeOK, States, runqVars, coverVars
<1>9. ASSUME NEW p \in procs, NEW valid \in BOOLEAN, TaskExit(p, valid) PROVE TypeOK'
  <2> DEFINE made == p.tid \notin NoStamp /\ ~Enforce
  <2>1. p.tid \in Tasks /\ made \in BOOLEAN
    BY DEF TypeOK, Procs
  <2>2. task_completeoutright(p.tid, runq_buildable, Unscened(p.tid, made), valid)
    BY <1>9 DEF TaskExit
  <2>3. /\ Unscened(p.tid, made) \in [Tasks -> Ages] /\ Stamped(p.tid, made) \in [Tasks -> Ages]
        /\ runq_buildable \in SUBSET Tasks
    BY <2>1, StampedType DEF TypeOK
  <2>4. /\ runq_complete' \subseteq Tasks /\ runq_buildable' \subseteq Tasks /\ sq' \in SqType
        /\ sq_deferred' \in [SetsceneTids -> SetsceneTids \cup {None}]
        /\ sstamp' \in [Tasks -> Ages]
    <3>1. /\ runq_complete' = runq_complete \cup {p.tid} /\ runq_buildable' \subseteq Tasks
          /\ SqGrows(sq, sq')
          /\ sq_deferred' \in [SetsceneTids -> SetsceneTids \cup {None}]
          /\ sstamp' \in [Tasks -> Ages]
      <4> HIDE DEF made
      <4> QED BY <2>1, <2>2, <2>3, CompleteOutright
    <3> QED BY <2>1, <3>1 DEF SqGrows, TypeOK
  <2> QED BY <1>9, <2>1, <2>3, <2>4 DEF TaskExit, TypeOK, coverVars
<1>10. ASSUME NEW p \in procs, TaskExitFailed(p) PROVE TypeOK'
  <2>1. p.tid \in Tasks
    BY DEF TypeOK, Procs
  <2> QED BY <1>10, <2>1, LimitAssumption DEF TaskExitFailed, task_fail, AfterFail, TypeOK, States, coverVars, stampVars
<1>11. CASE RequestShutdown
  BY <1>11 DEF RequestShutdown, TypeOK, runqVars, coverVars, stampVars
<1>12. CASE UNCHANGED vars
  BY <1>12 DEF vars, TypeOK, runqVars, coverVars, stampVars
<1> QED
  BY <1>1, <1>2, <1>3, <1>4, <1>5, <1>6, <1>7, <1>8, <1>9, <1>10, <1>11, <1>12
     DEF Next, Executor, SceneStep, SchedStep, Exits, ProcessExit, Finished, Validity

\* The executor's state always has the shape its class gives it, whatever the
\* tasks and the order of their exits.
THEOREM TypeCorrect == Spec => []TypeOK
  BY TypeInit, TypeNext, PTL DEF Spec

-----------------------------------------------------------------------------
(***************************************************************************)
(* Dependency order.  DepsFirst is not inductive: that a task which starts *)
(* has complete dependencies comes from runq_buildable, which the          *)
(* completions and update_holdofftasks both extend.                        *)
(***************************************************************************)
DepsInv ==
  /\ \A t \in runq_buildable : Depends[t] \subseteq runq_complete
  /\ Running("task") \subseteq runq_buildable

\* No step but a start adds a process, so a set that contains the running
\* tasks still does after a step that adds none.
LEMMA RunningShrinks ==
  ASSUME NEW kind, procs' \subseteq procs
  PROVE  Running(kind)' \subseteq Running(kind)
  BY DEF Running

LEMMA DepsNext == TypeOK /\ DepsInv /\ [Next]_vars => DepsInv'
<1> SUFFICES ASSUME TypeOK, DepsInv, [Next]_vars PROVE DepsInv'
  OBVIOUS
\* A step that completes t by task_completeoutright
<1>a. ASSUME NEW t \in Tasks, NEW ss \in [Tasks -> {None, Old, New}], NEW valid,
             NEW buildable \in SUBSET Tasks, buildable = runq_buildable,
             task_completeoutright(t, buildable, ss, valid), procs' \subseteq procs
      PROVE  DepsInv'
  <2>1. /\ runq_complete' = runq_complete \cup {t}
        /\ buildable \subseteq runq_buildable'
        /\ \A r \in runq_buildable' \ buildable : Depends[r] \subseteq runq_complete'
    BY <1>a, CompleteOutright
  <2>2. Running("task")' \subseteq Running("task")
    BY <1>a, RunningShrinks
  <2> QED BY <2>1, <2>2, <1>a DEF DepsInv
\* A step that leaves the tasks and their completion alone
<1>b. ASSUME runq_buildable' = runq_buildable, runq_complete' = runq_complete,
             Running("task")' \subseteq Running("task")
      PROVE  DepsInv'
  BY <1>b DEF DepsInv
<1>c. procs' \subseteq procs => Running("task")' \subseteq Running("task")
  BY RunningShrinks
<1>1. CASE execute_runqueue \/ ReadReturn \/ SceneNone
  <2>1. procs' \subseteq procs
    BY <1>1 DEF execute_runqueue, finish_now, ReadReturn, SceneNone
  <2>2. runq_buildable' = runq_buildable /\ runq_complete' = runq_complete
    BY <1>1 DEF execute_runqueue, ReadReturn, SceneNone, SceneUnchanged, runqVars
  <2> QED BY <2>1, <2>2, <1>b, <1>c
<1>2. ASSUME NEW t \in SceneCandidates, NEW valid,
             SceneNotNeeded(t) \/ SceneHardDefer(t) \/ SceneStart(t) \/ SceneSettle(t, valid)
      PROVE  DepsInv'
  <2>1. Running("task")' \subseteq Running("task")
    <3>1. procs' \subseteq procs \cup {Proc(t, "setscene")}
      BY <1>2 DEF SceneNotNeeded, SceneHardDefer, SceneStart, SceneSettle
    <3> QED BY <3>1 DEF Running, Proc
  <2>2. runq_buildable' = runq_buildable /\ runq_complete' = runq_complete
    BY <1>2 DEF SceneNotNeeded, SceneHardDefer, SceneStart, SceneSettle, SceneUnchanged, runqVars
  <2> QED BY <2>1, <2>2, <1>b
<1>3. CASE HoldoffStep
  <2>1. runq_complete' = runq_complete /\ Running("task")' = Running("task")
    BY <1>3 DEF HoldoffStep, Running
  <2>2. \/ runq_buildable' = runq_buildable
        \/ runq_buildable' = runq_buildable \cup
            {t \in NotCoveredTasks \cup CoveredTasks : Depends[t] \subseteq runq_complete}
    BY <1>3 DEF HoldoffStep, update_holdofftasks
  <2> QED BY <2>1, <2>2 DEF DepsInv
<1>4. ASSUME NEW t \in SchedCandidates, NEW valid,
             SchedRefuse(t) \/ SchedStart(t) \/ SchedSkip(t, valid) \/ SchedNoExec(t, valid)
      PROVE  DepsInv'
  <2>1. t \in runq_buildable /\ t \in Tasks
    BY DEF SchedCandidates, TypeOK
  <2>2. CASE SchedRefuse(t)
    BY <2>2, <1>b, <1>c DEF SchedRefuse
  <2>3. CASE SchedStart(t)
    <3>1. Running("task")' = Running("task") \cup {t}
      <4>1. procs' = procs \cup {Proc(t, "task")}
        BY <2>3 DEF SchedStart
      <4>2. Proc(t, "task").tid = t /\ Proc(t, "task").kind = "task"
        BY DEF Proc
      <4> QED BY <4>1, <4>2 DEF Running
    <3> QED BY <2>1, <2>3, <3>1 DEF SchedStart, DepsInv
  <2>4. CASE SchedSkip(t, valid)
    <3>1. /\ runq_buildable \cup {t} = runq_buildable /\ runq_buildable \in SUBSET Tasks
          /\ sstamp \in [Tasks -> {None, Old, New}]
      BY <2>1 DEF TypeOK
    <3> QED BY <2>1, <2>4, <3>1, <1>a DEF SchedSkip
  <2>5. CASE SchedNoExec(t, valid)
    <3>1. (~Enforce) \in BOOLEAN /\ runq_buildable \in SUBSET Tasks
      BY DEF TypeOK
    <3>2. Unscened(t, ~Enforce) \in [Tasks -> {None, Old, New}]
      BY <2>1, <3>1, StampedType
    <3> QED BY <2>1, <2>5, <3>1, <3>2, <1>a DEF SchedNoExec
  <2> QED BY <1>4, <2>2, <2>3, <2>4, <2>5
<1>5. CASE SchedNone
  BY <1>5, <1>b, <1>c DEF SchedNone, runqVars
<1>6. ASSUME NEW p \in procs, NEW ok, SetsceneExit(p, ok) PROVE DepsInv'
  BY <1>6, <1>b, <1>c DEF SetsceneExit, runqVars
<1>7. ASSUME NEW p \in procs, NEW valid, TaskExit(p, valid) PROVE DepsInv'
  <2> DEFINE made == p.tid \notin NoStamp /\ ~Enforce
  <2>1. p.tid \in Tasks /\ made \in BOOLEAN /\ runq_buildable \in SUBSET Tasks
    BY DEF TypeOK, Procs
  <2>2. /\ task_completeoutright(p.tid, runq_buildable, Unscened(p.tid, made), valid)
        /\ procs' \subseteq procs
    BY <1>7 DEF TaskExit
  <2>3. Unscened(p.tid, made) \in [Tasks -> {None, Old, New}]
    <3> HIDE DEF made
    <3> QED BY <2>1, StampedType
  <2> HIDE DEF made
  <2> QED BY <2>1, <2>2, <2>3, <1>a
<1>8. ASSUME NEW p \in procs, TaskExitFailed(p) PROVE DepsInv'
  BY <1>8, <1>b, <1>c DEF TaskExitFailed
<1>9. CASE RequestShutdown \/ UNCHANGED vars
  BY <1>9, <1>b, <1>c DEF RequestShutdown, vars, runqVars
<1> QED
  BY <1>1, <1>2, <1>3, <1>4, <1>5, <1>6, <1>7, <1>8, <1>9
     DEF Next, Executor, SceneStep, SchedStep, Exits, ProcessExit, Finished

\* A task's process only ever runs when every dependency of the task has been
\* completed, for every graph: the promise of task_completeoutright,
\* update_holdofftasks and the scheduler together.
THEOREM DependenciesFirst == Spec => []DepsFirst
<1>1. Init => DepsInv
  BY DEF Init, DepsInv, Running
<1>2. DepsInv => DepsFirst
  BY DEF DepsInv, DepsFirst
<1> QED BY <1>1, <1>2, TypeInit, TypeNext, DepsNext, PTL DEF Spec

-----------------------------------------------------------------------------
(***************************************************************************)
(* The inductive invariant.  A live setscene task is not settled and was   *)
(* started with its hard dependencies settled, so that no other failure    *)
(* can settle it; a task that runs or is complete is not below an          *)
(* undecided setscene task, so that an exit is booked on the right variant *)
(* of a task.                                                              *)
(***************************************************************************)
LiveOK(s, deferred) ==
  /\ s.live \subseteq s.running /\ Settled(s) \subseteq s.running
  /\ s.live \cap Settled(s) = {}
  /\ \A d \in s.live : HardDepsRev[d] \subseteq Settled(s) /\ deferred[d] = None

\* holdoff_tasks holds what the undecided setscene tasks may still cover.
HoldoffOK ==
  \A s \in Undecided : /\ s \in holdoff_tasks
                       /\ SqCoveredTasks[s] \ runq_complete \subseteq holdoff_tasks

BookInv ==
  /\ LiveOK(sq, sq_deferred)
  /\ pc # "done" => sq.live = Running("setscene")
  /\ runq_complete \subseteq runq_running /\ Running("task") \subseteq runq_running
  /\ sq.needupdate \/ HoldoffOK
  /\ pc = "sched" => HoldoffOK
  /\ HoldoffRespected
  /\ runq_complete \cap Undecided = {}

LEMMA UndecidedIs == Undecided = SetsceneTids \ Settled(sq)
  BY DEF Undecided, Settled

LEMMA UndecidedPrime == Undecided' = SetsceneTids \ Settled(sq')
  BY DEF Undecided, Settled

-----------------------------------------------------------------------------
(***************************************************************************)
(* Settling setscene tasks keeps LiveOK.                                   *)
(***************************************************************************)
LEMMA CountersExact ==
  ASSUME NEW s \in SqType, NEW C, NEW F
  PROVE  /\ scenequeue_updatecounters(s, C, F).running = s.running
         /\ scenequeue_updatecounters(s, C, F).live = s.live
         /\ Settled(scenequeue_updatecounters(s, C, F)) = Settled(s) \cup C \cup F
<1> DEFINE u == scenequeue_updatecounters(s, C, F)
<1>1. u.running = s.running /\ u.live = s.live
  BY DEF scenequeue_updatecounters, SqType
<1>2. u.covered = s.covered \cup C /\ u.notcovered = s.notcovered \cup F
  BY DEF scenequeue_updatecounters, SqType
<1> QED BY <1>1, <1>2 DEF Settled

LEMMA TouchExact ==
  ASSUME NEW s \in SqType, NEW T
  PROVE  /\ Touch(s, T).running = s.running \cup T
         /\ Touch(s, T).live = s.live
         /\ Settled(Touch(s, T)) = Settled(s)
  BY DEF Touch, Settled, SqType

\* Skipping the tasks T: sq_task_skip, and the skips of __init__
LEMMA SkipExact ==
  ASSUME NEW s \in SqType, NEW T \in SUBSET SetsceneTids
  PROVE  LET u == scenequeue_updatecounters(Touch(s, T), T, {})
         IN  /\ u.running = s.running \cup T /\ u.live = s.live
             /\ Settled(u) = Settled(s) \cup T /\ u.needupdate
<1> DEFINE v == Touch(s, T)
           u == scenequeue_updatecounters(v, T, {})
<1>1. /\ v.running = s.running \cup T /\ v.live = s.live
      /\ Settled(v) = Settled(s)
  BY TouchExact
<1>2. v \in SqType
  BY TouchGrows DEF SqGrows
<1>3. /\ u.running = v.running /\ u.live = v.live
      /\ Settled(u) = Settled(v) \cup T \cup {} /\ u.needupdate
  <2> HIDE DEF v
  <2>1. u.needupdate
    BY <1>2 DEF scenequeue_updatecounters, SqType
  <2> QED BY <1>2, <2>1, CountersExact
<1> QED
  <2> HIDE DEF u, v
  <2>1. /\ u.running = s.running \cup T /\ u.live = s.live
        /\ Settled(u) = Settled(s) \cup T /\ u.needupdate
    BY <1>1, <1>3
  <2> QED BY <2>1 DEF u, v

LEMMA SkipOK ==
  ASSUME NEW s \in SqType, NEW deferred, NEW t \in SetsceneTids,
         LiveOK(s, deferred), t \notin s.live
  PROVE  LiveOK(sq_task_skip(s, t), deferred)
<1> DEFINE u == sq_task_skip(s, t)
<1>1. u = scenequeue_updatecounters(Touch(s, {t}), {t}, {})
  BY DEF sq_task_skip, sq_task_completeoutright
<1> HIDE DEF u
<1>2. {t} \in SUBSET SetsceneTids
  OBVIOUS
<1>3. u.running = s.running \cup {t} /\ u.live = s.live /\ Settled(u) = Settled(s) \cup {t}
  BY <1>1, <1>2, SkipExact
<1>4. LiveOK(u, deferred)
  BY <1>3 DEF LiveOK
<1> QED BY <1>4 DEF u

\* The tasks that fail with t were not settled, and but for t not live.
LEMMA FailSetBound ==
  ASSUME NEW s \in SqType, NEW deferred, NEW t \in SetsceneTids,
         LiveOK(s, deferred), t \notin Settled(s)
  PROVE  FailSet(s, t) \subseteq (SetsceneTids \ (Settled(s) \cup s.live)) \cup {t}
<1> DEFINE F0 == (SetsceneTids \ (Settled(s) \cup s.live)) \cup {t}
           Falls(d) == /\ d \notin s.covered \cup s.notcovered
                       /\ d \notin NoExec /\ ~stamppresent(d)
           Closed(F) == \A d \in SetsceneTids :
                          (Falls(d) /\ HardDepsRev[d] \cap F # {}) => d \in F
<1>1. F0 \in SUBSET SetsceneTids /\ t \in F0 /\ F0 \cap Settled(s) = {}
  OBVIOUS
<1>2. Closed(F0)
  <2> SUFFICES ASSUME NEW d \in SetsceneTids, Falls(d), HardDepsRev[d] \cap F0 # {}
               PROVE  d \in F0
    OBVIOUS
  <2>1. d \notin Settled(s)
    BY DEF Settled
  <2>2. d \notin s.live
    BY <1>1 DEF LiveOK
  <2> QED BY <2>1, <2>2
<1>3. \A x \in FailSet(s, t) : \A F \in SUBSET SetsceneTids : (t \in F /\ Closed(F)) => x \in F
  BY DEF FailSet
<1> QED
  <2> HIDE DEF F0, Closed
  <2>1. FailSet(s, t) \subseteq F0
    BY <1>1, <1>2, <1>3
  <2> QED BY <2>1 DEF F0

LEMMA FailOK ==
  ASSUME NEW s \in SqType, NEW deferred, NEW t \in SetsceneTids,
         LiveOK(s, deferred), t \notin Settled(s)
  PROVE  LET u == sq_task_failoutright(s, t)
         IN  /\ u.live = s.live
             /\ LiveOK([u EXCEPT !.live = @ \ {t}], deferred)
<1> DEFINE F == FailSet(s, t)
           u == sq_task_failoutright(s, t)
           w == [u EXCEPT !.live = @ \ {t}]
<1>1. F \in SUBSET SetsceneTids /\ F \subseteq (SetsceneTids \ (Settled(s) \cup s.live)) \cup {t}
  BY FailSetBound DEF FailSet
<1>2. Touch(s, F) \in SqType
  <2> HIDE DEF F
  <2> QED BY <1>1, TouchGrows DEF SqGrows
<1>3. /\ u.running = s.running \cup F /\ u.live = s.live
      /\ Settled(u) = Settled(s) \cup F
  <2>1. u = scenequeue_updatecounters(Touch(s, F), {}, F)
    BY DEF sq_task_failoutright
  <2> HIDE DEF F, u
  <2> QED BY <1>2, <2>1, CountersExact, TouchExact
<1>4. u \in SqType
  BY FailGrows DEF SqGrows
<1>5. w.running = u.running /\ w.live = s.live \ {t} /\ Settled(w) = Settled(u)
  <2> HIDE DEF u
  <2> QED BY <1>3, <1>4 DEF SqType, Settled
<1> QED
  <2> HIDE DEF w, u, F
  <2>1. LiveOK(w, deferred)
    BY <1>1, <1>3, <1>5 DEF LiveOK
  <2> QED BY <1>3, <2>1 DEF w, u

LEMMA DataOK ==
  ASSUME NEW s \in SqType, NEW d0, NEW t \in SetsceneTids, NEW deferred, NEW valid,
         LiveOK(s, d0), t \notin s.live
  PROVE  LiveOK(update_scenequeue_data(s, t, deferred, valid), d0)
<1> DEFINE s1 == [s EXCEPT !.outrightfail = @ \ {t}]
           s2 == [s1 EXCEPT !.outrightfail = @ \cup {t}]
<1>1. s1 \in SqType /\ t \notin s1.live
  BY DEF SqType
<1>2. LiveOK(s1, d0) /\ LiveOK(s2, d0)
  BY DEF LiveOK, Settled, SqType
<1>3. LiveOK(sq_task_skip(s1, t), d0)
  <2> HIDE DEF s1
  <2> QED BY <1>1, <1>2, SkipOK
<1> QED BY <1>2, <1>3 DEF update_scenequeue_data

\* A completion only releases tasks that wait, and none of those is live.
LEMMA CompleteOK ==
  ASSUME TypeOK, NEW t \in Tasks, NEW buildable, NEW ss, NEW valid,
         LiveOK(sq, sq_deferred), task_completeoutright(t, buildable, ss, valid)
  PROVE  LiveOK(sq', sq_deferred')
<1> DEFINE waiting == {d \in SetsceneTids : sq_deferred[d] = t}
           found == First(waiting)
           deferred == [d \in SetsceneTids |->
                          IF d \notin waiting THEN sq_deferred[d]
                          ELSE IF d = found THEN None ELSE found]
<1>1. /\ sq_deferred' = IF waiting = {} THEN sq_deferred ELSE deferred
      /\ sq' = IF waiting = {} THEN sq ELSE update_scenequeue_data(sq, found, deferred, valid)
  BY DEF task_completeoutright
<1>2. CASE waiting = {}
  BY <1>1, <1>2
<1>3. CASE waiting # {}
  <2>1. sq \in SqType /\ sq.live \subseteq SetsceneTids
    BY DEF TypeOK, SqType
  <2>2. found \in waiting
    BY <1>3, FirstIn
  <2>3. \A d \in sq.live : d \notin waiting
    BY GraphAssumption DEF LiveOK
  <2>4. found \in SetsceneTids /\ found \notin sq.live
    BY <2>2, <2>3
  <2>5. \A d \in sq.live : deferred[d] = sq_deferred[d]
    BY <2>1, <2>3
  <2>6. LiveOK(sq, deferred)
    <3> HIDE DEF deferred
    <3> QED BY <2>5 DEF LiveOK
  <2>7. LiveOK(update_scenequeue_data(sq, found, deferred, valid), deferred)
    <3> HIDE DEF deferred, found
    <3> QED BY <2>1, <2>4, <2>6, DataOK
  <2> QED BY <1>1, <1>3, <2>7
<1> QED BY <1>2, <1>3

LEMMA SettleOK ==
  ASSUME TypeOK, NEW t \in sq.live, NEW ok, LiveOK(sq, sq_deferred)
  PROVE  LET w == [Settle(t, ok) EXCEPT !.live = @ \ {t}]
         IN  /\ LiveOK(w, sq_deferred)
             /\ w.live = sq.live \ {t} /\ Settled(sq) \subseteq Settled(w)
             /\ sq.needupdate => w.needupdate
<1> DEFINE u == Settle(t, ok)
           w == [u EXCEPT !.live = @ \ {t}]
<1>1. sq \in SqType /\ t \in SetsceneTids /\ t \in sq.running /\ t \notin Settled(sq)
  BY DEF TypeOK, SqType, LiveOK
<1>2. SqGrows(sq, u)
  BY <1>1, UpdateCounters, FailGrows DEF Settle, sq_task_completeoutright
<1>3. /\ w.live = sq.live \ {t} /\ w.running = u.running
      /\ Settled(w) = Settled(u) /\ w.needupdate = u.needupdate
  <2> HIDE DEF u
  <2> QED BY <1>2 DEF SqGrows, SqType, Settled
<1>4. Settled(sq) \subseteq Settled(w) /\ (sq.needupdate => w.needupdate)
  <2> HIDE DEF u, w
  <2> QED BY <1>2, <1>3 DEF SqGrows
<1>5. LiveOK(w, sq_deferred)
  <2>1. CASE ok
    <3>1. u = scenequeue_updatecounters(sq, {t}, {})
      BY <2>1 DEF Settle, sq_task_completeoutright
    <3>2. u.running = sq.running /\ Settled(u) = Settled(sq) \cup {t} \cup {}
      <4> HIDE DEF u
      <4> QED BY <1>1, <3>1, CountersExact
    <3> HIDE DEF u, w
    <3> QED BY <1>1, <1>3, <3>2 DEF LiveOK
  <2>2. CASE ~ok
    <3>1. w = [sq_task_failoutright(sq, t) EXCEPT !.live = @ \ {t}]
      BY <2>2 DEF Settle
    <3> HIDE DEF w
    <3> QED BY <1>1, <3>1, FailOK
  <2> QED BY <2>1, <2>2
<1> QED BY <1>3, <1>4, <1>5

-----------------------------------------------------------------------------
(***************************************************************************)
(* Steps that start no task and leave holdoff_tasks alone: X is what they  *)
(* complete.                                                               *)
(***************************************************************************)
LEMMA PlainStep ==
  ASSUME BookInv, NEW X, X \cap Undecided = {}, X \subseteq runq_running',
         runq_complete' = runq_complete \cup X, runq_running \subseteq runq_running',
         LiveOK(sq', sq_deferred'), pc' # "done" => sq'.live = Running("setscene")',
         Running("task")' \subseteq Running("task"),
         Settled(sq) \subseteq Settled(sq'), sq.needupdate => sq'.needupdate,
         holdoff_tasks' = holdoff_tasks, pc' = "sched" => pc = "sched"
  PROVE  BookInv'
<1>1. Undecided' \subseteq Undecided
  BY UndecidedIs, UndecidedPrime
<1>2. HoldoffOK => HoldoffOK'
  BY <1>1 DEF HoldoffOK
<1>3. HoldoffRespected'
  BY <1>1 DEF HoldoffRespected, BookInv
<1>4. (runq_complete \cap Undecided = {})'
  BY <1>1 DEF BookInv
<1>5. /\ (runq_complete \subseteq runq_running)'
      /\ (Running("task") \subseteq runq_running)'
  BY DEF BookInv
<1> QED BY <1>2, <1>3, <1>4, <1>5 DEF BookInv

\* The process of a live setscene task is the setscene one, and any other
\* process is a task's.
LEMMA ProcKinds ==
  ASSUME TypeOK, BookInv, pc # "done", NEW p \in procs
  PROVE  /\ p.tid \in sq.live => p.kind = "setscene"
         /\ p.tid \notin sq.live => p.kind = "task"
<1>1. p.kind \in {"task", "setscene"}
  BY DEF TypeOK, Procs
<1>2. p.kind = "setscene" => p.tid \in sq.live
  BY DEF BookInv, Running
<1>3. p.kind = "task" => p.tid \notin sq.live
  <2> SUFFICES ASSUME p.kind = "task", p.tid \in sq.live PROVE FALSE
    OBVIOUS
  <2>1. p.tid \in Running("task")
    BY DEF Running
  <2>2. p.tid \in Undecided
    BY UndecidedIs DEF BookInv, LiveOK, TypeOK, SqType
  <2> QED BY <2>1, <2>2 DEF BookInv, HoldoffRespected
<1> QED BY <1>1, <1>2, <1>3

LEMMA AddProc ==
  ASSUME NEW t, NEW kind, procs' = procs \cup {Proc(t, kind)}
  PROVE  /\ Running(kind)' = Running(kind) \cup {t}
         /\ \A k : k # kind => Running(k)' = Running(k)
<1>1. Proc(t, kind).tid = t /\ Proc(t, kind).kind = kind
  BY DEF Proc
<1> HIDE DEF Proc
<1> QED BY <1>1 DEF Running

LEMMA RemoveProc ==
  ASSUME TypeOK, NEW p \in procs, procs' = procs \ {p}
  PROVE  /\ Running(p.kind)' = Running(p.kind) \ {p.tid}
         /\ \A k : k # p.kind => Running(k)' = Running(k)
<1>1. \A q \in procs : (q.kind = p.kind /\ q.tid = p.tid) => q = p
  BY DEF TypeOK, Procs
<1> QED BY <1>1 DEF Running

LEMMA BookInit == Init => BookInv
<1> SUFFICES ASSUME Init PROVE BookInv
  OBVIOUS
<1>1. PICK valid \in SUBSET SetsceneTids : sq = InitSq(valid)
  BY DEF Init
<1> DEFINE skipped == {t \in SetsceneTids : t \in NoExec \/ stamppresent(t)}
           built   == [buildable |-> {t \in SetsceneTids : SqRevdeps[t] = {}},
                  running |-> {}, live |-> {}, covered |-> {}, notcovered |-> {},
                  done |-> Unskippable \ SetsceneTids,
                  needed |-> {}, harddeferred |-> {},
                  outrightfail |-> {t \in SetsceneTids \ (skipped \cup valid) :
                                      InitDeferred[t] = None},
                  needupdate |-> TRUE]
<1>2. sq = scenequeue_updatecounters(Touch(built, skipped), skipped, {})
  BY <1>1 DEF InitSq
<1>3. built \in SqType /\ built.running = {} /\ built.live = {} /\ Settled(built) = {}
  BY GraphTypes DEF SqType, Settled
<1>4. skipped \in SUBSET SetsceneTids
  OBVIOUS
<1>5. sq.running = skipped /\ sq.live = {} /\ Settled(sq) = skipped /\ sq.needupdate
  <2> HIDE DEF built, skipped
  <2>1. /\ sq.running = built.running \cup skipped /\ sq.live = built.live
        /\ Settled(sq) = Settled(built) \cup skipped /\ sq.needupdate
    BY <1>2, <1>3, <1>4, SkipExact
  <2> QED BY <1>3, <2>1
<1>7. LiveOK(sq, sq_deferred)
  BY <1>5 DEF LiveOK
<1>8. procs = {} /\ runq_complete = {} /\ pc = "idle"
  BY DEF Init
<1>9. Running("task") = {} /\ Running("setscene") = {}
  BY <1>8 DEF Running
<1> QED BY <1>5, <1>7, <1>8, <1>9 DEF BookInv, HoldoffRespected

LEMMA BookNext == TypeOK /\ BookInv /\ [Next]_vars => BookInv'
<1> SUFFICES ASSUME TypeOK, BookInv, [Next]_vars PROVE BookInv'
  OBVIOUS
<1>t. sq \in SqType
  BY DEF TypeOK
<1>l. LiveOK(sq, sq_deferred) /\ (pc # "done" => sq.live = Running("setscene"))
  BY DEF BookInv
\* A step that completes nothing
<1>a. ASSUME runq_complete' = runq_complete, runq_running' = runq_running,
             LiveOK(sq', sq_deferred'), pc' # "done" => sq'.live = Running("setscene")',
             Running("task")' \subseteq Running("task"),
             Settled(sq) \subseteq Settled(sq'), sq.needupdate => sq'.needupdate,
             holdoff_tasks' = holdoff_tasks, pc' = "sched" => pc = "sched"
      PROVE  BookInv'
  <2>1. {} \cap Undecided = {} /\ runq_complete' = runq_complete \cup {}
    BY <1>a
  <2> QED BY <1>a, <2>1, PlainStep
<1>b. \A kind : procs' = procs => Running(kind)' = Running(kind)
  BY DEF Running
\* _execute_runqueue and Return never leave the executor in its scheduling
<1>r. ASSUME NEW st, NEW act, NEW live, NEW failed, Return(st, act, live, failed)
      PROVE  pc' # "sched"
  BY <1>r DEF Return, finish
<1>1. CASE execute_runqueue
  <2>1. pc = "idle" /\ pc' # "sched"
    BY <1>1 DEF execute_runqueue, finish_now, finish
  <2>2. procs' \subseteq procs /\ (pc' # "done" => procs' = procs)
    BY <1>1 DEF execute_runqueue, finish_now, finish
  <2>3. UNCHANGED <<runqVars, sq, sq_deferred, coverVars>>
    BY <1>1 DEF execute_runqueue
  <2>4. Running("task")' \subseteq Running("task")
    BY <2>2, RunningShrinks
  <2>5. runq_complete' = runq_complete /\ runq_running' = runq_running /\ sq' = sq
        /\ sq_deferred' = sq_deferred /\ holdoff_tasks' = holdoff_tasks
    BY <2>3 DEF runqVars, coverVars
  <2>6. pc' # "done" => sq'.live = Running("setscene")'
    BY <2>1, <2>2, <2>5, <1>b, <1>l
  <2> QED BY <1>a, <1>l, <2>1, <2>4, <2>5, <2>6
<1>2. CASE ReadReturn \/ SceneNone \/ SchedNone
  <2>1. pc' # "sched" /\ procs' = procs /\ pc # "done"
    BY <1>2, <1>r DEF ReadReturn, SceneNone, SchedNone, ReturnUnchanged
  <2>2. runq_complete' = runq_complete /\ runq_running' = runq_running /\ sq' = sq
        /\ holdoff_tasks' = holdoff_tasks
    BY <1>2 DEF ReadReturn, SceneNone, SchedNone, SceneUnchanged, SchedUnchanged, runqVars, coverVars
  <2>3. \A d \in sq.live : sq_deferred'[d] = sq_deferred[d]
    <3>1. \A d \in SetsceneTids : sq_deferred'[d] = sq_deferred[d] \/ sq_deferred'[d] = None
      BY <1>2 DEF ReadReturn, SceneNone, SchedNone, ForceDeferred, TypeOK
    <3> QED BY <3>1, <1>l, <1>t DEF LiveOK, SqType
  <2>4. LiveOK(sq', sq_deferred')
    BY <1>l, <2>2, <2>3 DEF LiveOK
  <2> QED BY <1>a, <1>b, <1>l, <2>1, <2>2, <2>4
<1>3. ASSUME NEW t \in SceneCandidates, NEW valid,
             SceneNotNeeded(t) \/ SceneHardDefer(t) \/ SceneStart(t) \/ SceneSettle(t, valid)
      PROVE  BookInv'
  <2>1. t \in SetsceneTids /\ t \notin sq.running /\ t \notin sq.live /\ t \notin Settled(sq)
    BY <1>l, <1>t DEF SceneCandidates, LiveOK, SqType
  <2>2. /\ runq_complete' = runq_complete /\ runq_running' = runq_running
        /\ holdoff_tasks' = holdoff_tasks
    BY <1>3 DEF SceneNotNeeded, SceneHardDefer, SceneStart, SceneSettle, SceneUnchanged, runqVars, coverVars
  <2>3. pc = "scan" /\ pc' # "sched"
    BY <1>3, <1>r DEF SceneNotNeeded, SceneHardDefer, SceneStart, SceneSettle, InScan, ReturnUnchanged
  <2>4. LiveOK(sq, sq_deferred')
    <3>1. sq_deferred' = [sq_deferred EXCEPT ![t] = None] \/ sq_deferred' = sq_deferred
      BY <1>3 DEF SceneNotNeeded, SceneHardDefer, SceneStart, SceneSettle
    <3>2. \A d \in sq.live : sq_deferred'[d] = None
      BY <1>l, <1>t, <3>1 DEF LiveOK, SqType, TypeOK
    <3> QED BY <1>l, <3>2 DEF LiveOK
  <2>5. CASE SceneNotNeeded(t) \/ SceneSettle(t, valid)
    <3>1. sq' = sq_task_skip(sq, t) \/ sq' = sq_task_failoutright(sq, t)
      BY <2>5 DEF SceneNotNeeded, SceneSettle
    <3>2. SqGrows(sq, sq')
      BY <3>1, <1>t, <2>1, SkipGrows, FailGrows
    <3>3. LiveOK(sq', sq_deferred')
      <4>1. CASE sq' = sq_task_skip(sq, t)
        BY <4>1, <1>t, <2>1, <2>4, SkipOK
      <4>2. CASE sq' = sq_task_failoutright(sq, t)
        <5>1. LiveOK([sq' EXCEPT !.live = @ \ {t}], sq_deferred') /\ sq'.live = sq.live
          BY <4>2, <1>t, <2>1, <2>4, FailOK
        <5>2. [sq' EXCEPT !.live = @ \ {t}] = sq'
          BY <5>1, <2>1, <3>2 DEF SqGrows, SqType
        <5> QED BY <5>1, <5>2
      <4> QED BY <3>1, <4>1, <4>2
    <3>4. procs' = procs
      BY <2>5 DEF SceneNotNeeded, SceneSettle
    <3>5. sq'.live = sq.live /\ Settled(sq) \subseteq Settled(sq') /\ (sq.needupdate => sq'.needupdate)
      BY <3>2 DEF SqGrows
    <3> QED BY <1>a, <1>b, <1>l, <2>2, <2>3, <3>3, <3>4, <3>5
  <2>6. CASE SceneHardDefer(t)
    <3>1. /\ sq'.live = sq.live /\ sq'.running = sq.running
          /\ Settled(sq') = Settled(sq) /\ sq'.needupdate = sq.needupdate
      BY <2>6, <1>t DEF SceneHardDefer, SqType, Settled
    <3>2. LiveOK(sq', sq_deferred')
      BY <2>4, <3>1 DEF LiveOK
    <3>3. procs' = procs
      BY <2>6 DEF SceneHardDefer
    <3> QED BY <1>a, <1>b, <1>l, <2>2, <2>3, <3>1, <3>2, <3>3
  <2>7. CASE SceneStart(t)
    <3>1. /\ sq'.live = sq.live \cup {t} /\ sq'.running = sq.running \cup {t}
          /\ Settled(sq') = Settled(sq) /\ sq'.needupdate = sq.needupdate
      BY <2>7, <1>t DEF SceneStart, SqType, Settled
    <3>2. HardDepsRev[t] \subseteq Settled(sq) /\ sq_deferred'[t] = None
      BY <2>7, <2>1 DEF SceneStart, HardDepsSettled, Settled, TypeOK
    <3>3. LiveOK(sq', sq_deferred')
      BY <2>1, <2>4, <3>1, <3>2 DEF LiveOK
    <3>4. /\ Running("setscene")' = Running("setscene") \cup {t}
          /\ Running("task")' = Running("task")
      BY <2>7, AddProc DEF SceneStart
    <3> QED BY <1>a, <1>l, <2>2, <2>3, <3>1, <3>3, <3>4
  <2> QED BY <1>3, <2>5, <2>6, <2>7
<1>4. CASE HoldoffStep
  <2>1. /\ runq_complete' = runq_complete /\ runq_running' = runq_running
        /\ procs' = procs /\ sq_deferred' = sq_deferred /\ pc = "holdoff"
    BY <1>4 DEF HoldoffStep
  <2>2. \/ /\ sq.needupdate
           /\ sq' = [sq EXCEPT !.needupdate = FALSE]
           /\ holdoff_tasks' = HoldoffTasks
        \/ ~sq.needupdate /\ sq' = sq /\ holdoff_tasks' = holdoff_tasks
    BY <1>4 DEF HoldoffStep, update_holdofftasks, coverVars
  <2>3. sq'.live = sq.live /\ sq'.running = sq.running /\ Settled(sq') = Settled(sq)
    BY <2>2, <1>t DEF SqType, Settled
  <2>4. Undecided' = Undecided
    BY <2>3, UndecidedIs, UndecidedPrime
  <2>5. HoldoffOK'
    <3>1. CASE sq.needupdate
      <4>1. \A s \in Undecided : s \in HoldoffTasks /\ SqCoveredTasks[s] \ runq_complete \subseteq HoldoffTasks
        BY DEF HoldoffTasks
      <4>2. holdoff_tasks' = HoldoffTasks
        BY <2>2, <3>1
      <4> QED BY <2>1, <2>4, <4>1, <4>2 DEF HoldoffOK
    <3>2. CASE ~sq.needupdate
      BY <2>1, <2>2, <2>4, <3>2 DEF HoldoffOK, BookInv
    <3> QED BY <3>1, <3>2
  <2>6. LiveOK(sq', sq_deferred')
    BY <1>l, <2>1, <2>3 DEF LiveOK
  <2>7. HoldoffRespected'
    BY <2>1, <2>4, <1>b DEF HoldoffRespected, BookInv
  <2>8. pc' # "done" => sq'.live = Running("setscene")'
    BY <1>l, <1>b, <2>1, <2>3
  <2> QED BY <1>b, <2>1, <2>4, <2>5, <2>6, <2>7, <2>8 DEF BookInv
<1>5. ASSUME NEW t \in SchedCandidates, NEW valid,
             SchedRefuse(t) \/ SchedStart(t) \/ SchedSkip(t, valid) \/ SchedNoExec(t, valid)
      PROVE  BookInv'
  <2>1. /\ t \in Tasks /\ t \in runq_buildable
        /\ t \notin runq_running /\ t \notin runq_complete /\ t \notin holdoff_tasks
    BY DEF SchedCandidates, TypeOK, BookInv
  <2>2. holdoff_tasks' = holdoff_tasks /\ pc = "sched" /\ pc' # "sched"
    BY <1>5, <1>r DEF SchedRefuse, SchedStart, SchedSkip, SchedNoExec, SchedUnchanged, InSched, coverVars
  <2>3. \A s \in Undecided : t # s /\ t \notin SqCoveredTasks[s]
    BY <2>1, <2>2 DEF BookInv, HoldoffOK
  <2>4. CASE SchedRefuse(t)
    <3>1. runq_complete' = runq_complete /\ runq_running' = runq_running /\ sq' = sq
          /\ procs' = procs /\ sq_deferred' = sq_deferred
      BY <2>4 DEF SchedRefuse
    <3> QED BY <1>a, <1>b, <1>l, <2>2, <3>1
  <2>5. CASE SchedStart(t)
    <3>1. runq_complete' = runq_complete /\ runq_running' = runq_running \cup {t} /\ sq' = sq
          /\ sq_deferred' = sq_deferred
      BY <2>5 DEF SchedStart
    <3>2. /\ Running("task")' = Running("task") \cup {t}
          /\ Running("setscene")' = Running("setscene")
      BY <2>5, AddProc DEF SchedStart
    <3>3. Undecided' = Undecided
      BY <3>1, UndecidedIs, UndecidedPrime
    <3>4. HoldoffRespected'
      BY <2>3, <3>2, <3>3 DEF HoldoffRespected, BookInv
    <3>5. HoldoffOK'
      BY <2>2, <3>1, <3>3 DEF HoldoffOK, BookInv
    <3> QED BY <1>l, <2>2, <3>1, <3>2, <3>3, <3>4, <3>5 DEF BookInv
  <2>6. CASE SchedSkip(t, valid) \/ SchedNoExec(t, valid)
    <3>1. runq_running' = runq_running \cup {t} /\ procs' = procs
      BY <2>6 DEF SchedSkip, SchedNoExec
    <3>2. PICK buildable \in SUBSET Tasks, ss \in [Tasks -> {None, Old, New}] :
             task_completeoutright(t, buildable, ss, valid)
      <4>1. runq_buildable \in SUBSET Tasks /\ runq_buildable \cup {t} \in SUBSET Tasks
            /\ sstamp \in [Tasks -> {None, Old, New}] /\ (~Enforce) \in BOOLEAN
        BY <2>1 DEF TypeOK
      <4>2. Unscened(t, ~Enforce) \in [Tasks -> {None, Old, New}]
        BY <2>1, <4>1, StampedType
      <4> QED BY <2>6, <4>1, <4>2 DEF SchedSkip, SchedNoExec
    <3>3. runq_complete' = runq_complete \cup {t} /\ SqGrows(sq, sq')
      BY <2>1, <3>2, CompleteOutright
    <3>4. LiveOK(sq', sq_deferred')
      BY <1>l, <2>1, <3>2, CompleteOK
    <3>5. sq'.live = sq.live /\ Settled(sq) \subseteq Settled(sq') /\ (sq.needupdate => sq'.needupdate)
      BY <3>3 DEF SqGrows
    <3>6. {t} \cap Undecided = {} /\ {t} \subseteq runq_running'
      BY <2>3, <3>1
    <3>7. pc' # "done" => sq'.live = Running("setscene")'
      BY <1>l, <1>b, <2>2, <3>1, <3>5
    <3> QED BY <1>b, <2>2, <3>1, <3>3, <3>4, <3>5, <3>6, <3>7, PlainStep
  <2> QED BY <1>5, <2>4, <2>5, <2>6
<1>6. ASSUME NEW p \in procs, NEW ok, SetsceneExit(p, ok) PROVE BookInv'
  <2>1. /\ pc # "done" /\ pc' = pc /\ pc # "sched" /\ p.tid \in sq.live
        /\ procs' = procs \ {p} /\ sq' = [Settle(p.tid, ok) EXCEPT !.live = @ \ {p.tid}]
        /\ sq_deferred' = sq_deferred
    BY <1>6 DEF SetsceneExit, Reading
  <2>2. p.kind = "setscene"
    BY <2>1, ProcKinds
  <2>3. /\ Running("setscene")' = Running("setscene") \ {p.tid}
        /\ Running("task")' = Running("task")
    BY <2>1, <2>2, RemoveProc
  <2>4. /\ LiveOK(sq', sq_deferred) /\ sq'.live = sq.live \ {p.tid}
        /\ Settled(sq) \subseteq Settled(sq') /\ (sq.needupdate => sq'.needupdate)
    BY <1>l, <2>1, SettleOK
  <2>5. /\ runq_complete' = runq_complete /\ runq_running' = runq_running
        /\ holdoff_tasks' = holdoff_tasks
    BY <1>6 DEF SetsceneExit, runqVars, coverVars
  <2> QED BY <1>a, <1>l, <2>1, <2>3, <2>4, <2>5
<1>7. ASSUME NEW p \in procs, NEW valid, TaskExit(p, valid) PROVE BookInv'
  <2> DEFINE made == p.tid \notin NoStamp /\ ~Enforce
  <2>1. /\ pc # "done" /\ pc' = pc /\ pc # "sched" /\ p.tid \notin sq.live
        /\ procs' = procs \ {p} /\ runq_running' = runq_running
        /\ holdoff_tasks' = holdoff_tasks
        /\ task_completeoutright(p.tid, runq_buildable, Unscened(p.tid, made), valid)
    BY <1>7 DEF TaskExit, Reading, coverVars
  <2>2. p.kind = "task"
    BY <2>1, ProcKinds
  <2>3. p.tid \in Running("task") /\ p.tid \in Tasks /\ made \in BOOLEAN
        /\ runq_buildable \in SUBSET Tasks
    BY <2>2 DEF Running, TypeOK, Procs
  <2> HIDE DEF made
  <2>4. /\ Running("task")' \subseteq Running("task")
        /\ Running("setscene")' = Running("setscene")
    BY <2>1, <2>2, RemoveProc
  <2>5. Unscened(p.tid, made) \in [Tasks -> {None, Old, New}]
    BY <2>3, StampedType
  <2>6. runq_complete' = runq_complete \cup {p.tid} /\ SqGrows(sq, sq')
    BY <2>1, <2>3, <2>5, CompleteOutright
  <2>7. LiveOK(sq', sq_deferred')
    BY <1>l, <2>1, <2>3, CompleteOK
  <2>8. sq'.live = sq.live /\ Settled(sq) \subseteq Settled(sq') /\ (sq.needupdate => sq'.needupdate)
    BY <2>6 DEF SqGrows
  <2>9. {p.tid} \cap Undecided = {} /\ {p.tid} \subseteq runq_running'
    BY <2>1, <2>3 DEF BookInv, HoldoffRespected
  <2>10. pc' # "done" => sq'.live = Running("setscene")'
    BY <1>l, <2>1, <2>4, <2>8
  <2> QED BY <2>1, <2>4, <2>6, <2>7, <2>8, <2>9, <2>10, PlainStep
<1>8. ASSUME NEW p \in procs, TaskExitFailed(p) PROVE BookInv'
  <2>1. /\ pc # "done" /\ pc' = pc /\ pc # "sched" /\ p.tid \notin sq.live
        /\ procs' = procs \ {p} /\ sq' = sq /\ sq_deferred' = sq_deferred
        /\ runq_complete' = runq_complete /\ runq_running' = runq_running
        /\ holdoff_tasks' = holdoff_tasks
    BY <1>8 DEF TaskExitFailed, Reading, coverVars
  <2>2. p.kind = "task"
    BY <2>1, ProcKinds
  <2>3. /\ Running("task")' \subseteq Running("task")
        /\ Running("setscene")' = Running("setscene")
    BY <2>1, <2>2, RemoveProc
  <2> QED BY <1>a, <1>l, <2>1, <2>3
<1>9. CASE RequestShutdown \/ UNCHANGED vars
  <2>1. /\ pc' = pc /\ procs' = procs /\ sq' = sq /\ sq_deferred' = sq_deferred
        /\ runq_complete' = runq_complete /\ runq_running' = runq_running
        /\ holdoff_tasks' = holdoff_tasks
    BY <1>9 DEF RequestShutdown, vars, runqVars, coverVars
  <2> QED BY <1>a, <1>b, <1>l, <2>1
<1> QED
  BY <1>1, <1>2, <1>3, <1>4, <1>5, <1>6, <1>7, <1>8, <1>9
     DEF Next, Executor, SceneStep, SchedStep, Exits, ProcessExit, Finished

LEMMA BookAlways == Spec => [](TypeOK /\ BookInv)
  BY TypeInit, TypeNext, BookInit, BookNext, PTL DEF Spec

-----------------------------------------------------------------------------
\* holdoff_tasks works for every graph: no task executes while a setscene task
\* that would make it unnecessary is running or still undecided.
THEOREM HoldoffWorks == Spec => []HoldoffRespected
<1>1. BookInv => HoldoffRespected
  BY DEF BookInv
<1> QED BY <1>1, BookAlways, PTL

\* Nothing runs twice, for every graph: no process, normal or setscene, is
\* started for a task that is complete.
THEOREM StartedOnce == Spec => StartOnce
<1>1. TypeOK /\ BookInv /\ [Next]_vars => [\A p \in procs' \ procs : p.tid \notin runq_complete]_vars
  <2> SUFFICES ASSUME TypeOK, BookInv, Next, NEW p \in procs' \ procs
               PROVE  p.tid \notin runq_complete
    OBVIOUS
  <2>1. \/ \E t \in SceneCandidates : SceneStart(t)
        \/ \E t \in SchedCandidates : SchedStart(t)
    BY DEF Next, Executor, execute_runqueue, finish_now, ReadReturn, SceneStep, SceneNotNeeded,
           SceneHardDefer, SceneSettle, SceneNone, HoldoffStep, SchedStep, SchedRefuse, SchedSkip,
           SchedNoExec, SchedNone, Exits, ProcessExit, SetsceneExit, TaskExit, TaskExitFailed,
           RequestShutdown, Finished, vars
  <2>2. ASSUME NEW t \in SceneCandidates, SceneStart(t) PROVE p.tid \notin runq_complete
    <3>1. p.tid = t
      BY <2>2 DEF SceneStart, Proc
    <3>2. t \in Undecided
      BY UndecidedIs DEF SceneCandidates, BookInv, LiveOK, TypeOK, SqType
    <3> QED BY <3>1, <3>2 DEF BookInv
  <2>3. ASSUME NEW t \in SchedCandidates, SchedStart(t) PROVE p.tid \notin runq_complete
    <3>1. p.tid = t
      BY <2>3 DEF SchedStart, Proc
    <3> QED BY <3>1 DEF SchedCandidates, BookInv
  <2> QED BY <2>1, <2>2, <2>3
<1> QED BY <1>1, BookAlways, PTL DEF Spec, StartOnce

-----------------------------------------------------------------------------
(***************************************************************************)
(* The counters.  BB_SETSCENE_ENFORCE is excluded once a task has failed:  *)
(* a task it refuses is taken off stats.active without ever having been    *)
(* counted.                                                                *)
(***************************************************************************)
Counted == ~Enforce \/ failed_tids = {}

CountInv ==
  /\ IsFiniteSet(procs)
  /\ Counted => /\ Cardinality(procs) =< NumberTasks
                /\ pc # "done" => /\ active = Cardinality(Running("task"))
                                  /\ Cardinality(procs) = active + Cardinality(sq.live)

\* The sets that are counted are finite.
LEMMA CountFinite ==
  ASSUME TypeOK
  PROVE  IsFiniteSet(Running("task")) /\ IsFiniteSet(sq.live)
<1>1. Running("task") \in SUBSET Tasks /\ sq.live \in SUBSET Tasks
  BY GraphAssumption DEF TypeOK, SqType, Procs, Running
<1> QED BY <1>1, GraphAssumption, FS_Subset

LEMMA CountInit == Init => CountInv
<1> SUFFICES ASSUME Init PROVE CountInv
  OBVIOUS
<1>1. procs = {} /\ active = 0 /\ pc = "idle"
  BY DEF Init
<1>2. Running("task") = {} /\ Running("setscene") = {}
  BY <1>1 DEF Running
<1>3. sq.live = {}
  BY <1>1, <1>2, BookInit DEF BookInv
<1> QED BY <1>1, <1>2, <1>3, FS_EmptySet, LimitAssumption DEF CountInv

\* A task that has failed stays so.
LEMMA FailedGrow == [Next]_vars => failed_tids \subseteq failed_tids'
<1> SUFFICES ASSUME [Next]_vars PROVE failed_tids \subseteq failed_tids'
  OBVIOUS
<1>1. CASE execute_runqueue \/ ReadReturn \/ SceneStep \/ HoldoffStep
  BY <1>1 DEF execute_runqueue, ReadReturn, SceneStep, SceneNotNeeded, SceneHardDefer, SceneStart,
              SceneSettle, SceneNone, SceneUnchanged, HoldoffStep, runqVars
<1>2. CASE SchedStep
  BY <1>2 DEF SchedStep, SchedRefuse, task_fail, SchedStart, SchedSkip, SchedNoExec, SchedNone, runqVars
<1>3. CASE Exits
  BY <1>3 DEF Exits, ProcessExit, SetsceneExit, TaskExit, TaskExitFailed, task_fail, runqVars
<1>4. CASE RequestShutdown \/ UNCHANGED vars
  BY <1>4 DEF RequestShutdown, vars, runqVars
<1> QED BY <1>1, <1>2, <1>3, <1>4 DEF Next, Executor, Finished

LEMMA CountNext == TypeOK /\ BookInv /\ CountInv /\ [Next]_vars => CountInv'
<1> SUFFICES ASSUME TypeOK, BookInv, CountInv, [Next]_vars PROVE CountInv'
  OBVIOUS
<1>e. Enforce' = Enforce
  BY DEF Next, Executor, Exits, RequestShutdown, Finished, vars, Enforce
<1>o. Counted' => Counted
  BY <1>e, FailedGrow DEF Counted
<1>t. sq \in SqType /\ active \in Int /\ NumberTasks \in Nat
  BY LimitAssumption DEF TypeOK
<1>l. LiveOK(sq, sq_deferred) /\ (pc # "done" => sq.live = Running("setscene"))
  BY DEF BookInv
<1>f. /\ IsFiniteSet(procs) /\ IsFiniteSet(Running("task")) /\ IsFiniteSet(sq.live)
      /\ Cardinality(procs) \in Nat /\ Cardinality(Running("task")) \in Nat
      /\ Cardinality(sq.live) \in Nat
  <2>1. IsFiniteSet(procs) /\ IsFiniteSet(Running("task")) /\ IsFiniteSet(sq.live)
    BY CountFinite DEF CountInv
  <2> QED BY <2>1, FS_CardinalityType
\* A step that neither starts a process nor sees an exit
<1>a. ASSUME procs' = procs, active' = active, sq'.live = sq.live, pc # "done" \/ pc' = "done"
      PROVE  CountInv'
  <2>1. Running("task")' = Running("task")
    BY <1>a DEF Running
  <2> QED BY <1>a, <1>o, <2>1 DEF CountInv
<1>1. CASE execute_runqueue
  <2>1. CASE procs' = procs
    BY <1>1, <1>a, <2>1 DEF execute_runqueue, runqVars
  <2>2. CASE procs' = {} /\ pc' = "done"
    BY <2>2, <1>t, FS_EmptySet DEF CountInv
  <2> QED BY <1>1, <2>1, <2>2 DEF execute_runqueue, finish_now
<1>2. CASE ReadReturn \/ SceneNone \/ SchedNone \/ RequestShutdown
  BY <1>2, <1>a DEF ReadReturn, SceneNone, SceneUnchanged, SchedNone, RequestShutdown, runqVars
<1>3. CASE HoldoffStep
  <2>1. sq' = sq \/ sq' = [sq EXCEPT !.needupdate = FALSE]
    BY <1>3 DEF HoldoffStep, update_holdofftasks
  <2>2. sq'.live = sq.live
    BY <2>1, <1>t DEF SqType
  <2> QED BY <1>3, <1>a, <2>2 DEF HoldoffStep
<1>4. ASSUME NEW t \in SceneCandidates, NEW valid,
             SceneNotNeeded(t) \/ SceneHardDefer(t) \/ SceneSettle(t, valid)
      PROVE  CountInv'
  <2>1. t \in SetsceneTids
    BY <1>t DEF SceneCandidates, SqType
  <2>2. sq'.live = sq.live
    <3>1. CASE SceneNotNeeded(t) \/ SceneSettle(t, valid)
      BY <3>1, <1>t, <2>1, SkipGrows, FailGrows DEF SceneNotNeeded, SceneSettle, SqGrows
    <3>2. CASE SceneHardDefer(t)
      BY <3>2, <1>t DEF SceneHardDefer, SqType
    <3> QED BY <1>4, <3>1, <3>2
  <2> QED BY <1>4, <1>a, <2>2 DEF SceneNotNeeded, SceneHardDefer, SceneSettle, InScan, SceneUnchanged, runqVars
<1>5. ASSUME NEW t \in SceneCandidates, SceneStart(t) PROVE CountInv'
  <2>1. t \notin sq.live /\ sq'.live = sq.live \cup {t}
    BY <1>5, <1>t, <1>l DEF SceneCandidates, SceneStart, LiveOK, SqType
  <2>2. /\ procs' = procs \cup {Proc(t, "setscene")} /\ active' = active /\ pc = "scan"
        /\ active + Cardinality(sq.live) < NumberTasks
    BY <1>5 DEF SceneStart, InScan, can_start_task, can_start, SceneUnchanged, runqVars
  <2>3. Running("task")' = Running("task")
    BY <2>2, AddProc
  <2>4. Proc(t, "setscene") \notin procs
    BY <1>l, <2>1, <2>2 DEF Running, Proc
  <2>5. IsFiniteSet(procs') /\ Cardinality(procs') = Cardinality(procs) + 1
    BY <1>f, <2>2, <2>4, FS_AddElement
  <2>6. Cardinality(sq'.live) = Cardinality(sq.live) + 1
    BY <1>f, <2>1, FS_AddElement
  <2> QED BY <1>f, <1>o, <1>t, <2>2, <2>3, <2>5, <2>6 DEF CountInv
<1>6. ASSUME NEW t \in SchedCandidates, NEW valid, SchedSkip(t, valid) \/ SchedNoExec(t, valid)
      PROVE  CountInv'
  <2>1. procs' = procs /\ active' = active /\ pc = "sched"
    BY <1>6 DEF SchedSkip, SchedNoExec, InSched
  <2>2. PICK buildable \in SUBSET Tasks, ss \in [Tasks -> {None, Old, New}] :
           task_completeoutright(t, buildable, ss, valid) /\ t \in Tasks
    <3>1. /\ t \in Tasks /\ runq_buildable \in SUBSET Tasks /\ runq_buildable \cup {t} \in SUBSET Tasks
          /\ sstamp \in [Tasks -> {None, Old, New}] /\ (~Enforce) \in BOOLEAN
      BY DEF TypeOK, SchedCandidates
    <3>2. Unscened(t, ~Enforce) \in [Tasks -> {None, Old, New}]
      BY <3>1, StampedType
    <3> QED BY <1>6, <3>1, <3>2 DEF SchedSkip, SchedNoExec
  <2>3. SqGrows(sq, sq')
    BY <2>2, CompleteOutright
  <2> QED BY <1>a, <2>1, <2>3 DEF SqGrows
<1>7. ASSUME NEW t \in SchedCandidates, SchedStart(t) PROVE CountInv'
  <2>1. /\ procs' = procs \cup {Proc(t, "task")} /\ active' = active + 1 /\ pc = "sched"
        /\ sq' = sq /\ active + Cardinality(sq.live) < NumberTasks
    BY <1>7 DEF SchedStart, InSched, can_start_task, can_start
  <2>2. Running("task")' = Running("task") \cup {t}
    BY <2>1, AddProc
  <2>3. t \notin Running("task")
    BY DEF SchedCandidates, BookInv
  <2>4. Proc(t, "task") \notin procs
    BY <2>3 DEF Running, Proc
  <2>5. IsFiniteSet(procs') /\ Cardinality(procs') = Cardinality(procs) + 1
    BY <1>f, <2>1, <2>4, FS_AddElement
  <2>6. Cardinality(Running("task")') = Cardinality(Running("task")) + 1
    BY <1>f, <2>2, <2>3, FS_AddElement
  <2> QED BY <1>f, <1>o, <1>t, <2>1, <2>5, <2>6 DEF CountInv
<1>8. ASSUME NEW t \in SchedCandidates, SchedRefuse(t) PROVE CountInv'
  <2>1. Enforce /\ procs' = procs /\ t \in failed_tids'
    BY <1>8 DEF SchedRefuse, task_fail, check_setscene_ignore_tasks
  <2> QED BY <1>e, <2>1 DEF CountInv, Counted
<1>9. ASSUME NEW p \in procs, NEW ok, SetsceneExit(p, ok) PROVE CountInv'
  <2>1. /\ pc # "done" /\ p.tid \in sq.live /\ procs' = procs \ {p} /\ active' = active
        /\ sq' = [Settle(p.tid, ok) EXCEPT !.live = @ \ {p.tid}]
    BY <1>9 DEF SetsceneExit, Reading, runqVars
  <2>2. p.kind = "setscene"
    BY <2>1, ProcKinds
  <2>3. Running("task")' = Running("task")
    BY <2>1, <2>2, RemoveProc
  <2>4. sq'.live = sq.live \ {p.tid}
    BY <1>l, <2>1, SettleOK
  <2>5. IsFiniteSet(procs') /\ Cardinality(procs') = Cardinality(procs) - 1
    BY <1>f, <2>1, FS_RemoveElement
  <2>6. Cardinality(sq'.live) = Cardinality(sq.live) - 1
    BY <1>f, <2>1, <2>4, FS_RemoveElement
  <2> QED BY <1>f, <1>o, <1>t, <2>1, <2>3, <2>5, <2>6 DEF CountInv
<1>10. ASSUME NEW p \in procs, NEW valid, TaskExit(p, valid) \/ TaskExitFailed(p) PROVE CountInv'
  <2>1. /\ pc # "done" /\ p.tid \notin sq.live /\ procs' = procs \ {p}
    BY <1>10 DEF TaskExit, TaskExitFailed, Reading
  <2>2. p.kind = "task"
    BY <2>1, ProcKinds
  <2>3. Running("task")' = Running("task") \ {p.tid} /\ p.tid \in Running("task")
    <3>1. Running("task")' = Running("task") \ {p.tid}
      BY <2>1, <2>2, RemoveProc
    <3> QED BY <2>2, <3>1 DEF Running
  <2>4. sq'.live = sq.live
    <3>1. CASE TaskExit(p, valid)
      <4> DEFINE made == p.tid \notin NoStamp /\ ~Enforce
      <4>1. task_completeoutright(p.tid, runq_buildable, Unscened(p.tid, made), valid)
        BY <3>1 DEF TaskExit
      <4>2. p.tid \in Tasks /\ made \in BOOLEAN /\ runq_buildable \in SUBSET Tasks
        BY DEF TypeOK, Procs
      <4> HIDE DEF made
      <4>3. Unscened(p.tid, made) \in [Tasks -> {None, Old, New}]
        BY <4>2, StampedType
      <4>4. SqGrows(sq, sq')
        BY <4>1, <4>2, <4>3, CompleteOutright
      <4> QED BY <4>4 DEF SqGrows
    <3>2. CASE TaskExitFailed(p)
      BY <3>2 DEF TaskExitFailed
    <3> QED BY <1>10, <3>1, <3>2
  <2>5. IsFiniteSet(procs') /\ Cardinality(procs') = Cardinality(procs) - 1
    BY <1>f, <2>1, FS_RemoveElement
  <2>6. /\ Cardinality(Running("task")') = Cardinality(Running("task")) - 1
        /\ Cardinality(Running("task")') \in Nat
    <3>1. IsFiniteSet(Running("task")')
      BY <1>f, <2>3, FS_RemoveElement
    <3> QED BY <1>f, <2>3, <3>1, FS_RemoveElement, FS_CardinalityType
  <2>7. Counted' => active' = active - 1
    <3>1. Counted => active > -ActiveFloor
      BY <1>f, <2>1, <2>6, LimitAssumption DEF CountInv
    <3> QED BY <1>10, <1>o, <3>1 DEF TaskExit, TaskExitFailed, task_fail
  <2> QED BY <1>f, <1>o, <1>t, <2>1, <2>4, <2>5, <2>6, <2>7 DEF CountInv
<1>11. CASE UNCHANGED vars
  BY <1>11, <1>o DEF CountInv, Running, vars, runqVars
<1> QED
  BY <1>1, <1>2, <1>3, <1>4, <1>5, <1>6, <1>7, <1>8, <1>9, <1>10, <1>11
     DEF Next, Executor, SceneStep, SchedStep, Exits, ProcessExit, Finished

LEMMA CountAlways == Spec => [](TypeOK /\ BookInv /\ CountInv)
  BY TypeInit, TypeNext, BookInit, BookNext, CountInit, CountNext, PTL DEF Spec

\* What the executor believes to be running is what runs, for every graph and
\* every order of exits, unless BB_SETSCENE_ENFORCE is set and a task failed.
THEOREM BooksExact == Spec => [](Counted => BookkeepingExact)
<1>1. BookInv /\ CountInv => (Counted => BookkeepingExact)
  BY DEF BookInv, CountInv, BookkeepingExact
<1> QED BY <1>1, CountAlways, PTL

\* BB_NUMBER_THREADS bounds the processes, setscene and normal ones together,
\* for every graph and every limit, unless BB_SETSCENE_ENFORCE is set and a task
\* failed.
THEOREM ThreadsBounded == Spec => [](Counted => ThreadLimit)
<1>1. CountInv => (Counted => ThreadLimit)
  BY DEF CountInv, ThreadLimit
<1> QED BY <1>1, CountAlways, PTL
=============================================================================
