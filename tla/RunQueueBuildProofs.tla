------------------------ MODULE RunQueueBuildProofs ------------------------
(***************************************************************************)
(* What a build has done when it ends, for every task graph: every task    *)
(* that could be built is, nothing is left running, and what a task needs  *)
(* was there when it ran.                                                  *)
(***************************************************************************)
EXTENDS RunQueueProofs

-----------------------------------------------------------------------------
(***************************************************************************)
(* The graph.                                                              *)
(***************************************************************************)
\* What is below a member of PlainBelow(s), or below s itself, and has no
\* setscene variant is in PlainBelow(s) as well.
LEMMA PlainBelowStep ==
  ASSUME NEW s \in SetsceneTids, NEW x \in SqCoveredTasks[s] \cup {s},
         NEW d \in Depends[x], d \notin SetsceneTids
  PROVE  d \in SqCoveredTasks[s]
<1>1. x \in Tasks /\ d \in Tasks
  BY GraphAssumption, GraphTypes
<1>2. \A W \in SUBSET Tasks : (s \in W /\ PlainClosed(W)) => x \in W
  BY DEF SqCoveredTasks, PlainBelow
<1>3. \A W \in SUBSET Tasks : (s \in W /\ PlainClosed(W)) => d \in W
  BY <1>2 DEF PlainClosed
<1> QED BY <1>1, <1>3 DEF SqCoveredTasks, PlainBelow

\* A member of PlainBelow(s) is there because another one, or s, needs it.
LEMMA PlainBelowFrom ==
  ASSUME NEW s \in SetsceneTids, NEW x \in SqCoveredTasks[s]
  PROVE  \E r \in SqCoveredTasks[s] \cup {s} : x \in Depends[r]
<1> DEFINE W == (SqCoveredTasks[s] \cup {s}) \ {x}
<1>1. x \in Tasks \ SetsceneTids
  BY DEF SqCoveredTasks, PlainBelow
<1>2. W \in SUBSET Tasks /\ s \in W /\ x \notin W
  BY <1>1, GraphAssumption, GraphTypes
<1>3. ~PlainClosed(W)
  BY <1>2 DEF SqCoveredTasks, PlainBelow
<1>4. PICK t \in W : \E d \in Depends[t] : d \notin SetsceneTids /\ d \notin W
  BY <1>3 DEF PlainClosed
<1>5. PICK d \in Depends[t] : d \notin SetsceneTids /\ d \notin W
  BY <1>4
<1>6. t \in SqCoveredTasks[s] \cup {s}
  BY <1>4
<1>7. d \in SqCoveredTasks[s]
  BY <1>5, <1>6, PlainBelowStep
<1> QED BY <1>5, <1>6, <1>7

\* A setscene task that something below s needs directly is needed by s.
LEMMA SqRevdepsStep ==
  ASSUME NEW s \in SetsceneTids, NEW x \in SqCoveredTasks[s] \cup {s},
         NEW d \in Depends[x], d \in SetsceneTids
  PROVE  s \in SqRevdeps[d]
  BY DEF SqRevdeps

LEMMA UnskippableStep ==
  /\ Endpoints \subseteq Unskippable
  /\ \A t \in Unskippable \ SetsceneTids : Depends[t] \subseteq Unskippable
<1> DEFINE Closed(W) == /\ Endpoints \subseteq W
                        /\ \A t \in W \ SetsceneTids : Depends[t] \subseteq W
<1>1. Unskippable = {x \in Tasks : \A W \in SUBSET Tasks : Closed(W) => x \in W}
  BY DEF Unskippable
<1>2. Endpoints \subseteq Tasks
  BY GraphAssumption DEF Endpoints, CantSkip
<1>3. ASSUME NEW t \in Unskippable \ SetsceneTids, NEW d \in Depends[t]
      PROVE  d \in Unskippable
  <2>1. t \in Tasks /\ d \in Tasks
    BY <1>1, GraphAssumption
  <2>2. ASSUME NEW W \in SUBSET Tasks, Closed(W) PROVE d \in W
    BY <1>1, <2>2
  <2> QED BY <1>1, <2>1, <2>2
<1> QED BY <1>1, <1>2, <1>3

\* Every task without a setscene variant is below a setscene task, or needed
\* whatever the setscene tasks do.
LEMMA EveryTaskReached ==
  ASSUME NEW t \in Tasks \ SetsceneTids
  PROVE  t \in Unskippable \/ \E s \in SetsceneTids : t \in SqCoveredTasks[s]
<1> DEFINE U == {x \in Tasks \ SetsceneTids :
                   x \notin Unskippable /\ \A s \in SetsceneTids : x \notin SqCoveredTasks[s]}
<1>1. ASSUME NEW x \in U PROVE Revdeps(x) \cap U # {}
  <2>1. x \notin Endpoints
    BY UnskippableStep
  <2>2. PICK r \in Revdeps(x) : TRUE
    BY <2>1 DEF Endpoints
  <2>3. r \in Tasks /\ x \in Depends[r]
    BY <2>2 DEF Revdeps
  <2>4. r \notin SetsceneTids
    BY <2>3, PlainBelowStep
  <2>5. r \notin Unskippable
    BY <2>3, <2>4, UnskippableStep
  <2>6. \A s \in SetsceneTids : r \notin SqCoveredTasks[s]
    BY <2>3, PlainBelowStep
  <2> QED BY <2>2, <2>3, <2>4, <2>5, <2>6
<1>2. U \in SUBSET Tasks
  OBVIOUS
<1>3. U = {}
  <2> HIDE DEF U
  <2> QED BY <1>1, <1>2, AcyclicAssumption
<1> QED BY <1>3

\* Among setscene tasks there is always one that none of the others needs.
LEMMA FirstOfScene ==
  ASSUME NEW U \in SUBSET SetsceneTids, U # {}
  PROVE  \E u \in U : SqRevdeps[u] \cap U = {}
<1> DEFINE V == U \cup UNION {SqCoveredTasks[s] : s \in U}
<1>1. V \in SUBSET Tasks /\ V # {}
  BY GraphAssumption, GraphTypes
<1>2. PICK v \in V : Revdeps(v) \cap V = {}
  BY <1>1, AcyclicAssumption
<1>3. v \in U
  <2> SUFFICES ASSUME NEW s \in U, v \in SqCoveredTasks[s] PROVE FALSE
    BY <1>2
  <2>1. PICK r \in SqCoveredTasks[s] \cup {s} : v \in Depends[r]
    BY PlainBelowFrom
  <2>2. r \in V /\ r \in Tasks
    BY <1>1
  <2> QED BY <1>2, <2>1, <2>2 DEF Revdeps
<1>4. SqRevdeps[v] \cap U = {}
  <2> SUFFICES ASSUME NEW s \in U, s \in SqRevdeps[v] PROVE FALSE
    OBVIOUS
  <2>1. PICK r \in SqCoveredTasks[s] \cup {s} : v \in Depends[r]
    BY <1>3 DEF SqRevdeps
  <2>2. r \in V /\ r \in Tasks
    BY <1>1
  <2> QED BY <1>2, <2>1, <2>2 DEF Revdeps
<1> QED BY <1>3, <1>4
-----------------------------------------------------------------------------
(***************************************************************************)
(* The record sq is a fixpoint of the code's rules: nothing that its       *)
(* decisions make done, buildable or free to go is missing.                *)
(***************************************************************************)
SqFix(s) ==
  /\ Unskippable \ SetsceneTids \subseteq s.done /\ Settled(s) \subseteq s.done
  /\ \A d \in Tasks \ SetsceneTids :
       (Revdeps(d) # {} /\ Revdeps(d) \subseteq s.done) => d \in s.done
  /\ \A d \in SetsceneTids : SqRevdeps[d] \subseteq Settled(s) => d \in s.buildable
  /\ s.running \subseteq s.buildable /\ s.needed \subseteq s.buildable
  /\ \A d \in s.harddeferred :
       HardDepsRev[d] \subseteq s.needed /\ ~(HardDepsRev[d] \subseteq Settled(s))

\* What was begun is settled or live.
RunOK(s) == s.running \subseteq Settled(s) \cup s.live

\* scenequeue_updatecounters walks as far down as it can.
LEMMA DoneWalkStep ==
  ASSUME NEW done, NEW T \in SUBSET Tasks
  PROVE  /\ T \subseteq DoneWalk(done, T)
         /\ \A t \in DoneWalk(done, T) : \A d \in Depends[t] :
              (d \notin SetsceneTids /\ Revdeps(d) \subseteq done \cup DoneWalk(done, T))
              => d \in done \cup DoneWalk(done, T)
<1> DEFINE Closed(W) == \A t \in W : \A d \in Depends[t] :
             (d \notin SetsceneTids /\ d \notin done /\ Revdeps(d) \subseteq done \cup W) => d \in W
           D == DoneWalk(done, T)
<1>1. D = {x \in Tasks : \A W \in SUBSET Tasks : (T \subseteq W /\ Closed(W)) => x \in W}
  BY DEF DoneWalk
<1>2. T \subseteq D
  BY <1>1
<1>3. ASSUME NEW t \in D, NEW d \in Depends[t], d \notin SetsceneTids, d \notin done,
             Revdeps(d) \subseteq done \cup D
      PROVE  d \in D
  <2>1. d \in Tasks /\ t \in Tasks
    BY <1>1, GraphAssumption
  <2>2. ASSUME NEW W \in SUBSET Tasks, T \subseteq W, Closed(W) PROVE d \in W
    <3>1. D \subseteq W
      BY <1>1, <2>2
    <3> HIDE DEF D
    <3> QED BY <1>3, <2>2, <3>1
  <2> QED BY <1>1, <2>1, <2>2
<1> QED
  <2> HIDE DEF D
  <2> QED BY <1>2, <1>3 DEF D

LEMMA CountersFix ==
  ASSUME NEW s \in SqType, NEW C \in SUBSET SetsceneTids, NEW F \in SUBSET SetsceneTids, SqFix(s)
  PROVE  SqFix(scenequeue_updatecounters(s, C, F))
<1> DEFINE T == C \cup F
           u == scenequeue_updatecounters(s, C, F)
<1>1. /\ u.buildable = s.buildable \cup NowBuildable(T, Settled(s) \cup T)
      /\ u.done = s.done \cup DoneWalk(s.done, T)
      /\ u.harddeferred = StillDeferred(s.harddeferred, T, Settled(s) \cup T)
      /\ u.running = s.running /\ u.needed = s.needed
  <2>1. s.covered \cup C \cup s.notcovered \cup F = Settled(s) \cup T
    BY DEF Settled
  <2> QED BY <2>1 DEF scenequeue_updatecounters, SqType
<1>2. Settled(u) = Settled(s) \cup T
  BY CountersExact
<1>3. T \in SUBSET SetsceneTids /\ T \in SUBSET Tasks
  BY GraphAssumption
<1> HIDE DEF u, T
<1>4. T \subseteq DoneWalk(s.done, T)
  BY <1>3, DoneWalkStep
<1>5. Unskippable \ SetsceneTids \subseteq u.done /\ Settled(u) \subseteq u.done
  BY <1>1, <1>2, <1>4 DEF SqFix
<1>6. ASSUME NEW d \in Tasks \ SetsceneTids, Revdeps(d) # {}, Revdeps(d) \subseteq u.done
      PROVE  d \in u.done
  <2>1. CASE Revdeps(d) \subseteq s.done
    BY <1>1, <1>6, <2>1 DEF SqFix
  <2>2. CASE ~(Revdeps(d) \subseteq s.done)
    <3>1. PICK r \in Revdeps(d) : r \in DoneWalk(s.done, T)
      BY <1>1, <1>6, <2>2
    <3>2. d \in Depends[r]
      BY <3>1 DEF Revdeps
    <3> QED BY <1>1, <1>3, <1>6, <3>1, <3>2, DoneWalkStep
  <2> QED BY <2>1, <2>2
<1>7. ASSUME NEW d \in SetsceneTids, SqRevdeps[d] \subseteq Settled(u)
      PROVE  d \in u.buildable
  <2>1. CASE SqRevdeps[d] \cap T = {}
    <3>1. SqRevdeps[d] \subseteq Settled(s)
      BY <1>2, <1>7, <2>1
    <3> QED BY <1>1, <3>1 DEF SqFix
  <2>2. CASE SqRevdeps[d] \cap T # {}
    BY <1>1, <1>2, <1>7, <2>2 DEF NowBuildable
  <2> QED BY <2>1, <2>2
<1>8. ASSUME NEW d \in u.harddeferred
      PROVE  HardDepsRev[d] \subseteq s.needed /\ ~(HardDepsRev[d] \subseteq Settled(s) \cup T)
  <2>1. d \in s.harddeferred
    BY <1>1 DEF StillDeferred
  <2>2. d \in SetsceneTids
    BY <2>1 DEF SqType
  <2>3. CASE \E x \in SetsceneTids : HardDepsRev[x] \cap T # {}
    BY <1>1, <2>1, <2>3 DEF StillDeferred, SqFix
  <2>4. CASE ~ \E x \in SetsceneTids : HardDepsRev[x] \cap T # {}
    <3>1. HardDepsRev[d] \cap T = {}
      BY <2>2, <2>4
    <3> QED BY <2>1, <3>1 DEF SqFix
  <2> QED BY <2>3, <2>4
<1> QED
  <2>1. SqFix(u)
    BY <1>1, <1>2, <1>5, <1>6, <1>7, <1>8 DEF SqFix
  <2> QED BY <2>1 DEF u

LEMMA TouchFix ==
  ASSUME NEW s \in SqType, NEW T \in SUBSET SetsceneTids, SqFix(s)
  PROVE  SqFix(Touch(s, T))
<1> DEFINE u == Touch(s, T)
<1>1. /\ u.done = s.done /\ u.needed = s.needed /\ u.harddeferred = s.harddeferred
      /\ u.running = s.running \cup T /\ u.buildable = s.buildable \cup T
  BY DEF Touch, SqType
<1>2. Settled(u) = Settled(s)
  BY TouchExact
<1> QED
  <2> HIDE DEF u
  <2>1. SqFix(u)
    BY <1>1, <1>2 DEF SqFix
  <2> QED BY <2>1 DEF u

\* Skipping the tasks T
LEMMA SkipFix ==
  ASSUME NEW s \in SqType, NEW T \in SUBSET SetsceneTids, SqFix(s), RunOK(s)
  PROVE  LET u == scenequeue_updatecounters(Touch(s, T), T, {}) IN SqFix(u) /\ RunOK(u)
<1> DEFINE v == Touch(s, T)
           u == scenequeue_updatecounters(v, T, {})
<1>1. v \in SqType /\ SqFix(v)
  BY TouchGrows, TouchFix DEF SqGrows
<1>2. SqFix(u)
  <2> HIDE DEF v
  <2>1. {} \in SUBSET SetsceneTids
    OBVIOUS
  <2> QED BY <1>1, <2>1, CountersFix
<1>3. u.running = s.running \cup T /\ u.live = s.live /\ Settled(u) = Settled(s) \cup T
  BY SkipExact
<1>4. RunOK(u)
  <2> HIDE DEF u
  <2> QED BY <1>3 DEF RunOK
<1> QED BY <1>2, <1>4

\* What a failure does to the record
LEMMA FailFix ==
  ASSUME NEW s \in SqType, NEW t \in SetsceneTids, SqFix(s), RunOK(s)
  PROVE  LET u == sq_task_failoutright(s, t)
         IN  /\ SqFix(u) /\ RunOK(u) /\ u.live = s.live
             /\ u.covered = s.covered /\ u.notcovered = s.notcovered \cup FailSet(s, t)
             /\ t \in u.notcovered
<1> DEFINE F == FailSet(s, t)
           v == Touch(s, F)
           u == sq_task_failoutright(s, t)
<1>1. F \in SUBSET SetsceneTids /\ t \in F
  BY DEF FailSet
<1>2. u = scenequeue_updatecounters(v, {}, F)
  BY DEF sq_task_failoutright
<1> HIDE DEF F, u
<1>3. v \in SqType /\ SqFix(v)
  BY <1>1, TouchGrows, TouchFix DEF SqGrows
<1>4. SqFix(u)
  <2>1. {} \in SUBSET SetsceneTids
    OBVIOUS
  <2> HIDE DEF v
  <2> QED BY <1>1, <1>2, <1>3, <2>1, CountersFix
<1>5. /\ v.running = s.running \cup F /\ v.live = s.live
      /\ v.covered = s.covered /\ v.notcovered = s.notcovered
  BY DEF Touch, SqType
<1> HIDE DEF v
<1>6. /\ u.running = v.running /\ u.live = v.live
      /\ u.covered = v.covered \cup {} /\ u.notcovered = v.notcovered \cup F
  BY <1>2, <1>3 DEF scenequeue_updatecounters, SqType
<1>7. RunOK(u)
  BY <1>5, <1>6 DEF RunOK, Settled
<1> QED
  <2>1. /\ SqFix(u) /\ RunOK(u) /\ u.live = s.live
        /\ u.covered = s.covered /\ u.notcovered = s.notcovered \cup F
        /\ t \in u.notcovered
    BY <1>1, <1>4, <1>5, <1>6, <1>7
  <2> QED BY <2>1 DEF u, F

LEMMA DataFix ==
  ASSUME NEW s \in SqType, NEW t \in SetsceneTids, NEW deferred, NEW valid, SqFix(s), RunOK(s)
  PROVE  LET u == update_scenequeue_data(s, t, deferred, valid) IN SqFix(u) /\ RunOK(u)
<1> DEFINE s1 == [s EXCEPT !.outrightfail = @ \ {t}]
           s2 == [s1 EXCEPT !.outrightfail = @ \cup {t}]
<1>1. s1 \in SqType /\ SqFix(s1) /\ RunOK(s1) /\ SqFix(s2) /\ RunOK(s2)
  BY DEF SqFix, RunOK, Settled, SqType
<1>2. SqFix(sq_task_skip(s1, t)) /\ RunOK(sq_task_skip(s1, t))
  <2> HIDE DEF s1
  <2>1. sq_task_skip(s1, t) = scenequeue_updatecounters(Touch(s1, {t}), {t}, {})
    BY DEF sq_task_skip, sq_task_completeoutright
  <2>2. {t} \in SUBSET SetsceneTids
    OBVIOUS
  <2> QED BY <1>1, <2>1, <2>2, SkipFix
<1> QED BY <1>1, <1>2 DEF update_scenequeue_data

LEMMA CompleteFix ==
  ASSUME TypeOK, NEW t \in Tasks, NEW buildable, NEW ss, NEW valid,
         SqFix(sq), RunOK(sq), task_completeoutright(t, buildable, ss, valid)
  PROVE  SqFix(sq') /\ RunOK(sq')
<1> DEFINE waiting == {d \in SetsceneTids : sq_deferred[d] = t}
           found == First(waiting)
           deferred == [d \in SetsceneTids |->
                          IF d \notin waiting THEN sq_deferred[d]
                          ELSE IF d = found THEN None ELSE found]
<1>1. sq' = IF waiting = {} THEN sq ELSE update_scenequeue_data(sq, found, deferred, valid)
  BY DEF task_completeoutright
<1>2. waiting # {} => found \in SetsceneTids
  BY FirstIn
<1> HIDE DEF waiting, found, deferred
<1> QED BY <1>1, <1>2, DataFix DEF TypeOK

LEMMA SettleFix ==
  ASSUME TypeOK, NEW t \in sq.live, NEW ok, SqFix(sq), RunOK(sq), LiveOK(sq, sq_deferred)
  PROVE  LET w == [Settle(t, ok) EXCEPT !.live = @ \ {t}] IN SqFix(w) /\ RunOK(w)
<1> DEFINE u == Settle(t, ok)
           w == [u EXCEPT !.live = @ \ {t}]
<1>1. sq \in SqType /\ t \in SetsceneTids /\ {t} \in SUBSET SetsceneTids
  BY DEF TypeOK, SqType
<1>2. u \in SqType /\ SqFix(u) /\ RunOK(u) /\ t \in Settled(u)
  <2>1. CASE ok
    <3>1. u = scenequeue_updatecounters(sq, {t}, {})
      BY <2>1 DEF Settle, sq_task_completeoutright
    <3>2. {} \in SUBSET SetsceneTids
      OBVIOUS
    <3> HIDE DEF u
    <3>3. u \in SqType /\ {t} \cup {} \subseteq Settled(u)
      BY <1>1, <3>1, <3>2, UpdateCounters DEF SqGrows
    <3>4. SqFix(u)
      BY <1>1, <3>1, <3>2, CountersFix
    <3>5. u.running = sq.running /\ u.live = sq.live /\ Settled(u) = Settled(sq) \cup {t} \cup {}
      BY <1>1, <3>1, CountersExact
    <3> QED BY <3>3, <3>4, <3>5 DEF RunOK
  <2>2. CASE ~ok
    <3>1. u = sq_task_failoutright(sq, t)
      BY <2>2 DEF Settle
    <3> HIDE DEF u
    <3> QED BY <1>1, <3>1, FailFix, FailGrows DEF SqGrows
  <2> QED BY <2>1, <2>2
<1> HIDE DEF u
<1>3. /\ w.done = u.done /\ w.needed = u.needed /\ w.harddeferred = u.harddeferred
      /\ w.running = u.running /\ w.buildable = u.buildable
      /\ Settled(w) = Settled(u) /\ w.live = u.live \ {t}
  BY <1>2 DEF SqType, Settled
<1> QED
  <2> HIDE DEF w
  <2>1. SqFix(w) /\ RunOK(w)
    BY <1>2, <1>3 DEF SqFix, RunOK
  <2> QED BY <2>1 DEF w, u

-----------------------------------------------------------------------------
(***************************************************************************)
(* The inductive invariant of the build: what follows from the decisions   *)
(* is up to date or will be computed before the scheduler runs, the        *)
(* scheduler runs only after every setscene task that can go has gone, and *)
(* what was started runs, is complete or has failed.                       *)
(***************************************************************************)
\* update_holdofftasks has nothing to do, or will be called.
Computed ==
  sq.needupdate \/ /\ tasks_notcovered = NotCoveredTasks /\ tasks_covered = CoveredTasks
                   /\ holdoff_tasks \subseteq CoveredBy(Undecided)
                   /\ \A t \in tasks_covered \cup tasks_notcovered :
                        Depends[t] = {} => t \in runq_buildable

\* No task whose dependencies are complete was forgotten.
Ready ==
  /\ \A r \in Tasks : (Depends[r] # {} /\ Depends[r] \subseteq runq_complete) => r \in runq_buildable
  /\ runq_running \subseteq runq_buildable

\* Nothing is left of the setscene phase.
NoneDeferred == \A t \in SetsceneTids : sq_deferred[t] = None
SceneQuiet == sq.live = {} /\ NoneDeferred /\ holdoff_tasks = {}

\* The setscene loop has started what it can.
Scanned == sqdone \/ ~can_start_task \/ SceneCandidates = {}

BuildInv ==
  /\ SqFix(sq) /\ RunOK(sq)
  /\ Computed /\ Ready
  /\ pc = "sched" => ~sq.needupdate /\ (sqdone \/ ~SceneQuiet)
  /\ pc \in {"holdoff", "sched"} => Scanned
  /\ sqdone => Undecided = {}
  /\ SetsceneOnly => Running("task") = {} /\ (sqdone => SetsceneTids = {})
  /\ pc # "done" => runq_running \ runq_complete \subseteq Running("task") \cup failed_tids

\* The four outcomes of a return to _execute_runqueue
LEMMA ReturnCases ==
  ASSUME NEW st \in States, NEW act, NEW live, NEW failed, Return(st, act, live, failed)
  PROVE  \/ st = "running" /\ state' = st /\ pc' = "idle"
         \/ /\ st = "cleanup" /\ act + Cardinality(live) > 0
            /\ state' = "cleanup" /\ pc' = "finish"
         \/ /\ st = "cleanup" /\ ~(act + Cardinality(live) > 0)
            /\ state' = (IF failed # {} THEN "failed" ELSE "complete") /\ pc' = "done"
         \/ st \in {"failed", "complete"} /\ state' = st /\ pc' = "done"
  BY DEF Return, finish, States

\* The decisions are the same.
SameDecisions(s, u) ==
  /\ u.covered = s.covered /\ u.notcovered = s.notcovered
  /\ u.done = s.done /\ u.needupdate = s.needupdate

LEMMA ComputedStep ==
  ASSUME Computed, sq'.needupdate \/ SameDecisions(sq, sq'),
         UNCHANGED coverVars, runq_buildable \subseteq runq_buildable'
  PROVE  Computed'
<1>1. CASE sq'.needupdate
  BY <1>1 DEF Computed
<1>2. CASE ~sq'.needupdate
  <2>1. SameDecisions(sq, sq') /\ ~sq.needupdate
    BY <1>2 DEF SameDecisions
  <2>2. /\ NotCoveredTasks' = NotCoveredTasks /\ CoveredTasks' = CoveredTasks
        /\ Undecided' = Undecided
    BY <2>1 DEF SameDecisions, NotCoveredTasks, CoveredTasks, Undecided, CoveredBy
  <2>3. CoveredBy(Undecided)' = CoveredBy(Undecided)
    BY <2>2 DEF CoveredBy
  <2>4. /\ tasks_covered' = tasks_covered /\ tasks_notcovered' = tasks_notcovered
        /\ holdoff_tasks' = holdoff_tasks
    BY DEF coverVars
  <2> QED BY <2>1, <2>2, <2>3, <2>4 DEF Computed
<1> QED BY <1>1, <1>2

\* Steps outside update_holdofftasks and the start of tasks
LEMMA BuildStep ==
  ASSUME BuildInv, SqFix(sq'), RunOK(sq'), sq'.needupdate \/ SameDecisions(sq, sq'),
         Settled(sq) \subseteq Settled(sq'), UNCHANGED <<opt, coverVars, sqdone>>,
         runq_buildable \subseteq runq_buildable', Ready', pc' # "sched",
         pc' = "holdoff" => Scanned', Running("task")' \subseteq Running("task"),
         pc' # "done" => (runq_running \ runq_complete \subseteq Running("task") \cup failed_tids)'
  PROVE  BuildInv'
<1>1. Computed'
  BY ComputedStep DEF BuildInv
<1>2. Undecided' \subseteq Undecided
  BY UndecidedIs, UndecidedPrime
<1>3. SetsceneOnly' = SetsceneOnly
  BY DEF SetsceneOnly
<1> QED BY <1>1, <1>2, <1>3 DEF BuildInv

\* Steps that leave the tasks alone, but for failures and exits
LEMMA IdleStep ==
  ASSUME BuildInv, UNCHANGED <<runq_buildable, runq_running, runq_complete>>
  PROVE  /\ Ready' /\ runq_buildable \subseteq runq_buildable'
         /\ (/\ pc # "done" /\ failed_tids \subseteq failed_tids'
             /\ Running("task") \subseteq Running("task")' \cup failed_tids')
            => (runq_running \ runq_complete \subseteq Running("task") \cup failed_tids)'
  BY DEF BuildInv, Ready

\* A completion forgets no task that has become buildable.
LEMMA ReadyComplete ==
  ASSUME Ready, NEW t \in Tasks, NEW buildable, runq_buildable \subseteq buildable,
         runq_running' \subseteq buildable, NEW ss, NEW valid,
         task_completeoutright(t, buildable, ss, valid)
  PROVE  Ready' /\ runq_buildable \subseteq runq_buildable'
<1>1. /\ runq_complete' = runq_complete \cup {t}
      /\ runq_buildable' = buildable \cup (Revdeps(t) \cap NewlyBuildable(runq_complete \cup {t}))
  BY DEF task_completeoutright
<1>2. ASSUME NEW r \in Tasks, Depends[r] # {}, Depends[r] \subseteq runq_complete'
      PROVE  r \in runq_buildable'
  <2>1. CASE t \in Depends[r]
    BY <1>1, <1>2, <2>1 DEF Revdeps, NewlyBuildable, Ready
  <2>2. CASE t \notin Depends[r]
    BY <1>1, <1>2, <2>2 DEF Ready
  <2> QED BY <2>1, <2>2
<1> QED BY <1>1, <1>2 DEF Ready

\* Whatever a completion does to the record makes update_holdofftasks compute
\* anew, or changes no decision.
LEMMA CompleteSame ==
  ASSUME TypeOK, NEW t \in Tasks, NEW buildable, NEW ss, NEW valid,
         task_completeoutright(t, buildable, ss, valid)
  PROVE  sq'.needupdate \/ SameDecisions(sq, sq')
<1> DEFINE waiting == {d \in SetsceneTids : sq_deferred[d] = t}
           found == First(waiting)
           deferred == [d \in SetsceneTids |->
                          IF d \notin waiting THEN sq_deferred[d]
                          ELSE IF d = found THEN None ELSE found]
           s1 == [sq EXCEPT !.outrightfail = @ \ {found}]
           s2 == [s1 EXCEPT !.outrightfail = @ \cup {found}]
<1>1. sq' = IF waiting = {} THEN sq ELSE update_scenequeue_data(sq, found, deferred, valid)
  BY DEF task_completeoutright
<1>2. waiting # {} => found \in SetsceneTids
  BY FirstIn
<1> HIDE DEF waiting, found, deferred
<1>3. s1 \in SqType /\ SameDecisions(sq, s1) /\ SameDecisions(sq, s2)
  BY DEF TypeOK, SqType, SameDecisions
<1>4. ASSUME waiting # {} PROVE sq_task_skip(s1, found).needupdate
  <2> HIDE DEF s1
  <2>1. sq_task_skip(s1, found) = scenequeue_updatecounters(Touch(s1, {found}), {found}, {})
    BY DEF sq_task_skip, sq_task_completeoutright
  <2>2. {found} \in SUBSET SetsceneTids
    BY <1>2, <1>4
  <2> QED BY <1>3, <2>1, <2>2, SkipExact
<1> QED BY <1>1, <1>3, <1>4 DEF update_scenequeue_data, SameDecisions

LEMMA BuildInit == Init => BuildInv
<1> SUFFICES ASSUME Init PROVE BuildInv
  OBVIOUS
<1>1. PICK valid \in SUBSET SetsceneTids : sq = InitSq(valid)
  BY DEF Init
<1> DEFINE skipped == {t \in SetsceneTids : t \in NoExec \/ stamppresent(t)}
           built   == [buildable |-> {t \in SetsceneTids : SqRevdeps[t] = {}},
                  running |-> {}, live |-> {}, covered |-> {}, notcovered |-> {},
                  done |-> Unskippable \ SetsceneTids,
                  needed |-> {}, harddeferred |-> {},
                  outrightfail |-> {t \in SetsceneTids \ (skipped \cup valid) :
                                      InitDeferred[t] = None},
                  needupdate |-> TRUE]
<1>2. sq = scenequeue_updatecounters(Touch(built, skipped), skipped, {})
  BY <1>1 DEF InitSq
<1>3. skipped \in SUBSET SetsceneTids
  OBVIOUS
<1> HIDE DEF skipped
<1>4. built \in SqType
  BY GraphTypes DEF SqType
<1>5. SqFix(built) /\ RunOK(built)
  <2>1. ASSUME NEW d \in Tasks \ SetsceneTids, Revdeps(d) # {}, Revdeps(d) \subseteq Unskippable \ SetsceneTids
        PROVE  d \in Unskippable \ SetsceneTids
    <3>1. PICK r \in Revdeps(d) : r \in Unskippable \ SetsceneTids /\ d \in Depends[r]
      BY <2>1 DEF Revdeps
    <3> QED BY <3>1, UnskippableStep
  <2>2. Settled(built) = {}
    BY DEF Settled
  <2> QED BY <2>1, <2>2 DEF SqFix, RunOK
<1>6. SqFix(sq) /\ RunOK(sq) /\ sq.needupdate
  <2> HIDE DEF built
  <2> QED BY <1>2, <1>3, <1>4, <1>5, SkipFix, SkipExact
<1>7. pc = "idle" /\ procs = {} /\ runq_complete = {} /\ runq_running = {} /\ sqdone = (SetsceneTids = {})
  BY DEF Init
<1>8. Running("task") = {}
  BY <1>7 DEF Running
<1>9. sqdone => Undecided = {}
  BY <1>7 DEF Undecided
<1> QED BY <1>6, <1>7, <1>8, <1>9 DEF BuildInv, Computed, Ready

\* update_holdofftasks and the end of the setscene phase
LEMMA BuildHoldoff == TypeOK /\ BookInv /\ BuildInv /\ HoldoffStep /\ UNCHANGED opt => BuildInv'
<1> SUFFICES ASSUME TypeOK, BookInv, BuildInv, HoldoffStep, UNCHANGED opt PROVE BuildInv'
  OBVIOUS
<1>1. /\ runq_complete' = runq_complete /\ runq_running' = runq_running /\ failed_tids' = failed_tids
      /\ procs' = procs /\ sq_deferred' = sq_deferred /\ pc = "holdoff" /\ active' = active
      /\ update_holdofftasks
  BY DEF HoldoffStep
<1>2. sq' = sq \/ sq' = [sq EXCEPT !.needupdate = FALSE]
  BY <1>1 DEF update_holdofftasks
<1>3. /\ sq'.covered = sq.covered /\ sq'.notcovered = sq.notcovered /\ sq'.done = sq.done
      /\ sq'.live = sq.live /\ sq'.running = sq.running /\ sq'.buildable = sq.buildable
      /\ sq'.needed = sq.needed /\ sq'.harddeferred = sq.harddeferred
  BY <1>2 DEF TypeOK, SqType
<1>4. ~sq'.needupdate
  BY <1>1 DEF update_holdofftasks, TypeOK, SqType
<1>5. Settled(sq') = Settled(sq)
  BY <1>3 DEF Settled
<1>6. Undecided' = Undecided /\ NotCoveredTasks' = NotCoveredTasks /\ CoveredTasks' = CoveredTasks
  BY <1>3 DEF Undecided, NotCoveredTasks, CoveredTasks, CoveredBy
<1>7. CoveredBy(Undecided)' = CoveredBy(Undecided) /\ Running("task")' = Running("task")
  BY <1>1, <1>6 DEF CoveredBy, Running
<1>8. SqFix(sq') /\ RunOK(sq')
  BY <1>3, <1>5 DEF SqFix, RunOK, BuildInv
<1>9. Computed' /\ runq_buildable \subseteq runq_buildable'
  <2>1. CASE sq.needupdate
    <3>1. /\ tasks_notcovered' = NotCoveredTasks /\ tasks_covered' = CoveredTasks
          /\ holdoff_tasks' = HoldoffTasks
          /\ runq_buildable' = runq_buildable \cup
               {t \in NotCoveredTasks \cup CoveredTasks : Depends[t] \subseteq runq_complete}
      BY <1>1, <2>1 DEF update_holdofftasks
    <3>2. HoldoffTasks \subseteq CoveredBy(Undecided)
      BY DEF HoldoffTasks, CoveredBy
    <3> QED BY <1>6, <1>7, <3>1, <3>2 DEF Computed
  <2>2. CASE ~sq.needupdate
    <3>1. UNCHANGED <<coverVars, runq_buildable>>
      BY <1>1, <2>2 DEF update_holdofftasks
    <3>2. sq' = sq
      BY <1>1, <2>2 DEF update_holdofftasks
    <3>3. SameDecisions(sq, sq') /\ Computed
      BY <3>2 DEF SameDecisions, BuildInv
    <3>4. runq_buildable \subseteq runq_buildable' /\ UNCHANGED coverVars
      BY <3>1
    <3> QED BY <3>3, <3>4, ComputedStep
  <2> QED BY <2>1, <2>2
<1>10. Ready'
  BY <1>1, <1>9 DEF Ready, BuildInv
\* The setscene phase only ends when every setscene task is decided.
<1>11. SceneOver => Undecided = {}
  <2> SUFFICES ASSUME SceneOver PROVE Undecided = {}
    OBVIOUS
  <2>1. holdoff_tasks' = {}
    BY DEF SceneOver
  <2>2. CASE sq.needupdate
    BY <1>1, <2>1, <2>2 DEF update_holdofftasks, HoldoffTasks
  <2>3. CASE ~sq.needupdate
    <3>1. holdoff_tasks = {}
      BY <1>1, <2>1, <2>3 DEF update_holdofftasks, coverVars
    <3> QED BY <2>3, <3>1 DEF BookInv, HoldoffOK
  <2> QED BY <2>2, <2>3
<1>12. pc' = "holdoff" \/ pc' = "sched" => pc' = "sched" /\ sqdone' = (sqdone \/ SceneOver)
  <2>1. ASSUME NEW st, Return(st, active, sq.live, failed_tids) PROVE pc' # "holdoff" /\ pc' # "sched"
    BY <2>1 DEF Return, finish
  <2> QED BY <2>1 DEF HoldoffStep
<1>13. pc' = "sched" => sqdone' \/ ~SceneQuiet'
  <2> SUFFICES ASSUME pc' = "sched", ~sqdone', SceneQuiet' PROVE FALSE
    OBVIOUS
  <2>1. ~sqdone /\ ~SceneOver
    BY <1>12
  <2>2. sq.live = {} /\ NoneDeferred /\ holdoff_tasks' = {}
    BY <1>1, <1>3 DEF SceneQuiet, NoneDeferred
  <2> QED BY <2>1, <2>2 DEF SceneOver, NoneDeferred
<1>14. pc' = "sched" => Scanned'
  <2>1. SceneCandidates' = SceneCandidates
    BY <1>1, <1>3 DEF SceneCandidates, build_stamps
  <2>2. can_start_task' = can_start_task
    BY <1>1, <1>3 DEF can_start_task, can_start
  <2> QED BY <1>1, <1>12, <2>1, <2>2 DEF Scanned, BuildInv
<1>15. sqdone' => sqdone \/ (SceneOver /\ ~SetsceneOnly)
  BY DEF HoldoffStep
<1>16. SetsceneOnly' = SetsceneOnly
  BY DEF SetsceneOnly
<1> QED
  BY <1>1, <1>4, <1>6, <1>7, <1>8, <1>9, <1>10, <1>11, <1>12, <1>13, <1>14, <1>15, <1>16 DEF BuildInv

\* The record after a step of the setscene loop, and the process it may start
LEMMA SceneRecord ==
  ASSUME TypeOK, BookInv, BuildInv, NEW t \in SceneCandidates, NEW valid,
         SceneNotNeeded(t) \/ SceneHardDefer(t) \/ SceneStart(t) \/ SceneSettle(t, valid)
  PROVE  /\ SqFix(sq') /\ RunOK(sq') /\ Settled(sq) \subseteq Settled(sq')
         /\ sq'.needupdate \/ SameDecisions(sq, sq')
<1>t. sq \in SqType /\ t \in sq.buildable /\ t \in SetsceneTids /\ {t} \in SUBSET SetsceneTids
      /\ HardDepsRev[t] \in SUBSET SetsceneTids
  BY SceneAssumption DEF TypeOK, SqType, SceneCandidates
<1>f. SqFix(sq) /\ RunOK(sq)
  BY DEF BuildInv
<1>1. ASSUME sq' = sq_task_skip(sq, t)
      PROVE  SqFix(sq') /\ RunOK(sq') /\ sq'.needupdate /\ Settled(sq) \subseteq Settled(sq')
  <2>1. sq' = scenequeue_updatecounters(Touch(sq, {t}), {t}, {})
    BY <1>1 DEF sq_task_skip, sq_task_completeoutright
  <2> QED BY <1>t, <1>f, <2>1, SkipFix, SkipExact
<1>2. ASSUME sq' = sq_task_failoutright(sq, t)
      PROVE  SqFix(sq') /\ RunOK(sq') /\ sq'.needupdate /\ Settled(sq) \subseteq Settled(sq')
  <2>1. SqFix(sq') /\ RunOK(sq') /\ t \in sq'.notcovered /\ sq'.covered = sq.covered
        /\ sq'.notcovered = sq.notcovered \cup FailSet(sq, t)
    BY <1>t, <1>f, <1>2, FailFix
  <2>2. sq'.needupdate
    BY <1>2 DEF sq_task_failoutright, scenequeue_updatecounters, Touch
  <2> QED BY <2>1, <2>2 DEF Settled
<1>3. CASE SceneNotNeeded(t)
  BY <1>1, <1>3 DEF SceneNotNeeded
<1>4. CASE SceneSettle(t, valid)
  BY <1>1, <1>2, <1>4 DEF SceneSettle
<1>5. CASE SceneHardDefer(t)
  <2> DEFINE enabled == HardDepsRev[t] \ sq.needed
  <2>1. sq' = [sq EXCEPT !.buildable = @ \cup enabled, !.needed = @ \cup enabled,
                         !.harddeferred = @ \cup {t}]
        /\ ~(HardDepsRev[t] \subseteq Settled(sq))
    BY <1>5 DEF SceneHardDefer, HardDepsSettled, Settled
  <2>2. /\ sq'.buildable = sq.buildable \cup enabled /\ sq'.needed = sq.needed \cup enabled
        /\ sq'.harddeferred = sq.harddeferred \cup {t}
        /\ sq'.done = sq.done /\ sq'.running = sq.running /\ sq'.live = sq.live
        /\ sq'.covered = sq.covered /\ sq'.notcovered = sq.notcovered
        /\ sq'.needupdate = sq.needupdate
    BY <1>t, <2>1 DEF SqType
  <2>3. Settled(sq') = Settled(sq)
    BY <2>2 DEF Settled
  <2> QED BY <1>f, <2>1, <2>2, <2>3 DEF SqFix, RunOK, SameDecisions
<1>6. CASE SceneStart(t)
  <2>1. /\ sq'.buildable = sq.buildable /\ sq'.needed = sq.needed
        /\ sq'.harddeferred = sq.harddeferred
        /\ sq'.done = sq.done /\ sq'.running = sq.running \cup {t} /\ sq'.live = sq.live \cup {t}
        /\ sq'.covered = sq.covered /\ sq'.notcovered = sq.notcovered
        /\ sq'.needupdate = sq.needupdate
    BY <1>t, <1>6 DEF SceneStart, SqType
  <2>2. Settled(sq') = Settled(sq)
    BY <2>1 DEF Settled
  <2> QED BY <1>t, <1>f, <2>1, <2>2 DEF SqFix, RunOK, SameDecisions
<1> QED BY <1>3, <1>4, <1>5, <1>6

\* A return never lands in the setscene loop's end or in the scheduler.
LEMMA ReturnPlace ==
  ASSUME NEW st, NEW act, NEW live, NEW failed, Return(st, act, live, failed)
  PROVE  pc' \in {"idle", "finish", "done"}
  BY DEF Return, finish

LEMMA BuildScene ==
  ASSUME TypeOK, BookInv, BuildInv, NEW t \in SceneCandidates, NEW valid, UNCHANGED opt,
         SceneNotNeeded(t) \/ SceneHardDefer(t) \/ SceneStart(t) \/ SceneSettle(t, valid)
  PROVE  BuildInv'
<1>1. /\ UNCHANGED <<coverVars, sqdone>>
      /\ UNCHANGED <<runq_buildable, runq_running, runq_complete>>
      /\ UNCHANGED failed_tids /\ UNCHANGED active /\ pc = "scan"
  BY DEF SceneNotNeeded, SceneHardDefer, SceneStart, SceneSettle, SceneUnchanged, runqVars, InScan
<1>2. Running("task")' = Running("task")
  <2>1. procs' = procs \/ procs' = procs \cup {Proc(t, "setscene")}
    BY DEF SceneNotNeeded, SceneHardDefer, SceneStart, SceneSettle
  <2>2. procs' = procs => Running("task")' = Running("task")
    BY DEF Running
  <2> QED BY <2>1, <2>2, AddProc
<1>3. pc' # "sched" /\ (pc' = "holdoff" => Scanned')
  <2>1. ASSUME NEW st, NEW live, Return(st, active, live, failed_tids)
        PROVE  pc' # "sched" /\ pc' # "holdoff"
    BY <2>1, ReturnPlace
  <2>2. CASE SceneNotNeeded(t) \/ SceneSettle(t, valid)
    BY <2>1, <2>2 DEF SceneNotNeeded, SceneSettle, ReturnUnchanged
  <2>3. CASE SceneHardDefer(t)
    BY <1>1, <2>1, <2>3 DEF SceneHardDefer, ReturnUnchanged
  <2>4. CASE SceneStart(t)
    <3>1. CASE can_start(active, sq'.live)
      BY <2>1, <2>4, <3>1 DEF SceneStart
    <3>2. CASE ~can_start(active, sq'.live)
      <4>1. ~can_start_task' /\ pc' = "holdoff"
        BY <1>1, <2>4, <3>2 DEF SceneStart, can_start_task, can_start
      <4> QED BY <4>1 DEF Scanned
    <3> QED BY <3>1, <3>2
  <2> QED BY <2>2, <2>3, <2>4
<1>4. Ready' /\ runq_buildable \subseteq runq_buildable'
      /\ (runq_running \ runq_complete \subseteq Running("task") \cup failed_tids)'
  BY <1>1, <1>2, IdleStep
<1> QED BY <1>1, <1>2, <1>3, <1>4, SceneRecord, BuildStep

\* A normal task is completed, by its exit or by the scheduler.
LEMMA BuildComplete ==
  ASSUME TypeOK, BookInv, BuildInv, NEW t \in Tasks, NEW buildable \in SUBSET Tasks,
         NEW ss \in [Tasks -> {None, Old, New}], NEW valid,
         task_completeoutright(t, buildable, ss, valid), runq_buildable \subseteq buildable,
         runq_running' \subseteq buildable, runq_running' \subseteq runq_running \cup {t},
         UNCHANGED <<opt, coverVars, sqdone>>, UNCHANGED failed_tids,
         Running("task")' \subseteq Running("task"), Running("task") \subseteq Running("task")' \cup {t},
         pc # "done", pc' \notin {"sched", "holdoff"}
  PROVE  BuildInv'
<1>1. SqFix(sq') /\ RunOK(sq')
  BY CompleteFix DEF BuildInv
<1>2. Settled(sq) \subseteq Settled(sq') /\ runq_complete' = runq_complete \cup {t}
  BY CompleteOutright DEF SqGrows
<1>3. sq'.needupdate \/ SameDecisions(sq, sq')
  BY CompleteSame
<1>4. Ready' /\ runq_buildable \subseteq runq_buildable'
  BY ReadyComplete DEF BuildInv
<1>5. (runq_running \ runq_complete \subseteq Running("task") \cup failed_tids)'
  BY <1>2 DEF BuildInv
<1> QED BY <1>1, <1>2, <1>3, <1>4, <1>5, BuildStep

LEMMA BuildSched ==
  ASSUME TypeOK, BookInv, BuildInv, SchedStep, UNCHANGED opt
  PROVE  BuildInv'
<1>u. UNCHANGED <<opt, coverVars, sqdone>>
  BY DEF SchedStep, SchedRefuse, SchedStart, SchedSkip, SchedNoExec, SchedNone, SchedUnchanged
<1>p. pc = "sched"
  BY DEF SchedStep, SchedRefuse, SchedStart, SchedSkip, SchedNoExec, SchedNone, InSched
<1>f. SqFix(sq) /\ RunOK(sq) /\ SameDecisions(sq, sq)
  BY DEF BuildInv, SameDecisions
<1>1. ASSUME NEW t \in SchedCandidates, NEW valid, SchedSkip(t, valid) \/ SchedNoExec(t, valid)
      PROVE  BuildInv'
  <2>1. /\ t \in Tasks /\ t \in runq_buildable
        /\ runq_buildable \in SUBSET Tasks /\ runq_buildable \cup {t} \in SUBSET Tasks
        /\ sstamp \in [Tasks -> {None, Old, New}] /\ (~Enforce) \in BOOLEAN
    BY DEF TypeOK, SchedCandidates
  <2>2. Unscened(t, ~Enforce) \in [Tasks -> {None, Old, New}]
    BY <2>1, StampedType
  <2>3. /\ UNCHANGED failed_tids /\ procs' = procs /\ runq_running' = runq_running \cup {t}
        /\ pc' \notin {"sched", "holdoff"}
    BY <1>1, ReturnPlace DEF SchedSkip, SchedNoExec
  <2>4. Running("task")' = Running("task")
    BY <2>3 DEF Running
  <2>5. runq_running' \subseteq runq_buildable
    BY <2>1, <2>3 DEF BuildInv, Ready
  <2>6. CASE SchedSkip(t, valid)
    <3> DEFINE b == runq_buildable \cup {t}
    <3>1. task_completeoutright(t, b, sstamp, valid)
      BY <2>6 DEF SchedSkip
    <3>2. b \in SUBSET Tasks /\ runq_buildable \subseteq b /\ runq_running' \subseteq b
      BY <2>1, <2>5
    <3> HIDE DEF b
    <3> QED BY <1>p, <1>u, <2>1, <2>3, <2>4, <3>1, <3>2, BuildComplete
  <2>7. CASE SchedNoExec(t, valid)
    <3>1. task_completeoutright(t, runq_buildable, Unscened(t, ~Enforce), valid)
      BY <2>7 DEF SchedNoExec
    <3> QED BY <1>p, <1>u, <2>1, <2>2, <2>3, <2>4, <2>5, <3>1, BuildComplete
  <2> QED BY <1>1, <2>6, <2>7
<1>2. ASSUME NEW t \in SchedCandidates, SchedStart(t) PROVE BuildInv'
  <2>1. /\ procs' = procs \cup {Proc(t, "task")} /\ runq_running' = runq_running \cup {t}
        /\ UNCHANGED <<runq_buildable, runq_complete, failed_tids, sq>>
        /\ pc' \notin {"sched", "holdoff"} /\ ~SetsceneOnly
    BY <1>2, ReturnPlace DEF SchedStart, InSched
  <2>2. Running("task")' = Running("task") \cup {t}
    BY <2>1, AddProc
  <2>3. t \in runq_buildable
    BY DEF SchedCandidates
  <2>4. Ready'
    BY <2>1, <2>3 DEF BuildInv, Ready
  <2>5. (runq_running \ runq_complete \subseteq Running("task") \cup failed_tids)'
    BY <1>p, <2>1, <2>2 DEF BuildInv
  <2>6. Computed'
    BY <1>u, <2>1, ComputedStep DEF SameDecisions, BuildInv
  <2>7. Undecided' = Undecided /\ SetsceneOnly' = SetsceneOnly /\ sqdone' = sqdone
    BY <1>u, <2>1 DEF Undecided, SetsceneOnly
  <2>8. SqFix(sq') /\ RunOK(sq')
    BY <1>f, <2>1
  <2> QED BY <2>1, <2>4, <2>5, <2>6, <2>7, <2>8 DEF BuildInv
<1>3. ASSUME \/ SchedNone
             \/ \E t \in SchedCandidates : SchedRefuse(t)
      PROVE  BuildInv'
  <2>1. /\ UNCHANGED <<runq_buildable, runq_running, runq_complete>>
        /\ UNCHANGED <<sq, procs>> /\ failed_tids \subseteq failed_tids'
        /\ pc' \notin {"sched", "holdoff"}
    BY <1>3, ReturnPlace DEF SchedNone, SchedRefuse, task_fail, runqVars, ReturnUnchanged
  <2>2. Running("task")' = Running("task")
    BY <2>1 DEF Running
  <2> QED BY <1>f, <1>p, <1>u, <2>1, <2>2, IdleStep, BuildStep
<1> QED BY <1>1, <1>2, <1>3 DEF SchedStep

\* read_workers() handles an exit.
LEMMA BuildExit ==
  ASSUME TypeOK, BookInv, BuildInv, NEW p \in procs, ProcessExit(p), UNCHANGED opt
  PROVE  BuildInv'
<1>1. /\ pc # "done" /\ pc' \notin {"sched", "holdoff", "done"} /\ procs' = procs \ {p}
      /\ UNCHANGED <<opt, coverVars, sqdone>> /\ runq_running' = runq_running
  BY DEF ProcessExit, SetsceneExit, TaskExit, TaskExitFailed, Reading, runqVars
<1>2. Running("task")' \subseteq Running("task")
  BY <1>1, RunningShrinks
<1>3. p.tid \in Tasks
  BY DEF TypeOK, Procs
<1>4. ASSUME NEW ok, SetsceneExit(p, ok) PROVE BuildInv'
  <2>1. /\ p.tid \in sq.live /\ UNCHANGED <<runq_buildable, runq_complete, failed_tids>>
        /\ sq' = [Settle(p.tid, ok) EXCEPT !.live = @ \ {p.tid}]
    BY <1>4 DEF SetsceneExit, runqVars
  <2>2. p.kind = "setscene"
    BY <1>1, <2>1, ProcKinds
  <2>3. Running("task")' = Running("task")
    BY <1>1, <2>2, RemoveProc
  <2>4. LiveOK(sq, sq_deferred)
    BY DEF BookInv
  <2>5. Settled(sq) \subseteq Settled(sq')
    BY <2>1, <2>4, SettleOK
  <2>6. SqFix(sq') /\ RunOK(sq')
    BY <2>1, <2>4, SettleFix DEF BuildInv
  <2>7. sq'.needupdate
    <3>1. sq \in SqType /\ p.tid \in SetsceneTids
      BY <2>1 DEF TypeOK, SqType
    <3>2. Settle(p.tid, ok) \in SqType
      BY <3>1, UpdateCounters, FailGrows DEF Settle, sq_task_completeoutright, SqGrows
    <3>3. Settle(p.tid, ok).needupdate
      BY DEF Settle, sq_task_completeoutright, sq_task_failoutright, scenequeue_updatecounters, Touch
    <3> QED BY <2>1, <3>2, <3>3 DEF SqType
  <2> QED BY <1>1, <2>1, <2>3, <2>5, <2>6, <2>7, IdleStep, BuildStep
<1>5. ASSUME NEW valid, TaskExit(p, valid) PROVE BuildInv'
  <2> DEFINE made == p.tid \notin NoStamp /\ ~Enforce
  <2>1. /\ task_completeoutright(p.tid, runq_buildable, Unscened(p.tid, made), valid)
        /\ p.tid \notin sq.live /\ UNCHANGED failed_tids
    BY <1>5 DEF TaskExit
  <2>2. made \in BOOLEAN /\ runq_buildable \in SUBSET Tasks
    BY DEF TypeOK
  <2> HIDE DEF made
  <2>3. Unscened(p.tid, made) \in [Tasks -> {None, Old, New}]
    BY <1>3, <2>2, StampedType
  <2>4. p.kind = "task"
    BY <1>1, <2>1, ProcKinds
  <2>5. Running("task")' = Running("task") \ {p.tid}
    BY <1>1, <2>4, RemoveProc
  <2>6. runq_running' \subseteq runq_buildable
    BY <1>1 DEF BuildInv, Ready
  <2> QED BY <1>1, <1>3, <2>1, <2>2, <2>3, <2>5, <2>6, BuildComplete
<1>6. ASSUME TaskExitFailed(p) PROVE BuildInv'
  <2>1. /\ UNCHANGED <<runq_buildable, runq_complete, sq>> /\ p.tid \notin sq.live
        /\ failed_tids' = failed_tids \cup {p.tid}
    BY <1>6 DEF TaskExitFailed, task_fail
  <2>2. p.kind = "task"
    BY <1>1, <2>1, ProcKinds
  <2>3. Running("task")' = Running("task") \ {p.tid}
    BY <1>1, <2>2, RemoveProc
  <2>4. SqFix(sq') /\ RunOK(sq') /\ SameDecisions(sq, sq') /\ Settled(sq') = Settled(sq)
    BY <2>1 DEF BuildInv, SameDecisions
  <2> QED BY <1>1, <1>2, <2>1, <2>3, <2>4, IdleStep, BuildStep
<1> QED BY <1>4, <1>5, <1>6 DEF ProcessExit

LEMMA BuildNext == TypeOK /\ BookInv /\ BuildInv /\ [Next]_vars => BuildInv'
<1> SUFFICES ASSUME TypeOK, BookInv, BuildInv, [Next]_vars PROVE BuildInv'
  OBVIOUS
<1>o. UNCHANGED opt
  BY DEF Next, Executor, Exits, RequestShutdown, Finished, vars
<1>1. CASE execute_runqueue \/ ReadReturn \/ SceneNone
  <2>1. /\ UNCHANGED <<coverVars, sqdone, sq>> /\ UNCHANGED failed_tids
        /\ UNCHANGED <<runq_buildable, runq_running, runq_complete>> /\ UNCHANGED sq_deferred
        /\ UNCHANGED active /\ pc # "done" /\ pc' # "sched"
    BY <1>1, ReturnPlace DEF execute_runqueue, finish_now, finish, ReadReturn, SceneNone,
                             SceneUnchanged, runqVars, ReturnUnchanged
  <2>2. Running("task")' \subseteq Running("task") /\ (pc' # "done" => Running("task")' = Running("task"))
    <3>1. procs' = procs \/ (procs' = {} /\ pc' = "done")
      BY <1>1 DEF execute_runqueue, finish_now, ReadReturn, SceneNone
    <3> QED BY <3>1 DEF Running
  <2>3. SqFix(sq') /\ RunOK(sq') /\ SameDecisions(sq, sq') /\ Settled(sq') = Settled(sq)
    BY <2>1 DEF BuildInv, SameDecisions
  <2>4. pc' = "holdoff" => Scanned'
    <3> SUFFICES ASSUME pc' = "holdoff" PROVE Scanned'
      OBVIOUS
    <3>1. SceneNone
      BY <1>1, ReturnPlace DEF execute_runqueue, finish_now, finish, ReadReturn, ReturnUnchanged
    <3>2. procs' = procs /\ Scanned
      BY <3>1 DEF SceneNone, Scanned
    <3>3. SceneCandidates' = SceneCandidates /\ can_start_task' = can_start_task
      BY <2>1, <3>2 DEF SceneCandidates, build_stamps, can_start_task, can_start
    <3> QED BY <2>1, <3>2, <3>3 DEF Scanned
  <2> QED BY <1>o, <2>1, <2>2, <2>3, <2>4, IdleStep, BuildStep
<1>2. CASE HoldoffStep
  BY <1>2, <1>o, BuildHoldoff
<1>3. CASE SchedStep
  BY <1>3, <1>o, BuildSched
<1>4. CASE \E p \in procs : ProcessExit(p)
  BY <1>4, <1>o, BuildExit
<1>5. ASSUME NEW t \in SceneCandidates, NEW valid,
             SceneNotNeeded(t) \/ SceneHardDefer(t) \/ SceneStart(t) \/ SceneSettle(t, valid)
      PROVE  BuildInv'
  BY <1>5, <1>o, BuildScene
<1>6. CASE RequestShutdown \/ UNCHANGED vars
  <2>1. /\ UNCHANGED <<coverVars, sqdone, sq, sq_deferred>> /\ UNCHANGED failed_tids
        /\ UNCHANGED <<runq_buildable, runq_running, runq_complete>> /\ UNCHANGED <<active, procs, pc>>
    BY <1>6 DEF RequestShutdown, vars, runqVars
  <2>2. /\ Running("task")' = Running("task") /\ Undecided' = Undecided
        /\ SetsceneOnly' = SetsceneOnly
    BY <1>o, <2>1 DEF Running, Undecided, SetsceneOnly
  <2>3. Computed'
    BY <2>1, ComputedStep DEF SameDecisions, BuildInv
  <2>4. Scanned' = Scanned /\ SceneQuiet' = SceneQuiet
    <3>1. SceneCandidates' = SceneCandidates /\ can_start_task' = can_start_task
      BY <2>1 DEF SceneCandidates, build_stamps, can_start_task, can_start
    <3> QED BY <2>1, <3>1 DEF Scanned, SceneQuiet, NoneDeferred, coverVars
  <2>5. Ready'
    BY <2>1 DEF Ready, BuildInv
  <2> QED BY <2>1, <2>2, <2>3, <2>4, <2>5 DEF BuildInv
<1> QED
  BY <1>1, <1>2, <1>3, <1>4, <1>5, <1>6
     DEF Next, Executor, SceneStep, Exits, Finished

\* The build is correct as far as it has come.
LEMMA BuildAlways == Spec => [](TypeOK /\ BookInv /\ BuildInv)
  BY TypeInit, TypeNext, BookInit, BookNext, BuildInit, BuildNext, PTL DEF Spec

-----------------------------------------------------------------------------
(***************************************************************************)
(* How a build ends.                                                       *)
(***************************************************************************)
\* What makes the executor stop before everything is built
Stopping == shutdown # "no" \/ Enforce \/ (Halt /\ failed_tids # {})

CtrlInv ==
  /\ state \in {"failed", "complete"} => pc = "done"
  /\ state = "cleanup" => Stopping

\* After the end nothing happens any more.
LEMMA DoneStays == pc = "done" /\ [Next]_vars => UNCHANGED vars
<1> SUFFICES ASSUME pc = "done", Next PROVE UNCHANGED vars
  OBVIOUS
<1>1. ~Executor
  BY DEF Executor, execute_runqueue, ReadReturn, SceneStep, SceneNotNeeded, SceneHardDefer, SceneStart,
         SceneSettle, SceneNone, InScan, HoldoffStep, SchedStep, SchedRefuse, SchedStart, SchedSkip,
         SchedNoExec, SchedNone, InSched
<1>2. ~Exits /\ ~RequestShutdown
  BY DEF Exits, ProcessExit, SetsceneExit, TaskExit, TaskExitFailed, Reading, RequestShutdown
<1> QED BY <1>1, <1>2 DEF Next, Finished

\* A requested shutdown is not taken back.
LEMMA ShutdownStays == shutdown # "no" /\ [Next]_vars => shutdown' # "no"
<1> SUFFICES ASSUME shutdown # "no", [Next]_vars PROVE shutdown' # "no"
  OBVIOUS
<1>1. CASE RequestShutdown
  BY <1>1 DEF RequestShutdown
<1>2. CASE Executor
  BY <1>2 DEF Executor, execute_runqueue, ReadReturn, SceneStep, SceneNotNeeded, SceneHardDefer,
              SceneStart, SceneSettle, SceneNone, SceneUnchanged, HoldoffStep, SchedStep, SchedRefuse,
              SchedStart, SchedSkip, SchedNoExec, SchedNone, SchedUnchanged
<1>3. CASE Exits
  BY <1>3 DEF Exits, ProcessExit, SetsceneExit, TaskExit, TaskExitFailed
<1>4. CASE UNCHANGED vars
  BY <1>4 DEF vars
<1> QED BY <1>1, <1>2, <1>3, <1>4 DEF Next, Finished

\* A build that is told to stop is not told otherwise later.
LEMMA StoppingStays == TypeOK /\ Stopping /\ [Next]_vars => Stopping'
<1> SUFFICES ASSUME TypeOK, Stopping, [Next]_vars PROVE Stopping'
  OBVIOUS
<1>1. UNCHANGED opt
  BY DEF Next, Executor, Exits, RequestShutdown, Finished, vars
<1> QED BY <1>1, ShutdownStays, FailedGrow DEF Stopping, Enforce, Halt

\* What a return makes of the state of the build
LEMMA ReturnCtrl ==
  ASSUME NEW st \in States, NEW act, NEW live, NEW failed, Return(st, act, live, failed),
         st = "cleanup" => Stopping'
  PROVE  CtrlInv'
  BY ReturnCases DEF CtrlInv, States

LEMMA CtrlNext == TypeOK /\ CtrlInv /\ [Next]_vars => CtrlInv'
<1> SUFFICES ASSUME TypeOK, CtrlInv, [Next]_vars PROVE CtrlInv'
  OBVIOUS
<1>s. state \in States /\ (state = "cleanup" => Stopping')
  BY StoppingStays DEF TypeOK, CtrlInv
<1>r. ASSUME NEW act, NEW live, NEW failed, Return(state, act, live, failed) PROVE CtrlInv'
  BY <1>s, <1>r, ReturnCtrl
<1>a. ASSUME state' = state, pc # "done" PROVE CtrlInv'
  BY <1>s, <1>a DEF CtrlInv, States
<1>o. UNCHANGED opt
  BY DEF Next, Executor, Exits, RequestShutdown, Finished, vars
<1>1. CASE execute_runqueue
  <2>1. CASE shutdown = "force" /\ finish_now
    BY <2>1 DEF finish_now, CtrlInv
  <2>2. CASE /\ shutdown = "clean" \/ (shutdown = "no" /\ state = "cleanup")
             /\ finish(active, sq.live, failed_tids)
    <3>1. Stopping'
      BY <1>s, <2>2, StoppingStays DEF Stopping
    <3> QED BY <2>2, <3>1 DEF finish, CtrlInv
  <2>3. CASE state' = state /\ pc = "idle"
    BY <2>3, <1>a
  <2> QED BY <1>1, <2>1, <2>2, <2>3 DEF execute_runqueue
<1>2. CASE ReadReturn \/ SceneNone \/ RequestShutdown
  BY <1>2, <1>a, <1>r DEF ReadReturn, SceneNone, RequestShutdown, ReturnUnchanged
<1>3. CASE HoldoffStep
  BY <1>3, <1>a, ReturnCtrl DEF HoldoffStep, States
<1>4. ASSUME NEW t \in SceneCandidates, NEW valid,
             SceneNotNeeded(t) \/ SceneHardDefer(t) \/ SceneStart(t) \/ SceneSettle(t, valid)
      PROVE  CtrlInv'
  BY <1>4, <1>a, <1>r DEF SceneNotNeeded, SceneHardDefer, SceneStart, SceneSettle, ReturnUnchanged, InScan
<1>5. CASE SchedNone
  BY <1>5, <1>a, <1>r, ReturnCtrl DEF SchedNone, ReturnUnchanged, States
<1>6. ASSUME NEW t \in SchedCandidates, NEW valid, SchedStart(t) \/ SchedSkip(t, valid) \/ SchedNoExec(t, valid)
      PROVE  CtrlInv'
  BY <1>6, <1>a, <1>r DEF SchedStart, SchedSkip, SchedNoExec, InSched
\* A failed task stops the build when bitbake --continue is not given.
<1>f. ASSUME NEW t, task_fail(t) PROVE AfterFail \in States /\ (AfterFail = "cleanup" => Stopping')
  <2>1. failed_tids' # {} /\ (Halt => Stopping')
    BY <1>f, <1>o DEF task_fail, Stopping, Halt
  <2> QED BY <1>s, <2>1 DEF AfterFail, States
<1>7. ASSUME NEW t \in SchedCandidates, SchedRefuse(t) PROVE CtrlInv'
  BY <1>7, <1>f, ReturnCtrl DEF SchedRefuse
<1>8. ASSUME NEW p \in procs, ProcessExit(p) PROVE CtrlInv'
  <2>1. pc # "done" /\ pc' = pc
    BY <1>8 DEF ProcessExit, SetsceneExit, TaskExit, TaskExitFailed, Reading
  <2>2. state \in {"running", "cleanup"}
    BY <1>s, <2>1 DEF CtrlInv, States
  <2>3. CASE \E ok \in BOOLEAN : SetsceneExit(p, ok)
    <3>1. state' = state \/ (state' = "cleanup" /\ Enforce)
      BY <2>3 DEF SetsceneExit
    <3> QED BY <1>a, <1>o, <2>1, <3>1 DEF CtrlInv, Stopping, Enforce
  <2>4. CASE \E valid \in Validity(p.tid) : TaskExit(p, valid)
    BY <1>a, <2>1, <2>4 DEF TaskExit
  <2>5. CASE TaskExitFailed(p)
    BY <1>f, <2>2, <2>5 DEF TaskExitFailed, AfterFail, CtrlInv
  <2> QED BY <1>8, <2>3, <2>4, <2>5 DEF ProcessExit
<1>9. CASE UNCHANGED vars
  <2>1. state' = state /\ pc' = pc
    BY <1>9 DEF vars
  <2> QED BY <1>s, <2>1 DEF CtrlInv
<1> QED
  BY <1>1, <1>2, <1>3, <1>4, <1>5, <1>6, <1>7, <1>8, <1>9
     DEF Next, Executor, SceneStep, SchedStep, Exits, Finished

\* What holds of every state of a build
EndInv == TypeOK /\ BookInv /\ CountInv /\ BuildInv /\ CtrlInv

LEMMA EndInit == Init => EndInv
  BY TypeInit, BookInit, CountInit, BuildInit DEF EndInv, Init, CtrlInv

LEMMA EndNext == EndInv /\ [Next]_vars => EndInv'
  BY TypeNext, BookNext, CountNext, BuildNext, CtrlNext DEF EndInv

LEMMA EndAlways == Spec => []EndInv
  BY EndInit, EndNext, PTL DEF Spec

\* When every setscene task is settled, every task is.
LEMMA AllDone ==
  ASSUME SqFix(sq), Undecided = {}
  PROVE  Tasks \subseteq sq.done
<1>1. SetsceneTids \subseteq sq.done
  BY UndecidedIs DEF SqFix
<1> DEFINE U == Tasks \ sq.done
<1>2. U \in SUBSET Tasks
  OBVIOUS
<1>3. ASSUME U # {} PROVE FALSE
  <2>1. PICK t \in U : Revdeps(t) \cap U = {}
    BY <1>2, <1>3, AcyclicAssumption
  <2>2. t \in Tasks \ SetsceneTids /\ t \notin sq.done /\ Revdeps(t) \subseteq sq.done
    BY <1>1, <2>1 DEF Revdeps
  <2>3. Revdeps(t) = {}
    BY <2>2 DEF SqFix
  <2>4. t \in Unskippable
    BY <2>2, <2>3, UnskippableStep DEF Endpoints
  <2> QED BY <2>2, <2>4 DEF SqFix
<1> QED BY <1>3

\* summarise_scenequeue_errors finds nothing at the end of the setscene phase.
LEMMA NoSceneErrors ==
  ASSUME TypeOK, BookInv, SqFix(sq), NEW buildable, NEW holdoff, holdoff = {},
         Undecided = {}, NoneDeferred,
         \A t \in CoveredTasks \cup NotCoveredTasks : Depends[t] = {} => t \in buildable
  PROVE  /\ ~SceneErrors(buildable, CoveredTasks, NotCoveredTasks, holdoff)
         /\ Tasks \subseteq CoveredTasks \cup NotCoveredTasks
<1>1. Tasks \subseteq sq.done
  BY AllDone
<1>2. SetsceneTids \subseteq sq.buildable \cap sq.running
  BY UndecidedIs DEF BookInv, LiveOK, SqFix
<1>3. Tasks \subseteq CoveredTasks \cup NotCoveredTasks
  <2> SUFFICES ASSUME NEW t \in Tasks PROVE t \in CoveredTasks \cup NotCoveredTasks
    OBVIOUS
  <2>1. SetsceneTids \subseteq sq.covered \cup sq.notcovered
    BY DEF Undecided
  <2>2. CASE t \in SetsceneTids
    BY <1>1, <2>1, <2>2 DEF CoveredTasks, NotCoveredTasks, CoveredBy
  <2>3. CASE t \in Tasks \ SetsceneTids /\ t \in Unskippable
    BY <1>1, <2>3 DEF NotCoveredTasks
  <2>4. CASE \E s \in SetsceneTids : t \in SqCoveredTasks[s]
    BY <1>1, <2>1, <2>4 DEF CoveredTasks, NotCoveredTasks, CoveredBy
  <2> QED BY <2>2, <2>3, <2>4, EveryTaskReached
<1> QED BY <1>1, <1>2, <1>3 DEF SceneErrors, NoneDeferred

\* The end of the setscene phase is never reported as an error.
LEMMA SceneOverClean ==
  ASSUME EndInv, HoldoffStep, UNCHANGED opt, SceneOver
  PROVE  ~SceneErrors(runq_buildable', tasks_covered', tasks_notcovered', holdoff_tasks')
<1>1. BuildInv'
  BY BuildHoldoff DEF EndInv
<1>2. sq' = sq \/ sq' = [sq EXCEPT !.needupdate = FALSE]
  BY DEF HoldoffStep, update_holdofftasks
<1>3. /\ sq'.covered = sq.covered /\ sq'.notcovered = sq.notcovered /\ sq'.done = sq.done
      /\ ~sq'.needupdate
  BY <1>2 DEF HoldoffStep, update_holdofftasks, EndInv, TypeOK, SqType
<1>4. NotCoveredTasks' = NotCoveredTasks /\ CoveredTasks' = CoveredTasks
  BY <1>3 DEF NotCoveredTasks, CoveredTasks, CoveredBy
<1>5. /\ tasks_covered' = CoveredTasks /\ tasks_notcovered' = NotCoveredTasks
      /\ \A t \in CoveredTasks \cup NotCoveredTasks : Depends[t] = {} => t \in runq_buildable'
  BY <1>1, <1>3, <1>4 DEF BuildInv, Computed
<1>6. holdoff_tasks' = {} /\ NoneDeferred
  BY DEF SceneOver, NoneDeferred
<1>7. Undecided = {}
  <2>1. CASE sq.needupdate
    BY <1>6, <2>1 DEF HoldoffStep, update_holdofftasks, HoldoffTasks
  <2>2. CASE ~sq.needupdate
    <3>1. holdoff_tasks = {}
      BY <1>6, <2>2 DEF HoldoffStep, update_holdofftasks, coverVars
    <3> QED BY <2>2, <3>1 DEF EndInv, BookInv, HoldoffOK
  <2> QED BY <2>1, <2>2
<1>8. TypeOK /\ BookInv /\ SqFix(sq)
  BY DEF EndInv, BuildInv
<1> QED BY <1>5, <1>6, <1>7, <1>8, NoSceneErrors

\* Nothing is running when nothing is counted.
LEMMA NoProcs ==
  ASSUME EndInv, pc # "done", Counted, ~(active + Cardinality(sq.live) > 0)
  PROVE  procs = {} /\ sq.live = {} /\ Running("task") = {}
<1>1. IsFiniteSet(procs) /\ Cardinality(procs) = active + Cardinality(sq.live)
  BY DEF EndInv, CountInv
<1>2. Cardinality(procs) = 0
  BY <1>1, FS_CardinalityType
<1>3. procs = {}
  BY <1>1, <1>2, FS_EmptySet
<1> QED BY <1>3 DEF EndInv, BookInv, Running

\* The ways a build ends: a forced shutdown; finish(), because the build was
\* told to stop; the setscene phase of bitbake --setscene-only; and the end of
\* execute().
ForcedEnd == shutdown = "force" /\ procs' = {} /\ state' = "complete"
StoppedEnd == /\ Stopping' /\ (Counted' => procs' = {})
              /\ state' = IF failed_tids' # {} THEN "failed" ELSE "complete"
SceneEnd == SetsceneOnly /\ state' = "complete" /\ procs' = {}
PlainEnd == /\ pc = "sched" /\ active =< 0 /\ sq.live = {} /\ NoneDeferred
            /\ SetsceneOnly \/ ~can_start_task \/ SchedCandidates = {} \/ exceeds_max_pressure
            /\ state' = IF failed_tids # {} \/ SanityErrors THEN "failed" ELSE "complete"
            /\ UNCHANGED <<procs, shutdown>> /\ UNCHANGED runqVars /\ UNCHANGED coverVars

\* A return that ends the build
LEMMA ReturnEnds ==
  ASSUME EndInv, [Next]_vars, pc # "done", NEW st \in {"running", "cleanup"}, NEW act, NEW live,
         Return(st, act, live, failed_tids'), pc' = "done", st = "cleanup" => Stopping'
  PROVE  /\ ~(act + Cardinality(live) > 0) /\ Stopping'
         /\ state' = IF failed_tids' # {} THEN "failed" ELSE "complete"
  BY ReturnCases DEF States

LEMMA Ends ==
  ASSUME EndInv, [Next]_vars, pc # "done", pc' = "done"
  PROVE  ForcedEnd \/ StoppedEnd \/ SceneEnd \/ PlainEnd
<1>o. UNCHANGED opt
  BY DEF Next, Executor, Exits, RequestShutdown, Finished, vars
<1>s. /\ state \in {"running", "cleanup"} /\ (state = "cleanup" => Stopping')
      /\ sq \in SqType /\ active \in Int
  BY StoppingStays DEF EndInv, TypeOK, CtrlInv, States
<1>l. IsFiniteSet(sq.live) /\ Cardinality(sq.live) \in Nat
  BY CountFinite, FS_CardinalityType DEF EndInv
<1>c. Counted' => Counted
  BY <1>o, FailedGrow DEF Counted, Enforce
\* A return with the counters as they are
<1>r. ASSUME Return(state, active, sq.live, failed_tids), failed_tids' = failed_tids, procs' = procs
      PROVE  StoppedEnd
  <2>1. ~(active + Cardinality(sq.live) > 0) /\ Stopping'
        /\ state' = IF failed_tids' # {} THEN "failed" ELSE "complete"
    BY <1>r, <1>s, ReturnEnds
  <2> QED BY <1>c, <1>r, <2>1, NoProcs DEF StoppedEnd
<1>1. CASE execute_runqueue
  <2>1. CASE shutdown = "force" /\ finish_now
    BY <2>1 DEF ForcedEnd, finish_now
  <2>2. CASE /\ shutdown = "clean" \/ (shutdown = "no" /\ state = "cleanup")
             /\ finish(active, sq.live, failed_tids) /\ procs' = procs
    <3>1. Stopping'
      BY <1>s, <2>2, StoppingStays DEF Stopping, EndInv
    <3>2. ~(active + Cardinality(sq.live) > 0)
          /\ state' = IF failed_tids # {} THEN "failed" ELSE "complete"
      BY <2>2 DEF finish
    <3>3. failed_tids' = failed_tids
      BY <1>1 DEF execute_runqueue, runqVars
    <3> QED BY <1>c, <2>2, <3>1, <3>2, <3>3, NoProcs DEF StoppedEnd
  <2> QED BY <1>1, <2>1, <2>2 DEF execute_runqueue
<1>2. CASE ReadReturn
  BY <1>2, <1>r DEF ReadReturn, ReturnUnchanged, runqVars
<1>3. CASE HoldoffStep
  <2>1. /\ SceneOver
        /\ LET err == SceneErrors(runq_buildable', tasks_covered', tasks_notcovered', holdoff_tasks')
           IN  /\ err \/ SetsceneOnly
               /\ Return(IF err THEN "failed" ELSE "complete", active, sq.live, failed_tids)
    BY <1>3 DEF HoldoffStep
  <2>2. SetsceneOnly /\ Return("complete", active, sq.live, failed_tids)
    BY <1>3, <1>o, <2>1, SceneOverClean
  <2>3. state' = "complete"
    BY <2>2 DEF Return
  <2>4. Running("task") = {} /\ Running("setscene") = {}
    BY <2>1, <2>2 DEF EndInv, BuildInv, BookInv, SceneOver
  <2>5. procs = {}
    BY <2>4 DEF Running, EndInv, TypeOK, Procs
  <2> QED BY <1>3, <2>2, <2>3, <2>5 DEF SceneEnd, HoldoffStep
<1>4. ASSUME NEW t \in SceneCandidates, NEW valid,
             SceneNotNeeded(t) \/ SceneHardDefer(t) \/ SceneSettle(t, valid)
      PROVE  StoppedEnd
  BY <1>4, <1>r DEF SceneNotNeeded, SceneHardDefer, SceneSettle, ReturnUnchanged, SceneUnchanged,
                    runqVars, InScan
<1>5. ASSUME NEW t \in SceneCandidates, SceneStart(t) PROVE StoppedEnd
  <2>1. Return(state, active, sq'.live, failed_tids') /\ sq'.live = sq.live \cup {t} /\ t \notin sq.live
    BY <1>5, <1>s DEF SceneStart, SceneUnchanged, runqVars, SqType, SceneCandidates, EndInv, BookInv, LiveOK
  <2>2. ~(active + Cardinality(sq'.live) > 0) /\ Stopping'
        /\ state' = IF failed_tids' # {} THEN "failed" ELSE "complete"
    BY <1>s, <2>1, ReturnEnds
  <2>3. Cardinality(sq'.live) = Cardinality(sq.live) + 1
    BY <1>l, <2>1, FS_AddElement
  <2>4. ~Counted
    <3>1. ASSUME Counted PROVE active + Cardinality(sq.live) \in Nat
      BY <3>1, FS_CardinalityType DEF EndInv, CountInv
    <3> QED BY <1>l, <1>s, <2>2, <2>3, <3>1
  <2> QED BY <1>c, <2>2, <2>4 DEF StoppedEnd
<1>6. CASE SchedNone
  <2>1. procs' = procs /\ failed_tids' = failed_tids
    BY <1>6 DEF SchedNone, runqVars
  <2>2. CASE ReturnUnchanged
    BY <1>r, <2>1, <2>2 DEF ReturnUnchanged
  <2>3. CASE /\ active =< 0 /\ sq.live = {} /\ NoneDeferred
             /\ Return(IF failed_tids # {} \/ SanityErrors THEN "failed" ELSE "complete",
                       active, sq.live, failed_tids)
    <3>1. state' = IF failed_tids # {} \/ SanityErrors THEN "failed" ELSE "complete"
      BY <2>3 DEF Return
    <3> QED BY <1>6, <2>3, <3>1 DEF SchedNone, PlainEnd, SchedUnchanged
  <2> QED BY <1>6, <2>2, <2>3 DEF SchedNone, NoneDeferred
<1>7. ASSUME NEW t \in SchedCandidates, NEW valid, SchedSkip(t, valid) \/ SchedNoExec(t, valid)
      PROVE  StoppedEnd
  <2>1. procs' = procs /\ failed_tids' = failed_tids /\ Return(state, active, sq'.live, failed_tids)
    BY <1>7 DEF SchedSkip, SchedNoExec
  <2>2. PICK buildable \in SUBSET Tasks, ss \in [Tasks -> {None, Old, New}] :
           task_completeoutright(t, buildable, ss, valid) /\ t \in Tasks
    <3>1. /\ t \in Tasks /\ runq_buildable \in SUBSET Tasks /\ runq_buildable \cup {t} \in SUBSET Tasks
          /\ sstamp \in [Tasks -> {None, Old, New}] /\ (~Enforce) \in BOOLEAN
      BY DEF EndInv, TypeOK, SchedCandidates
    <3>2. Unscened(t, ~Enforce) \in [Tasks -> {None, Old, New}]
      BY <3>1, StampedType DEF EndInv
    <3> QED BY <1>7, <3>1, <3>2 DEF SchedSkip, SchedNoExec
  <2>3. sq'.live = sq.live
    BY <2>2, CompleteOutright DEF SqGrows, EndInv
  <2> QED BY <1>r, <2>1, <2>3
<1>8. ASSUME NEW t \in SchedCandidates, SchedStart(t) PROVE StoppedEnd
  <2>1. Return(state, active', sq.live, failed_tids') /\ active' = active + 1
    BY <1>8 DEF SchedStart
  <2>2. ~(active' + Cardinality(sq.live) > 0) /\ Stopping'
        /\ state' = IF failed_tids' # {} THEN "failed" ELSE "complete"
    BY <1>s, <2>1, ReturnEnds
  <2>3. ~Counted
    <3>1. ASSUME Counted PROVE active + Cardinality(sq.live) \in Nat
      BY <3>1, FS_CardinalityType DEF EndInv, CountInv
    <3> QED BY <1>l, <1>s, <2>1, <2>2, <3>1
  <2> QED BY <1>c, <2>2, <2>3 DEF StoppedEnd
<1>9. ASSUME NEW t \in SchedCandidates, SchedRefuse(t) PROVE StoppedEnd
  <2>1. Enforce /\ procs' = procs /\ Return(AfterFail, active', sq.live, failed_tids')
    BY <1>9 DEF SchedRefuse, check_setscene_ignore_tasks
  <2>2. AfterFail \in {"running", "cleanup"} /\ Stopping'
    BY <1>o, <1>s, <2>1 DEF AfterFail, Stopping, Enforce
  <2>3. ~(active' + Cardinality(sq.live) > 0)
        /\ state' = IF failed_tids' # {} THEN "failed" ELSE "complete"
    BY <2>1, <2>2, ReturnEnds
  <2>4. ~Counted'
    BY <1>9, <1>o, <2>1 DEF SchedRefuse, task_fail, Counted, Enforce
  <2> QED BY <2>2, <2>3, <2>4 DEF StoppedEnd
<1> QED
  <2>1. ~(\E p \in procs : ProcessExit(p)) /\ ~RequestShutdown /\ ~SceneNone /\ ~(UNCHANGED vars)
    BY DEF ProcessExit, SetsceneExit, TaskExit, TaskExitFailed, Reading, RequestShutdown, SceneNone, vars
  <2> QED BY <1>1, <1>2, <1>3, <1>4, <1>5, <1>6, <1>7, <1>8, <1>9, <2>1
             DEF Next, Executor, SceneStep, SchedStep, Exits, Finished

-----------------------------------------------------------------------------
(***************************************************************************)
(* The executor does not get stuck.  The code does not check that the hard *)
(* dependencies between setscene tasks are acyclic; the metadata's         *)
(* setsceneweight function decides them.                                   *)
(***************************************************************************)
HardDepsAcyclic ==
  \A U \in (SUBSET SetsceneTids) \ {{}} : \E t \in U : HardDepsRev[t] \cap U = {}

\* While a setscene task is undecided and nothing runs, the setscene loop has
\* a candidate.
LEMMA Progress ==
  ASSUME EndInv, HardDepsAcyclic, Undecided # {}, sq.live = {}, procs = {}, NoneDeferred
  PROVE  SceneCandidates # {}
<1>f. SqFix(sq) /\ RunOK(sq) /\ sq \in SqType
  BY DEF EndInv, BuildInv, TypeOK
<1> DEFINE W == Undecided \cap sq.buildable
<1>1. W \in (SUBSET SetsceneTids) \ {{}}
  <2>1. Undecided \in SUBSET SetsceneTids
    BY DEF Undecided
  <2>2. PICK u \in Undecided : SqRevdeps[u] \cap Undecided = {}
    BY <2>1, FirstOfScene
  <2>3. SqRevdeps[u] \subseteq Settled(sq)
    BY <2>1, <2>2, UndecidedIs, GraphTypes
  <2>4. u \in sq.buildable /\ u \in W
    BY <1>f, <2>1, <2>2, <2>3 DEF SqFix
  <2> QED BY <2>1, <2>4
<1>2. PICK v \in W : HardDepsRev[v] \cap W = {}
  BY <1>1 DEF HardDepsAcyclic
<1>3. v \in SetsceneTids /\ v \notin Settled(sq) /\ v \in sq.buildable
  BY <1>2, UndecidedIs
<1>4. v \notin sq.running
  BY <1>f, <1>3 DEF RunOK
<1>5. v \notin sq.harddeferred
  <2> SUFFICES ASSUME v \in sq.harddeferred PROVE FALSE
    OBVIOUS
  <2>1. PICK h \in HardDepsRev[v] : h \notin Settled(sq)
    BY <1>f DEF SqFix
  <2>2. h \in sq.buildable /\ h \in SetsceneTids
    BY <1>f, <1>3, <2>1, SceneAssumption DEF SqFix
  <2> QED BY <1>2, <2>1, <2>2, UndecidedIs
<1>6. build_stamps = {}
  BY DEF build_stamps
<1> QED BY <1>3, <1>4, <1>5, <1>6 DEF SceneCandidates, NoneDeferred

\* When the scheduler finds nothing running, the setscene phase is over and
\* has left every task covered or notcovered.
LEMMA SchedQuiet ==
  ASSUME EndInv, HardDepsAcyclic, pc = "sched", procs = {}, active =< 0, sq.live = {}, NoneDeferred
  PROVE  /\ sqdone /\ holdoff_tasks = {}
         /\ Tasks \subseteq tasks_covered \cup tasks_notcovered
         /\ ~SceneErrors(runq_buildable, tasks_covered, tasks_notcovered, holdoff_tasks)
         /\ can_start_task
<1>1. Computed /\ ~sq.needupdate /\ Scanned /\ (sqdone \/ ~SceneQuiet) /\ (sqdone => Undecided = {})
  BY DEF EndInv, BuildInv
<1>2. /\ tasks_notcovered = NotCoveredTasks /\ tasks_covered = CoveredTasks
      /\ holdoff_tasks \subseteq CoveredBy(Undecided)
      /\ \A t \in CoveredTasks \cup NotCoveredTasks : Depends[t] = {} => t \in runq_buildable
  BY <1>1 DEF Computed
<1>3. can_start_task
  BY FS_EmptySet, LimitAssumption DEF can_start_task, can_start, EndInv, TypeOK
<1>4. Undecided = {} => holdoff_tasks = {}
  BY <1>2 DEF CoveredBy
<1>5. sqdone
  <2> SUFFICES ASSUME ~sqdone PROVE FALSE
    OBVIOUS
  <2>1. Undecided # {}
    BY <1>1, <1>4 DEF SceneQuiet
  <2> QED BY <1>1, <1>3, <2>1, Progress DEF Scanned
<1>6. Undecided = {} /\ holdoff_tasks = {}
  BY <1>1, <1>4, <1>5
<1>7. TypeOK /\ BookInv /\ SqFix(sq)
  BY DEF EndInv, BuildInv
<1>8. /\ ~SceneErrors(runq_buildable, CoveredTasks, NotCoveredTasks, holdoff_tasks)
      /\ Tasks \subseteq CoveredTasks \cup NotCoveredTasks
  BY <1>2, <1>6, <1>7, NoSceneErrors
<1> QED BY <1>2, <1>3, <1>5, <1>6, <1>8

\* A task whose dependencies are complete and that was not started is then a
\* candidate of the scheduler.
LEMMA Startable ==
  ASSUME EndInv, HardDepsAcyclic, pc = "sched", procs = {}, active =< 0, sq.live = {}, NoneDeferred,
         NEW x \in Tasks, Depends[x] \subseteq runq_complete, x \notin runq_running,
         ~ThreadsFull(TaskName[x])
  PROVE  x \in SchedCandidates
<1>1. /\ holdoff_tasks = {} /\ Tasks \subseteq tasks_covered \cup tasks_notcovered
  BY SchedQuiet
<1>2. x \in runq_buildable
  <2>1. Computed /\ Ready /\ ~sq.needupdate
    BY DEF EndInv, BuildInv
  <2> QED BY <1>1, <2>1 DEF Computed, Ready
<1>3. build_stamps = {}
  BY DEF build_stamps
<1> QED BY <1>1, <1>2, <1>3 DEF SchedCandidates

\* An end of execute() in which nothing is counted
LEMMA PlainEndQuiet ==
  ASSUME EndInv, PlainEnd, Counted
  PROVE  procs = {} /\ active = 0
<1>1. pc = "sched" /\ active \in Int /\ sq.live = {} /\ active =< 0
  BY DEF PlainEnd, EndInv, TypeOK
<1>2. Cardinality(sq.live) = 0
  BY <1>1, FS_EmptySet
<1>3. procs = {} /\ Running("task") = {}
  BY <1>1, <1>2, NoProcs
<1>4. active = Cardinality(Running("task"))
  BY <1>1 DEF EndInv, CountInv
<1> QED BY <1>3, <1>4, FS_EmptySet

\* The sanity checks at the end of execute() find nothing, when no task has
\* failed.
LEMMA NoSanityErrors ==
  ASSUME EndInv, HardDepsAcyclic, PlainEnd, failed_tids = {}, SetsceneOnly => SetsceneTids # {}
  PROVE  ~SanityErrors
<1>1. procs = {} /\ active = 0
  BY PlainEndQuiet DEF Counted
<1>2. pc = "sched" /\ sq.live = {} /\ NoneDeferred /\ active =< 0
  BY DEF PlainEnd
<1>3. sqdone /\ can_start_task
      /\ ~SceneErrors(runq_buildable, tasks_covered, tasks_notcovered, holdoff_tasks)
  BY <1>1, <1>2, SchedQuiet
<1>4. ~SetsceneOnly
  BY <1>3 DEF EndInv, BuildInv
<1>5. SchedCandidates = {}
  BY <1>1, <1>3, <1>4 DEF PlainEnd, exceeds_max_pressure
<1>6. runq_running \ runq_complete = {}
  <2>1. Running("task") = {}
    BY <1>1 DEF Running
  <2> QED BY <1>2, <2>1 DEF EndInv, BuildInv
<1>7. Tasks \subseteq runq_complete
  <2> DEFINE U == Tasks \ runq_complete
  <2> SUFFICES ASSUME U # {} PROVE FALSE
    OBVIOUS
  <2>1. PICK x \in U : Depends[x] \cap U = {}
    BY AcyclicAssumption
  <2>2. x \in Tasks /\ x \notin runq_running /\ Depends[x] \subseteq runq_complete
    BY <1>6, <2>1, GraphAssumption
  <2>3. ~ThreadsFull(TaskName[x])
    <3>1. {r \in runq_running \ runq_complete : TaskName[r] = TaskName[x]} = {}
      BY <1>6
    <3>2. NumberThreads[TaskName[x]] \in Nat
      BY <2>2, LimitAssumption
    <3> QED BY <3>1, <3>2, FS_EmptySet DEF ThreadsFull
  <2> QED BY <1>1, <1>2, <1>5, <2>2, <2>3, Startable
<1>8. runq_complete \subseteq runq_running /\ runq_running \subseteq runq_buildable
  BY DEF EndInv, BookInv, BuildInv, Ready
<1> QED BY <1>3, <1>7, <1>8 DEF SanityErrors

\* The executor ends in the failed state only because a task failed: its
\* sanity checks never fire.  (bitbake --setscene-only on a build without
\* setscene tasks is the exception: it goes to the sanity checks, which expect
\* the tasks to be complete.)
THEOREM OnlyTasksFail ==
  ASSUME HardDepsAcyclic
  PROVE  Spec => []((SetsceneOnly => SetsceneTids # {}) => FailedMeansTaskFailed)
<1> DEFINE Inv == (SetsceneOnly => SetsceneTids # {}) => FailedMeansTaskFailed
<1>1. Init => Inv
  BY DEF Init, FailedMeansTaskFailed
<1>2. EndInv /\ Inv /\ [Next]_vars => Inv'
  <2> SUFFICES ASSUME EndInv, Inv, [Next]_vars, (SetsceneOnly => SetsceneTids # {})', state' = "failed"
               PROVE  failed_tids' # {}
    BY DEF FailedMeansTaskFailed
  <2>1. pc' = "done"
    BY EndNext DEF EndInv, CtrlInv
  <2>2. UNCHANGED opt
    BY DEF Next, Executor, Exits, RequestShutdown, Finished, vars
  <2>3. SetsceneOnly => SetsceneTids # {}
    BY <2>2 DEF SetsceneOnly
  <2>4. CASE pc = "done"
    <3>1. state' = state /\ failed_tids' = failed_tids
      BY <2>4, DoneStays DEF vars, runqVars
    <3> QED BY <2>3, <3>1 DEF FailedMeansTaskFailed
  <2>5. CASE pc # "done"
    <3>1. CASE PlainEnd
      BY <2>3, <3>1, NoSanityErrors DEF PlainEnd, runqVars
    <3> QED BY <2>1, <2>5, <3>1, Ends DEF ForcedEnd, StoppedEnd, SceneEnd
  <2> QED BY <2>4, <2>5
<1>3. Spec => []EndInv
  BY EndAlways
<1> QED BY <1>1, <1>2, <1>3, PTL DEF Spec

\* An undisturbed build that is reported complete completed every task.
THEOREM CompletedIsBuilt == Spec => []CompleteMeansBuilt
<1>1. Init => CompleteMeansBuilt
  BY DEF Init, CompleteMeansBuilt
<1>2. EndInv /\ CompleteMeansBuilt /\ [Next]_vars => CompleteMeansBuilt'
  <2> SUFFICES ASSUME EndInv, CompleteMeansBuilt, [Next]_vars, state' = "complete", shutdown' = "no",
                      ~SetsceneOnly', ~Enforce'
               PROVE  runq_complete' = Tasks /\ failed_tids' = {}
    BY DEF CompleteMeansBuilt
  <2>1. pc' = "done"
    BY EndNext DEF EndInv, CtrlInv
  <2>2. UNCHANGED opt
    BY DEF Next, Executor, Exits, RequestShutdown, Finished, vars
  <2>3. ~SetsceneOnly /\ ~Enforce
    BY <2>2 DEF SetsceneOnly, Enforce
  <2>4. CASE pc = "done"
    <3>1. state' = state /\ failed_tids' = failed_tids /\ runq_complete' = runq_complete /\ shutdown' = shutdown
      BY <2>4, DoneStays DEF vars, runqVars
    <3> QED BY <2>3, <3>1 DEF CompleteMeansBuilt
  <2>5. CASE pc # "done"
    <3>1. shutdown = "no"
      BY ShutdownStays
    <3>2. CASE PlainEnd
      BY <3>2 DEF PlainEnd, SanityErrors, runqVars, EndInv, TypeOK
    <3> QED BY <2>1, <2>3, <2>5, <3>1, <3>2, Ends DEF ForcedEnd, StoppedEnd, SceneEnd, Stopping, Enforce
  <2> QED BY <2>4, <2>5
<1> QED BY <1>1, <1>2, EndAlways, PTL DEF Spec

\* The workers are only torn down when no process is left in them, except by a
\* forced shutdown, which kills the processes, and without
\* BB_SETSCENE_ENFORCE, whose refusals make stats.active too small.
THEOREM NothingRunningAtEnd == Spec => [](~Enforce => NothingLeftRunning)
<1>1. Init => (~Enforce => NothingLeftRunning)
  BY DEF Init, NothingLeftRunning
<1>2. EndInv /\ (~Enforce => NothingLeftRunning) /\ [Next]_vars => (~Enforce => NothingLeftRunning)'
  <2> SUFFICES ASSUME EndInv, ~Enforce => NothingLeftRunning, [Next]_vars, ~Enforce', pc' = "done"
               PROVE  procs' = {}
    BY DEF NothingLeftRunning
  <2>1. UNCHANGED opt
    BY DEF Next, Executor, Exits, RequestShutdown, Finished, vars
  <2>2. ~Enforce
    BY <2>1 DEF Enforce
  <2>3. CASE pc = "done"
    <3>1. procs' = procs
      BY <2>3, DoneStays DEF vars
    <3> QED BY <2>2, <2>3, <3>1 DEF NothingLeftRunning
  <2>4. CASE pc # "done"
    <3>1. CASE PlainEnd
      BY <2>2, <3>1, PlainEndQuiet DEF PlainEnd, Counted
    <3> QED BY <2>4, <3>1, Ends DEF ForcedEnd, StoppedEnd, SceneEnd, Counted
  <2> QED BY <2>3, <2>4
<1> QED BY <1>1, <1>2, EndAlways, PTL DEF Spec

LEMMA NeedsStep ==
  ASSUME NEW t \in Tasks
  PROVE  /\ t \in Needs(t) /\ Needs(t) \subseteq Tasks
         /\ \A x \in Needs(t) : Depends[x] \subseteq Needs(t)
<1>1. ASSUME NEW x \in Needs(t), NEW d \in Depends[x] PROVE d \in Needs(t)
  <2>1. x \in Tasks /\ d \in Tasks
    BY GraphAssumption DEF Needs
  <2>2. ASSUME NEW W \in SUBSET Tasks, t \in W, NeedsClosed(W) PROVE d \in W
    BY <2>2 DEF Needs, NeedsClosed
  <2> QED BY <2>1, <2>2 DEF Needs
<1> QED BY <1>1 DEF Needs

\* bitbake --continue builds every task that needs no failed one, for every
\* graph in which no task name has a [number_threads] limit.  (Failed tasks
\* count against such a limit until the build ends.)
THEOREM ContinueBuilds ==
  ASSUME HardDepsAcyclic, \A t \in Tasks : NumberThreads[TaskName[t]] = 0
  PROVE  Spec => [](~Enforce => ContinueBuildsTheRest)
<1> DEFINE Inv == ~Enforce => ContinueBuildsTheRest
<1>1. Init => Inv
  BY DEF Init, ContinueBuildsTheRest
<1>2. EndInv /\ Inv /\ [Next]_vars => Inv'
  <2> SUFFICES ASSUME EndInv, Inv, [Next]_vars, ~Enforce', pc' = "done", ~Halt', shutdown' = "no",
                      ~SetsceneOnly', NEW t \in Tasks, Needs(t) \cap failed_tids' = {}
               PROVE  t \in runq_complete'
    BY DEF ContinueBuildsTheRest
  <2>1. UNCHANGED opt
    BY DEF Next, Executor, Exits, RequestShutdown, Finished, vars
  <2>2. ~Enforce /\ ~Halt /\ ~SetsceneOnly /\ shutdown = "no"
    BY <2>1, ShutdownStays DEF Enforce, Halt, SetsceneOnly
  <2>3. CASE pc = "done"
    <3>1. failed_tids' = failed_tids /\ runq_complete' = runq_complete
      BY <2>3, DoneStays DEF vars, runqVars
    <3> QED BY <2>2, <2>3, <3>1 DEF ContinueBuildsTheRest
  <2>4. CASE pc # "done"
    <3>1. PlainEnd
      BY <2>2, <2>4, Ends DEF ForcedEnd, StoppedEnd, SceneEnd, Stopping
    <3>2. procs = {} /\ active = 0
      BY <2>2, <3>1, PlainEndQuiet DEF Counted
    <3>3. pc = "sched" /\ sq.live = {} /\ NoneDeferred /\ active =< 0
          /\ failed_tids' = failed_tids /\ runq_complete' = runq_complete
      BY <3>1 DEF PlainEnd, runqVars
    <3>4. can_start_task
      BY <3>2, <3>3, SchedQuiet
    <3>5. SchedCandidates = {}
      BY <2>2, <3>1, <3>2, <3>4 DEF PlainEnd, exceeds_max_pressure
    <3> DEFINE U == Needs(t) \ runq_complete
    <3> SUFFICES ASSUME U # {} PROVE FALSE
      BY <3>3, NeedsStep
    <3>6. U \in (SUBSET Tasks) \ {{}}
      BY NeedsStep
    <3>7. PICK x \in U : Depends[x] \cap U = {}
      BY <3>6, AcyclicAssumption
    <3>8. x \in Tasks /\ x \in Needs(t) /\ x \notin runq_complete /\ Depends[x] \subseteq runq_complete
      BY <3>6, <3>7, NeedsStep
    <3>9. x \notin runq_running
      <4>1. Running("task") = {}
        BY <3>2 DEF Running
      <4> QED BY <3>3, <3>8, <4>1 DEF EndInv, BuildInv
    <3>10. ~ThreadsFull(TaskName[x])
      BY <3>8 DEF ThreadsFull
    <3> QED BY <3>2, <3>3, <3>5, <3>8, <3>9, <3>10, Startable
  <2> QED BY <2>3, <2>4
<1> QED BY <1>1, <1>2, EndAlways, PTL DEF Spec

-----------------------------------------------------------------------------
(***************************************************************************)
(* What covers a task is there.                                            *)
(***************************************************************************)
\* A task that is not needed, because what needs it is covered
NotNeededBy(s, covered) ==
  s \notin Unskippable \cup TargetTids /\ SqRevdeps[s] # {} /\ SqRevdeps[s] \subseteq covered

PresentInv == \A s \in sq.covered : OutputPresent(s) \/ NotNeededBy(s, sq.covered)

\* A stamp is only replaced by another one.
LEMMA PresentStays ==
  ASSUME TypeOK, [Next]_vars, NEW d \in Tasks, OutputPresent(d)
  PROVE  OutputPresent(d)'
<1>t. nstamp \in [Tasks -> {None, Old, New}] /\ sstamp \in [Tasks -> {None, Old, New}]
  BY DEF TypeOK
<1>a. ASSUME runq_tasksrun \subseteq runq_tasksrun', nstamp[d] # None => nstamp'[d] # None,
             sstamp[d] # None => sstamp'[d] # None \/ nstamp'[d] # None
      PROVE  OutputPresent(d)'
  BY <1>a DEF OutputPresent
\* A completion: the stamps of t are replaced, if made, and those of a
\* deferred setscene task are made.
<1>c. ASSUME NEW t \in Tasks, NEW made \in BOOLEAN, NEW buildable, NEW valid,
             runq_tasksrun \subseteq runq_tasksrun',
             \/ /\ nstamp' = Stamped(t, made)
                /\ task_completeoutright(t, buildable, Unscened(t, made), valid)
             \/ nstamp' = nstamp /\ task_completeoutright(t, buildable, sstamp, valid)
      PROVE  OutputPresent(d)'
  <2> DEFINE found == First({x \in SetsceneTids : sq_deferred[x] = t})
  <2>1. PICK ss \in [Tasks -> {None, Old, New}] :
           /\ sstamp' = ss \/ sstamp' = [ss EXCEPT ![found] = New]
           /\ \/ ss = sstamp /\ nstamp' = nstamp
              \/ ss = Unscened(t, made) /\ nstamp' = Stamped(t, made)
    BY <1>c, <1>t, StampedType DEF task_completeoutright
  <2> HIDE DEF found
  <2>2. nstamp[d] # None => nstamp'[d] # None
    BY <1>t, <2>1 DEF Stamped, None, New
  <2>3. sstamp[d] # None => ss[d] # None \/ nstamp'[d] # None
    BY <1>t, <2>1 DEF Stamped, Unscened, None, New
  <2>4. ss[d] # None => sstamp'[d] # None
    BY <2>1 DEF None, New
  <2> QED BY <1>a, <1>c, <2>2, <2>3, <2>4
<1>1. CASE execute_runqueue \/ ReadReturn \/ SceneStep \/ HoldoffStep \/ RequestShutdown \/ SchedNone
  BY <1>1, <1>a DEF execute_runqueue, ReadReturn, SceneStep, SceneNotNeeded, SceneHardDefer, SceneStart,
                    SceneSettle, SceneNone, SceneUnchanged, HoldoffStep, RequestShutdown, SchedNone,
                    runqVars, stampVars
<1>2. ASSUME NEW t \in SchedCandidates, SchedRefuse(t) \/ SchedStart(t) PROVE OutputPresent(d)'
  BY <1>2, <1>a DEF SchedRefuse, SchedStart, stampVars
<1>3. ASSUME NEW t \in SchedCandidates, NEW valid, SchedSkip(t, valid) \/ SchedNoExec(t, valid)
      PROVE  OutputPresent(d)'
  <2>1. t \in Tasks /\ (~Enforce) \in BOOLEAN
    BY DEF SchedCandidates, TypeOK
  <2> QED BY <1>3, <1>c, <2>1 DEF SchedSkip, SchedNoExec
<1>4. ASSUME NEW p \in procs, NEW ok, SetsceneExit(p, ok) PROVE OutputPresent(d)'
  <2>1. /\ runq_tasksrun' = runq_tasksrun /\ nstamp' = nstamp
        /\ sstamp' = sstamp \/ sstamp' = [sstamp EXCEPT ![p.tid] = New]
    BY <1>4 DEF SetsceneExit, runqVars
  <2> QED BY <1>a, <1>t, <2>1 DEF None, New
<1>5. ASSUME NEW p \in procs, NEW valid, TaskExit(p, valid) PROVE OutputPresent(d)'
  <2> DEFINE made == p.tid \notin NoStamp /\ ~Enforce
  <2>1. /\ nstamp' = Stamped(p.tid, made) /\ runq_tasksrun \subseteq runq_tasksrun'
        /\ task_completeoutright(p.tid, runq_buildable, Unscened(p.tid, made), valid)
    BY <1>5 DEF TaskExit
  <2>2. p.tid \in Tasks /\ made \in BOOLEAN
    BY DEF TypeOK, Procs
  <2> HIDE DEF made
  <2> QED BY <1>c, <2>1, <2>2
<1>6. ASSUME NEW p \in procs, TaskExitFailed(p) PROVE OutputPresent(d)'
  BY <1>6, <1>a DEF TaskExitFailed, stampVars
<1>7. CASE UNCHANGED vars
  BY <1>7, <1>a DEF vars, runqVars, stampVars
<1> QED
  BY <1>1, <1>2, <1>3, <1>4, <1>5, <1>6, <1>7 DEF Next, Executor, SchedStep, Exits, ProcessExit, Finished

LEMMA StampPresent ==
  ASSUME NEW t \in Tasks, t \in NoExec \/ stamppresent(t)
  PROVE  OutputPresent(t)
  BY DEF stamppresent, check_stamp_task_recurse, check_stamp_task, OutputPresent

\* A skip only adds to the covered tasks.
LEMMA SkipCovers ==
  ASSUME NEW s \in SqType, NEW T \in SUBSET SetsceneTids
  PROVE  LET u == scenequeue_updatecounters(Touch(s, T), T, {})
         IN  u.covered = s.covered \cup T /\ u.notcovered = s.notcovered
<1> DEFINE v == Touch(s, T)
<1>1. v \in SqType /\ v.covered = s.covered /\ v.notcovered = s.notcovered
  BY TouchGrows DEF SqGrows, Touch, SqType
<1> HIDE DEF v
<1>2. LET u == scenequeue_updatecounters(v, T, {})
      IN  u.covered = v.covered \cup T /\ u.notcovered = v.notcovered \cup {}
  BY <1>1 DEF scenequeue_updatecounters, SqType
<1> QED BY <1>1, <1>2 DEF v

\* How the covered tasks change when a deferred task may be released
LEMMA CompleteCovers ==
  ASSUME TypeOK, NEW t \in Tasks, NEW buildable, NEW ss, NEW valid,
         task_completeoutright(t, buildable, ss, valid)
  PROVE  \/ sq'.covered = sq.covered
         \/ \E d \in SetsceneTids : sq'.covered = sq.covered \cup {d} /\ OutputPresent(d)
<1> DEFINE waiting == {d \in SetsceneTids : sq_deferred[d] = t}
           found == First(waiting)
           deferred == [d \in SetsceneTids |->
                          IF d \notin waiting THEN sq_deferred[d]
                          ELSE IF d = found THEN None ELSE found]
           s1 == [sq EXCEPT !.outrightfail = @ \ {found}]
           s2 == [s1 EXCEPT !.outrightfail = @ \cup {found}]
<1>1. sq' = IF waiting = {} THEN sq ELSE update_scenequeue_data(sq, found, deferred, valid)
  BY DEF task_completeoutright
<1>2. waiting # {} => found \in SetsceneTids
  BY FirstIn
<1> HIDE DEF waiting, found, deferred
<1>3. s1 \in SqType /\ s1.covered = sq.covered /\ s2.covered = sq.covered
  BY DEF TypeOK, SqType
<1>4. ASSUME waiting # {}, found \in NoExec \/ stamppresent(found)
      PROVE  sq_task_skip(s1, found).covered = sq.covered \cup {found} /\ OutputPresent(found)
  <2>1. OutputPresent(found)
    BY <1>2, <1>4, StampPresent, GraphAssumption
  <2>2. {found} \in SUBSET SetsceneTids
    BY <1>2, <1>4
  <2> HIDE DEF s1
  <2>3. sq_task_skip(s1, found) = scenequeue_updatecounters(Touch(s1, {found}), {found}, {})
    BY DEF sq_task_skip, sq_task_completeoutright
  <2> QED BY <1>3, <2>1, <2>2, <2>3, SkipCovers
<1> QED BY <1>1, <1>2, <1>3, <1>4 DEF update_scenequeue_data

LEMMA SettleType ==
  ASSUME sq \in SqType, NEW t \in SetsceneTids, NEW ok
  PROVE  Settle(t, ok) \in SqType
<1>1. CASE ok
  <2>1. {t} \in SUBSET SetsceneTids /\ {} \in SUBSET SetsceneTids
    OBVIOUS
  <2>2. SqGrows(sq, scenequeue_updatecounters(sq, {t}, {}))
    BY <2>1, UpdateCounters
  <2> QED BY <1>1, <2>2 DEF Settle, sq_task_completeoutright, SqGrows
<1>2. CASE ~ok
  <2>1. SqGrows(sq, sq_task_failoutright(sq, t))
    BY FailGrows
  <2> QED BY <1>2, <2>1 DEF Settle, SqGrows
<1> QED BY <1>1, <1>2

\* Every step covers one more setscene task, or none.
CoversOne ==
  \/ sq'.covered = sq.covered
  \/ \E t \in SetsceneTids : /\ sq'.covered = sq.covered \cup {t}
                             /\ OutputPresent(t) \/ OutputPresent(t)' \/ NotNeededBy(t, sq.covered)

LEMMA CoverStep ==
  ASSUME EndInv, [Next]_vars
  PROVE  CoversOne
<1> USE DEF CoversOne
<1>t. sq \in SqType /\ SqFix(sq) /\ RunOK(sq) /\ TypeOK
  BY DEF EndInv, BuildInv, TypeOK
<1>k. ASSUME NEW t \in SetsceneTids
      PROVE  sq_task_skip(sq, t).covered = sq.covered \cup {t}
  <2>1. sq_task_skip(sq, t) = scenequeue_updatecounters(Touch(sq, {t}), {t}, {})
    BY DEF sq_task_skip, sq_task_completeoutright
  <2>2. {t} \in SUBSET SetsceneTids
    BY <1>k
  <2> QED BY <1>t, <2>1, <2>2, SkipCovers
<1>c. ASSUME NEW t \in SceneCandidates PROVE t \in SetsceneTids
  BY <1>t DEF SceneCandidates, SqType
<1>1. ASSUME NEW t \in SceneCandidates, SceneNotNeeded(t) PROVE CoversOne
  BY <1>1, <1>c, <1>k DEF SceneNotNeeded, MayBeNotNeeded, NotNeededBy
<1>2. ASSUME NEW t \in SceneCandidates, NEW valid, SceneSettle(t, valid) PROVE CoversOne
  <2>1. CASE sq' = sq_task_failoutright(sq, t)
    BY <1>c, <1>t, <2>1, FailFix
  <2>2. CASE sq' = sq_task_skip(sq, t) /\ sstamp[t] # None
    BY <1>c, <1>k, <2>2 DEF OutputPresent
  <2> QED BY <1>2, <2>1, <2>2 DEF SceneSettle
<1>3. ASSUME NEW t \in SceneCandidates, SceneHardDefer(t) \/ SceneStart(t) PROVE CoversOne
  BY <1>3, <1>t DEF SceneHardDefer, SceneStart, SqType
<1>4. CASE HoldoffStep
  BY <1>4, <1>t DEF HoldoffStep, update_holdofftasks, SqType
<1>5. CASE execute_runqueue \/ ReadReturn \/ SceneNone \/ RequestShutdown \/ SchedNone \/ UNCHANGED vars
  BY <1>5 DEF execute_runqueue, ReadReturn, SceneNone, RequestShutdown, SchedNone, vars
<1>6. ASSUME NEW t \in SchedCandidates, SchedRefuse(t) \/ SchedStart(t) PROVE CoversOne
  BY <1>6 DEF SchedRefuse, SchedStart
<1>7. ASSUME NEW t \in SchedCandidates, NEW valid, SchedSkip(t, valid) \/ SchedNoExec(t, valid)
      PROVE  CoversOne
  <2>1. t \in Tasks
    BY <1>t DEF SchedCandidates, TypeOK
  <2>2. \E buildable, ss : task_completeoutright(t, buildable, ss, valid)
    BY <1>7 DEF SchedSkip, SchedNoExec
  <2> QED BY <1>t, <2>1, <2>2, CompleteCovers
<1>8. ASSUME NEW p \in procs, NEW ok, SetsceneExit(p, ok) PROVE CoversOne
  <2> DEFINE u == Settle(p.tid, ok)
  <2>1. /\ p.tid \in SetsceneTids /\ sq' = [u EXCEPT !.live = @ \ {p.tid}]
        /\ ok => OutputPresent(p.tid)'
    BY <1>8, <1>t, GraphAssumption DEF SetsceneExit, SqType, OutputPresent, TypeOK, None, New
  <2>2. u \in SqType
    BY <1>t, <2>1, SettleType
  <2>3. sq'.covered = u.covered
    <3> HIDE DEF u
    <3> QED BY <2>1, <2>2 DEF SqType
  <2>4. CASE ok
    <3>1. u = scenequeue_updatecounters(sq, {p.tid}, {})
      BY <2>4 DEF Settle, sq_task_completeoutright
    <3>2. u.covered = sq.covered \cup {p.tid}
      BY <3>1, <1>t DEF scenequeue_updatecounters, SqType
    <3> QED BY <2>1, <2>3, <2>4, <3>2
  <2>5. CASE ~ok
    <3>1. u = sq_task_failoutright(sq, p.tid)
      BY <2>5 DEF Settle
    <3> QED BY <1>t, <2>1, <2>3, <3>1, FailFix
  <2> QED BY <2>4, <2>5
<1>9. ASSUME NEW p \in procs, NEW valid, TaskExit(p, valid) PROVE CoversOne
  <2>1. p.tid \in Tasks
    BY <1>t DEF TypeOK, Procs
  <2>2. \E buildable, ss : task_completeoutright(p.tid, buildable, ss, valid)
    BY <1>9 DEF TaskExit
  <2> QED BY <1>t, <2>1, <2>2, CompleteCovers
<1>10. ASSUME NEW p \in procs, TaskExitFailed(p) PROVE CoversOne
  BY <1>10 DEF TaskExitFailed
<1> QED
  BY <1>1, <1>2, <1>3, <1>4, <1>5, <1>6, <1>7, <1>8, <1>9, <1>10
     DEF Next, Executor, SceneStep, SchedStep, Exits, ProcessExit, Finished

LEMMA InitCovers ==
  ASSUME Init
  PROVE  /\ sq.notcovered = {} /\ sq.live = {} /\ sq.needupdate
         /\ sq.covered = {t \in SetsceneTids : t \in NoExec \/ stamppresent(t)}
<1>1. PICK valid \in SUBSET SetsceneTids : sq = InitSq(valid)
  BY DEF Init
<1> DEFINE skipped == {t \in SetsceneTids : t \in NoExec \/ stamppresent(t)}
           built   == [buildable |-> {t \in SetsceneTids : SqRevdeps[t] = {}},
                  running |-> {}, live |-> {}, covered |-> {}, notcovered |-> {},
                  done |-> Unskippable \ SetsceneTids,
                  needed |-> {}, harddeferred |-> {},
                  outrightfail |-> {t \in SetsceneTids \ (skipped \cup valid) :
                                      InitDeferred[t] = None},
                  needupdate |-> TRUE]
<1>2. sq = scenequeue_updatecounters(Touch(built, skipped), skipped, {})
  BY <1>1 DEF InitSq
<1>3. skipped \in SUBSET SetsceneTids
  OBVIOUS
<1> HIDE DEF skipped
<1>4. built \in SqType /\ built.covered = {} /\ built.notcovered = {} /\ built.live = {}
  BY GraphTypes DEF SqType
<1>5. sq.covered = skipped /\ sq.notcovered = {} /\ sq.live = {} /\ sq.needupdate
  <2> HIDE DEF built
  <2>1. sq.covered = built.covered \cup skipped /\ sq.notcovered = built.notcovered
    BY <1>2, <1>3, <1>4, SkipCovers
  <2>2. sq.live = built.live /\ sq.needupdate
    BY <1>2, <1>3, <1>4, SkipExact
  <2> QED BY <1>4, <2>1, <2>2
<1> QED BY <1>5 DEF skipped

LEMMA PresentInit == Init => PresentInv
<1> SUFFICES ASSUME Init, NEW s \in sq.covered PROVE OutputPresent(s)
  BY DEF PresentInv
<1>1. s \in Tasks /\ (s \in NoExec \/ stamppresent(s))
  BY InitCovers, GraphAssumption
<1> QED BY <1>1, StampPresent

LEMMA PresentNext == EndInv /\ PresentInv /\ [Next]_vars => PresentInv'
<1> SUFFICES ASSUME EndInv, PresentInv, [Next]_vars, NEW s \in sq'.covered
             PROVE  OutputPresent(s)' \/ NotNeededBy(s, sq'.covered)
  BY DEF PresentInv, NotNeededBy
<1>1. /\ TypeOK /\ sq.covered \subseteq SetsceneTids /\ SetsceneTids \subseteq Tasks
      /\ sq.covered \subseteq sq'.covered
  BY CoverStep, GraphAssumption DEF CoversOne, EndInv, TypeOK, SqType
<1>2. s \in Tasks /\ (OutputPresent(s) \/ OutputPresent(s)' \/ NotNeededBy(s, sq.covered))
  BY <1>1, CoverStep DEF CoversOne, PresentInv
<1> QED BY <1>1, <1>2, PresentStays DEF NotNeededBy

LEMMA PresentAlways == Spec => [](EndInv /\ PresentInv)
  BY EndInit, EndNext, PresentInit, PresentNext, PTL DEF Spec

\* A setscene task counts as covered only when its output is there, or when
\* every setscene task that needs it is covered.
THEOREM CoveredPresent == Spec => []CoveredIsPresent
<1>1. PresentInv => CoveredIsPresent
  BY DEF PresentInv, NotNeededBy, CoveredIsPresent
<1> QED BY <1>1, PresentAlways, PTL

-----------------------------------------------------------------------------
(***************************************************************************)
(* Builds in which no two setscene tasks have the same hash.  Equal hashes *)
(* come from one recipe in several multiconfigs: the second task is then   *)
(* deferred, and may be decided twice when the first one completes.        *)
(***************************************************************************)
UniqueHashes == \A t, u \in SetsceneTids : HashIndex[t] = HashIndex[u] => t = u

\* Nothing is deferred, and no setscene task is both covered and notcovered.
DecideInv == NoneDeferred /\ CoverExclusive

\* New decisions are about undecided tasks, and each goes one way.
DecidesOnce ==
  /\ sq.covered \subseteq sq'.covered /\ sq.notcovered \subseteq sq'.notcovered
  /\ (sq'.covered \ sq.covered) \cap (sq'.notcovered \ sq.notcovered) = {}
  /\ ((sq'.covered \ sq.covered) \cup (sq'.notcovered \ sq.notcovered)) \cap Settled(sq) = {}

\* A completion decides nothing when nothing is deferred.
LEMMA CompleteIdle ==
  ASSUME TypeOK, NoneDeferred, NEW t \in Tasks, NEW buildable, NEW ss, NEW valid,
         task_completeoutright(t, buildable, ss, valid)
  PROVE  sq' = sq /\ sq_deferred' = sq_deferred
<1>1. {d \in SetsceneTids : sq_deferred[d] = t} = {}
  BY GraphAssumption DEF NoneDeferred
<1> QED BY <1>1 DEF task_completeoutright

LEMMA DecideStep ==
  ASSUME EndInv, NoneDeferred, [Next]_vars
  PROVE  NoneDeferred' /\ DecidesOnce
<1>t. /\ sq \in SqType /\ SqFix(sq) /\ RunOK(sq) /\ TypeOK /\ LiveOK(sq, sq_deferred)
      /\ sq_deferred \in [SetsceneTids -> SetsceneTids \cup {None}]
  BY DEF EndInv, BuildInv, BookInv, TypeOK
<1>a. ASSUME sq_deferred' = sq_deferred, sq'.covered = sq.covered, sq'.notcovered = sq.notcovered
      PROVE  NoneDeferred' /\ DecidesOnce
  BY <1>a DEF NoneDeferred, DecidesOnce
\* Skips and failures of undecided tasks
<1>k. ASSUME NEW t \in SetsceneTids, t \notin Settled(sq), sq' = sq_task_skip(sq, t) PROVE DecidesOnce
  <2>1. sq' = scenequeue_updatecounters(Touch(sq, {t}), {t}, {})
    BY <1>k DEF sq_task_skip, sq_task_completeoutright
  <2>2. {t} \in SUBSET SetsceneTids
    BY <1>k
  <2>3. sq'.covered = sq.covered \cup {t} /\ sq'.notcovered = sq.notcovered
    BY <1>t, <2>1, <2>2, SkipCovers
  <2> QED BY <1>k, <2>3 DEF DecidesOnce
<1>f. ASSUME NEW t \in SetsceneTids, t \notin Settled(sq),
             sq'.covered = sq_task_failoutright(sq, t).covered,
             sq'.notcovered = sq_task_failoutright(sq, t).notcovered
      PROVE  DecidesOnce
  <2>1. sq'.covered = sq.covered /\ sq'.notcovered = sq.notcovered \cup FailSet(sq, t)
    BY <1>f, <1>t, FailFix
  <2>2. FailSet(sq, t) \cap Settled(sq) = {}
    <3>1. FailSet(sq, t) \subseteq (SetsceneTids \ (Settled(sq) \cup sq.live)) \cup {t}
      BY <1>f, <1>t, FailSetBound
    <3> QED BY <1>f, <3>1
  <2> QED BY <2>1, <2>2 DEF DecidesOnce
<1>c. ASSUME NEW t \in SceneCandidates PROVE t \in SetsceneTids /\ t \notin Settled(sq)
  BY <1>t DEF SceneCandidates, SqType, LiveOK
<1>d. ASSUME NEW t \in SetsceneTids, sq_deferred' = [sq_deferred EXCEPT ![t] = None]
      PROVE  NoneDeferred'
  BY <1>d, <1>t DEF NoneDeferred
<1>1. ASSUME NEW t \in SceneCandidates, NEW valid, SceneNotNeeded(t) \/ SceneSettle(t, valid)
      PROVE  NoneDeferred' /\ DecidesOnce
  <2>1. sq' = sq_task_skip(sq, t) \/ sq' = sq_task_failoutright(sq, t)
    BY <1>1 DEF SceneNotNeeded, SceneSettle
  <2>2. sq_deferred' = [sq_deferred EXCEPT ![t] = None]
    BY <1>1 DEF SceneNotNeeded, SceneSettle
  <2> QED BY <1>c, <1>d, <1>f, <1>k, <2>1, <2>2
<1>2. ASSUME NEW t \in SceneCandidates, SceneHardDefer(t) PROVE NoneDeferred' /\ DecidesOnce
  BY <1>2, <1>a, <1>t DEF SceneHardDefer, SqType
<1>3. ASSUME NEW t \in SceneCandidates, SceneStart(t) PROVE NoneDeferred' /\ DecidesOnce
  <2>1. NoneDeferred'
    BY <1>3, <1>c, <1>d DEF SceneStart
  <2>2. sq'.covered = sq.covered /\ sq'.notcovered = sq.notcovered
    BY <1>3, <1>t DEF SceneStart, SqType
  <2> QED BY <2>1, <2>2 DEF DecidesOnce
<1>4. CASE HoldoffStep
  BY <1>4, <1>a, <1>t DEF HoldoffStep, update_holdofftasks, SqType
<1>5. CASE execute_runqueue \/ ReadReturn \/ SceneNone \/ RequestShutdown \/ UNCHANGED vars
  BY <1>5, <1>a DEF execute_runqueue, ReadReturn, SceneNone, RequestShutdown, vars
<1>6. CASE SchedNone
  <2>1. sq' = sq /\ sq_deferred' = sq_deferred
    BY <1>6 DEF SchedNone, ForceDeferred, NoneDeferred
  <2> QED BY <1>a, <2>1
<1>7. ASSUME NEW t \in SchedCandidates, SchedRefuse(t) \/ SchedStart(t) PROVE NoneDeferred' /\ DecidesOnce
  BY <1>7, <1>a DEF SchedRefuse, SchedStart
<1>8. ASSUME NEW t \in SchedCandidates, NEW valid, SchedSkip(t, valid) \/ SchedNoExec(t, valid)
      PROVE  NoneDeferred' /\ DecidesOnce
  <2>1. t \in Tasks
    BY <1>t DEF SchedCandidates, TypeOK
  <2>2. \E buildable, ss : task_completeoutright(t, buildable, ss, valid)
    BY <1>8 DEF SchedSkip, SchedNoExec
  <2> QED BY <1>a, <1>t, <2>1, <2>2, CompleteIdle
<1>9. ASSUME NEW p \in procs, NEW ok, SetsceneExit(p, ok) PROVE NoneDeferred' /\ DecidesOnce
  <2> DEFINE u == Settle(p.tid, ok)
  <2>1. /\ p.tid \in SetsceneTids /\ p.tid \notin Settled(sq)
        /\ sq' = [u EXCEPT !.live = @ \ {p.tid}] /\ sq_deferred' = sq_deferred
    <3>1. /\ p.tid \in sq.live /\ sq_deferred' = sq_deferred
          /\ sq' = [u EXCEPT !.live = @ \ {p.tid}]
      BY <1>9 DEF SetsceneExit
    <3> QED BY <1>t, <3>1 DEF SqType, LiveOK
  <2>2. u \in SqType
    BY <1>t, <2>1, SettleType
  <2>3. sq'.covered = u.covered /\ sq'.notcovered = u.notcovered
    <3> HIDE DEF u
    <3> QED BY <2>1, <2>2 DEF SqType
  <2>4. CASE ok
    <3>1. u = scenequeue_updatecounters(sq, {p.tid}, {})
      BY <2>4 DEF Settle, sq_task_completeoutright
    <3>2. u.covered = sq.covered \cup {p.tid} /\ u.notcovered = sq.notcovered \cup {}
      BY <3>1, <1>t DEF scenequeue_updatecounters, SqType
    <3> HIDE DEF u
    <3> QED BY <2>1, <2>3, <3>2 DEF NoneDeferred, DecidesOnce
  <2>5. CASE ~ok
    <3>1. u = sq_task_failoutright(sq, p.tid)
      BY <2>5 DEF Settle
    <3>2. NoneDeferred'
      BY <2>1 DEF NoneDeferred
    <3> QED BY <1>f, <2>1, <2>3, <3>1, <3>2
  <2> QED BY <2>4, <2>5
<1>10. ASSUME NEW p \in procs, NEW valid, TaskExit(p, valid) PROVE NoneDeferred' /\ DecidesOnce
  <2>1. p.tid \in Tasks
    BY <1>t DEF TypeOK, Procs
  <2>2. \E buildable, ss : task_completeoutright(p.tid, buildable, ss, valid)
    BY <1>10 DEF TaskExit
  <2> QED BY <1>a, <1>t, <2>1, <2>2, CompleteIdle
<1>11. ASSUME NEW p \in procs, TaskExitFailed(p) PROVE NoneDeferred' /\ DecidesOnce
  BY <1>11, <1>a DEF TaskExitFailed
<1> QED
  BY <1>1, <1>2, <1>3, <1>4, <1>5, <1>6, <1>7, <1>8, <1>9, <1>10, <1>11
     DEF Next, Executor, SceneStep, SchedStep, Exits, ProcessExit, Finished

LEMMA DecideInit ==
  ASSUME UniqueHashes
  PROVE  Init => DecideInv
<1> SUFFICES ASSUME Init PROVE DecideInv
  OBVIOUS
<1>1. sq.notcovered = {}
  BY InitCovers
<1>2. ASSUME NEW t \in SetsceneTids PROVE sq_deferred[t] = None
  <2>1. {u \in SetsceneTids : HashIndex[u] = HashIndex[t]} = {t}
    BY DEF UniqueHashes
  <2>2. First({u \in SetsceneTids : HashIndex[u] = HashIndex[t]}) = t
    BY <2>1, FirstIn
  <2> QED BY <2>2 DEF Init, InitDeferred
<1> QED BY <1>1, <1>2 DEF DecideInv, NoneDeferred, CoverExclusive

LEMMA DecideNext == EndInv /\ DecideInv /\ [Next]_vars => DecideInv'
<1> SUFFICES ASSUME EndInv, DecideInv, [Next]_vars PROVE DecideInv'
  OBVIOUS
<1>1. NoneDeferred' /\ DecidesOnce
  BY DecideStep DEF DecideInv
<1> QED BY <1>1 DEF DecideInv, DecidesOnce, CoverExclusive, Settled

LEMMA DecideAlways ==
  ASSUME UniqueHashes
  PROVE  Spec => [](EndInv /\ DecideInv)
  BY EndInit, EndNext, DecideInit, DecideNext, PTL DEF Spec

\* "No task should end up in both covered and uncovered": none does, in a build
\* without equal hashes.
THEOREM DecidedOneWay ==
  ASSUME UniqueHashes
  PROVE  Spec => []CoverExclusive
<1>1. DecideInv => CoverExclusive
  BY DEF DecideInv
<1> QED BY <1>1, DecideAlways, PTL

-----------------------------------------------------------------------------
(***************************************************************************)
(* InputsPresent is not inductive: that a dependency that was skipped is   *)
(* not needed by a task that runs takes what the decisions say of every    *)
(* task that was skipped so far, and that later decisions keep it.         *)
(***************************************************************************)
\* d was rightly skipped: it is covered, nothing notcovered needs it, and no
\* decision to come can change that.
RightlySkipped(d) ==
  /\ d \in CoveredBy(sq.covered)
  /\ d \notin CoveredBy(sq.notcovered) \cup CantSkip \cup (Unskippable \ SetsceneTids)
  /\ \A s \in Undecided : d \notin SqCoveredTasks[s]

CompleteInv == \A d \in runq_complete : d \in runq_tasksrun \/ RightlySkipped(d)

\* A task is completed because it ran, or because it is covered.
CompletesOne ==
  /\ runq_tasksrun \subseteq runq_tasksrun'
  /\ \/ runq_complete' \subseteq runq_complete \cup runq_tasksrun'
     \/ \E t \in SchedCandidates :
          /\ pc = "sched" /\ t \in tasks_covered
          /\ runq_complete' = runq_complete \cup {t}
          /\ \E valid : task_completeoutright(t, runq_buildable \cup {t}, sstamp, valid)

LEMMA CompleteStep == [Next]_vars => CompletesOne
<1> SUFFICES ASSUME [Next]_vars PROVE CompletesOne
  OBVIOUS
<1> USE DEF CompletesOne
<1>1. ASSUME NEW t \in SchedCandidates, NEW valid, SchedSkip(t, valid) PROVE CompletesOne
  BY <1>1 DEF SchedSkip, InSched, task_completeoutright
<1>2. ASSUME NEW t \in SchedCandidates, NEW valid, SchedNoExec(t, valid) PROVE CompletesOne
  BY <1>2 DEF SchedNoExec, task_completeoutright
<1>3. ASSUME NEW p \in procs, NEW valid, TaskExit(p, valid) PROVE CompletesOne
  BY <1>3 DEF TaskExit, task_completeoutright
<1>4. CASE execute_runqueue \/ ReadReturn \/ SceneStep \/ HoldoffStep \/ RequestShutdown \/ SchedNone
           \/ UNCHANGED vars
  BY <1>4 DEF execute_runqueue, ReadReturn, SceneStep, SceneNotNeeded, SceneHardDefer, SceneStart,
              SceneSettle, SceneNone, SceneUnchanged, HoldoffStep, RequestShutdown, SchedNone, vars, runqVars
<1>5. ASSUME NEW t \in SchedCandidates, SchedRefuse(t) \/ SchedStart(t) PROVE CompletesOne
  BY <1>5 DEF SchedRefuse, SchedStart
<1>6. ASSUME NEW p \in procs, NEW ok, SetsceneExit(p, ok) \/ TaskExitFailed(p) PROVE CompletesOne
  BY <1>6 DEF SetsceneExit, TaskExitFailed, runqVars
<1> QED
  BY <1>1, <1>2, <1>3, <1>4, <1>5, <1>6 DEF Next, Executor, SchedStep, Exits, ProcessExit, Finished

\* What was rightly skipped stays so, whatever is decided next.
LEMMA SkippedStays ==
  ASSUME EndInv, EndInv', DecidesOnce, NEW d \in runq_complete, RightlySkipped(d)
  PROVE  RightlySkipped(d)'
<1>1. /\ sq'.notcovered \subseteq SetsceneTids /\ sq'.covered \subseteq SetsceneTids
      /\ runq_complete \cap Undecided = {}
  BY DEF EndInv, TypeOK, SqType, BookInv
<1>2. d \in CoveredBy(sq'.covered)
  BY DEF RightlySkipped, CoveredBy, DecidesOnce
<1>3. ASSUME NEW s \in sq'.notcovered, d = s \/ d \in SqCoveredTasks[s] PROVE FALSE
  <2>1. CASE s \in sq.notcovered
    BY <1>3, <2>1 DEF RightlySkipped, CoveredBy
  <2>2. CASE s \notin sq.notcovered
    <3>1. s \in Undecided
      BY <1>1, <2>2, UndecidedIs DEF DecidesOnce
    <3> QED BY <1>1, <1>3, <3>1 DEF RightlySkipped
  <2> QED BY <2>1, <2>2
<1>4. d \notin CoveredBy(sq'.notcovered)
  BY <1>3 DEF CoveredBy
<1>5. Undecided' \subseteq Undecided
  BY UndecidedIs, UndecidedPrime DEF DecidesOnce, Settled
<1>6. CoveredBy(sq'.covered) = CoveredBy(sq.covered)' /\ CoveredBy(sq'.notcovered) = CoveredBy(sq.notcovered)'
  BY DEF CoveredBy
<1> QED BY <1>2, <1>4, <1>5, <1>6 DEF RightlySkipped

LEMMA CompleteNext ==
  EndInv /\ DecideInv /\ CompleteInv /\ [Next]_vars => CompleteInv'
<1> SUFFICES ASSUME EndInv, DecideInv, CompleteInv, [Next]_vars, NEW d \in runq_complete'
             PROVE  d \in runq_tasksrun' \/ RightlySkipped(d)'
  BY DEF CompleteInv
<1>1. EndInv' /\ DecidesOnce
  BY EndNext, DecideStep DEF DecideInv
<1>2. CASE d \in runq_complete
  BY <1>1, <1>2, CompleteStep, SkippedStays DEF CompletesOne, CompleteInv
<1>3. ASSUME d \notin runq_complete, NEW t \in SchedCandidates, pc = "sched", t \in tasks_covered,
             runq_complete' = runq_complete \cup {t}, NEW valid,
             task_completeoutright(t, runq_buildable \cup {t}, sstamp, valid)
      PROVE  RightlySkipped(d)'
  <2>1. d = t /\ t \in Tasks /\ TypeOK
    BY <1>3 DEF SchedCandidates, EndInv, TypeOK
  <2>2. sq' = sq
    BY <1>3, <2>1, CompleteIdle DEF DecideInv
  <2>3. tasks_covered = CoveredTasks
    BY <1>3 DEF EndInv, BuildInv, Computed
  <2>4. /\ t \in CoveredBy(sq.covered)
        /\ t \notin CoveredBy(sq.notcovered) \cup CantSkip \cup (Unskippable \ SetsceneTids)
    BY <1>3, <2>3 DEF CoveredTasks, NotCoveredTasks
  <2>5. \A s \in Undecided : t \notin SqCoveredTasks[s]
    BY <1>3, <2>1 DEF SchedCandidates, EndInv, BookInv, HoldoffOK
  <2>6. RightlySkipped(t)
    BY <2>4, <2>5 DEF RightlySkipped
  <2>7. RightlySkipped(t)' = RightlySkipped(t)
    BY <2>2 DEF RightlySkipped, CoveredBy, Undecided
  <2> QED BY <2>1, <2>6, <2>7
<1> QED BY <1>2, <1>3, CompleteStep DEF CompletesOne

\* A task that is not covered finds what it needs.
LEMMA InputsAtStart ==
  ASSUME EndInv, DecideInv, PresentInv, CompleteInv, pc = "sched",
         NEW t \in tasks_notcovered, NEW d \in Depends[t], d \in runq_complete
  PROVE  OutputPresent(d)
<1>1. t \in NotCoveredTasks
  BY DEF EndInv, BuildInv, Computed
<1>2. CASE d \in runq_tasksrun
  BY <1>2 DEF OutputPresent
<1>3. CASE RightlySkipped(d)
  <2>1. /\ sq.covered \subseteq SetsceneTids /\ sq.notcovered \subseteq SetsceneTids
        /\ sq.covered \cap sq.notcovered = {}
    BY DEF EndInv, TypeOK, SqType, DecideInv, CoverExclusive
  <2>2. /\ d \in CoveredBy(sq.covered)
        /\ d \notin CoveredBy(sq.notcovered) \cup CantSkip \cup (Unskippable \ SetsceneTids)
    BY <1>3 DEF RightlySkipped
  <2>3. \/ \E s \in sq.notcovered : t \in SqCoveredTasks[s] \cup {s}
        \/ t \in Unskippable \ SetsceneTids
    <3>1. CantSkip \subseteq Unskippable \ SetsceneTids
      BY UnskippableStep DEF CantSkip, Endpoints
    <3> QED BY <1>1, <3>1 DEF NotCoveredTasks, CoveredBy
  <2>4. CASE d \notin SetsceneTids
    <3>1. ASSUME NEW s \in sq.notcovered, t \in SqCoveredTasks[s] \cup {s} PROVE FALSE
      <4>1. s \in SetsceneTids
        BY <2>1
      <4>2. d \in SqCoveredTasks[s]
        BY <2>4, <3>1, <4>1, PlainBelowStep
      <4> QED BY <2>2, <4>2 DEF CoveredBy
    <3>2. CASE t \in Unskippable \ SetsceneTids
      BY <2>2, <2>4, <3>2, UnskippableStep
    <3> QED BY <2>3, <3>1, <3>2
  <2>5. CASE d \in SetsceneTids
    <3>1. d \in sq.covered
      <4>1. \A s \in SetsceneTids : d \notin SqCoveredTasks[s]
        BY <2>5 DEF SqCoveredTasks, PlainBelow
      <4> QED BY <2>1, <2>2, <4>1 DEF CoveredBy
    <3>2. ~NotNeededBy(d, sq.covered)
      <4> SUFFICES ASSUME NotNeededBy(d, sq.covered) PROVE FALSE
        OBVIOUS
      <4>1. ASSUME NEW s \in sq.notcovered, t \in SqCoveredTasks[s] \cup {s} PROVE FALSE
        <5>1. s \in SqRevdeps[d]
          BY <2>1, <2>5, <4>1, SqRevdepsStep
        <5> QED BY <2>1, <5>1 DEF NotNeededBy
      <4>2. CASE t \in Unskippable \ SetsceneTids
        BY <4>2, UnskippableStep DEF NotNeededBy
      <4> QED BY <2>3, <4>1, <4>2
    <3> QED BY <3>1, <3>2 DEF PresentInv
  <2> QED BY <2>4, <2>5
<1> QED BY <1>2, <1>3 DEF CompleteInv

LEMMA CompleteInit == Init => CompleteInv
  BY DEF Init, CompleteInv

LEMMA CompleteAlways ==
  ASSUME UniqueHashes
  PROVE  Spec => [](EndInv /\ PresentInv /\ DecideInv /\ CompleteInv)
  BY DecideAlways, PresentAlways, CompleteInit, CompleteNext, PTL DEF Spec

LEMMA DepsAlways == Spec => [](TypeOK /\ DepsInv)
<1>1. Init => DepsInv
  BY DEF Init, DepsInv, Running
<1> QED BY <1>1, TypeInit, TypeNext, DepsNext, PTL DEF Spec

\* A task that executes finds the output of each of its dependencies, for every
\* graph and every order of restores, failures and exits, in a build without
\* equal hashes.
THEOREM InputsThere ==
  ASSUME UniqueHashes
  PROVE  Spec => []InputsPresent
<1> DEFINE Inv == EndInv /\ PresentInv /\ DecideInv /\ CompleteInv /\ DepsInv
<1>1. Init => InputsPresent
  BY DEF Init, InputsPresent, Running
<1>2. Inv /\ InputsPresent /\ [Next]_vars => InputsPresent'
  <2> SUFFICES ASSUME Inv, InputsPresent, [Next]_vars, NEW t \in Running("task")', NEW d \in Depends[t]
               PROVE  OutputPresent(d)'
    BY DEF InputsPresent
  <2>1. TypeOK /\ TypeOK'
    BY TypeNext DEF EndInv
  <2>2. t \in Tasks /\ d \in Tasks
    BY <2>1, GraphAssumption DEF TypeOK, Procs, Running
  <2>3. CASE t \in Running("task")
    BY <2>1, <2>2, <2>3, PresentStays DEF InputsPresent
  <2>4. CASE t \notin Running("task")
    <3>1. PICK p \in procs' \ procs : p.tid = t /\ p.kind = "task"
      BY <2>4 DEF Running
    <3>2. \/ \E s \in SceneCandidates : SceneStart(s)
          \/ \E s \in SchedCandidates : SchedStart(s)
      BY <3>1 DEF Next, Executor, execute_runqueue, finish_now, ReadReturn, SceneStep, SceneNotNeeded,
             SceneHardDefer, SceneSettle, SceneNone, HoldoffStep, SchedStep, SchedRefuse, SchedSkip,
             SchedNoExec, SchedNone, Exits, ProcessExit, SetsceneExit, TaskExit, TaskExitFailed,
             RequestShutdown, Finished, vars
    <3>3. t \in SchedCandidates /\ SchedStart(t)
      <4>1. ~ \E s \in SceneCandidates : SceneStart(s)
        <5> SUFFICES ASSUME NEW s \in SceneCandidates, SceneStart(s) PROVE FALSE
          OBVIOUS
        <5>1. p = [tid |-> s, kind |-> "setscene"]
          BY <3>1 DEF SceneStart, Proc
        <5> QED BY <3>1, <5>1
      <4>2. PICK s \in SchedCandidates : SchedStart(s)
        BY <3>2, <4>1
      <4>3. p = [tid |-> s, kind |-> "task"]
        BY <3>1, <4>2 DEF SchedStart, Proc
      <4> QED BY <3>1, <4>2, <4>3
    <3>4. pc = "sched" /\ t \in tasks_notcovered /\ t \in runq_buildable
      BY <3>3 DEF SchedStart, InSched, Runnable, SchedCandidates
    <3>5. d \in runq_complete
      BY <3>4 DEF DepsInv
    <3> QED BY <2>1, <2>2, <3>4, <3>5, InputsAtStart, PresentStays
  <2> QED BY <2>3, <2>4
<1>3. Spec => []Inv
  BY CompleteAlways, DepsAlways, PTL
<1> QED BY <1>1, <1>2, <1>3, PTL DEF Spec

-----------------------------------------------------------------------------
(***************************************************************************)
(* bitbake --force runs its targets.                                       *)
(***************************************************************************)
\* The setscene variants of the targets are neither used nor tried.
ForceInv == ForceTargets => TargetTids \cap (sq.covered \cup sq.live) = {}

LEMMA ForceInit ==
  ASSUME TargetTids \cap SetsceneTids \cap NoExec = {}
  PROVE  Init => ForceInv
<1> SUFFICES ASSUME Init, ForceTargets, NEW t \in TargetTids, t \in sq.covered PROVE FALSE
  BY InitCovers DEF ForceInv
<1>1. t \in SetsceneTids /\ t \in Tasks /\ stamppresent(t)
  BY InitCovers, GraphAssumption
<1>2. Tainted = TargetTids /\ t \notin NoExec
  BY <1>1 DEF Tainted
<1>3. nstamp[t] = None /\ sstamp[t] = None
  BY <1>1, <1>2 DEF Init
<1> QED BY <1>1, <1>3 DEF stamppresent, check_stamp_task_recurse, check_stamp_task

\* A setscene process is started, or a live one is settled.
LiveOne ==
  \/ sq'.live \subseteq sq.live
  \/ \E t \in SceneCandidates : ~Forced(t) /\ sq'.live = sq.live \cup {t}

LEMMA LiveStep == EndInv /\ [Next]_vars => LiveOne
<1> SUFFICES ASSUME EndInv, [Next]_vars PROVE LiveOne
  OBVIOUS
<1> USE DEF LiveOne
<1>t. sq \in SqType /\ TypeOK /\ LiveOK(sq, sq_deferred)
  BY DEF EndInv, BookInv, TypeOK
<1>1. ASSUME NEW t \in SceneCandidates, SceneStart(t) PROVE LiveOne
  BY <1>1, <1>t DEF SceneStart, SqType
<1>2. ASSUME NEW t \in SceneCandidates, NEW valid,
             SceneNotNeeded(t) \/ SceneHardDefer(t) \/ SceneSettle(t, valid)
      PROVE  LiveOne
  <2>1. t \in SetsceneTids
    BY <1>t DEF SceneCandidates, SqType
  <2>2. CASE SceneNotNeeded(t) \/ SceneSettle(t, valid)
    BY <2>2, <1>t, <2>1, SkipGrows, FailGrows DEF SceneNotNeeded, SceneSettle, SqGrows
  <2>3. CASE SceneHardDefer(t)
    BY <2>3, <1>t DEF SceneHardDefer, SqType
  <2> QED BY <1>2, <2>2, <2>3
<1>3. CASE HoldoffStep
  BY <1>3, <1>t DEF HoldoffStep, update_holdofftasks, SqType
<1>4. CASE execute_runqueue \/ ReadReturn \/ SceneNone \/ RequestShutdown \/ SchedNone \/ UNCHANGED vars
  BY <1>4 DEF execute_runqueue, ReadReturn, SceneNone, RequestShutdown, SchedNone, vars
<1>5. ASSUME NEW t \in SchedCandidates, SchedRefuse(t) \/ SchedStart(t) PROVE LiveOne
  BY <1>5 DEF SchedRefuse, SchedStart
<1>6. ASSUME NEW t \in SchedCandidates, NEW valid, SchedSkip(t, valid) \/ SchedNoExec(t, valid)
      PROVE  LiveOne
  <2>1. /\ t \in Tasks /\ (~Enforce) \in BOOLEAN /\ sstamp \in [Tasks -> {None, Old, New}]
        /\ runq_buildable \in SUBSET Tasks /\ runq_buildable \cup {t} \in SUBSET Tasks
    BY <1>t DEF SchedCandidates, TypeOK
  <2>2. Unscened(t, ~Enforce) \in [Tasks -> {None, Old, New}]
    BY <1>t, <2>1, StampedType
  <2>3. PICK buildable \in SUBSET Tasks, ss \in [Tasks -> {None, Old, New}] :
           task_completeoutright(t, buildable, ss, valid)
    BY <1>6, <2>1, <2>2 DEF SchedSkip, SchedNoExec
  <2> QED BY <1>t, <2>1, <2>3, CompleteOutright DEF SqGrows
<1>7. ASSUME NEW p \in procs, NEW ok, SetsceneExit(p, ok) PROVE LiveOne
  <2>1. p.tid \in sq.live /\ sq' = [Settle(p.tid, ok) EXCEPT !.live = @ \ {p.tid}]
    BY <1>7 DEF SetsceneExit
  <2> QED BY <1>t, <2>1, SettleOK
<1>8. ASSUME NEW p \in procs, NEW valid, TaskExit(p, valid) PROVE LiveOne
  <2> DEFINE made == p.tid \notin NoStamp /\ ~Enforce
  <2>1. /\ task_completeoutright(p.tid, runq_buildable, Unscened(p.tid, made), valid)
        /\ p.tid \in Tasks /\ made \in BOOLEAN /\ runq_buildable \in SUBSET Tasks
    BY <1>8, <1>t DEF TaskExit, TypeOK, Procs
  <2> HIDE DEF made
  <2>2. Unscened(p.tid, made) \in [Tasks -> {None, Old, New}]
    BY <1>t, <2>1, StampedType
  <2> QED BY <1>t, <2>1, <2>2, CompleteOutright DEF SqGrows
<1>9. ASSUME NEW p \in procs, TaskExitFailed(p) PROVE LiveOne
  BY <1>9 DEF TaskExitFailed
<1> QED
  BY <1>1, <1>2, <1>3, <1>4, <1>5, <1>6, <1>7, <1>8, <1>9
     DEF Next, Executor, SceneStep, SchedStep, Exits, ProcessExit, Finished

\* A target is not covered by a skip or by a restore.
CoversUnforced == \A t \in sq'.covered \ sq.covered : t \in sq.live \/ ~Forced(t)

LEMMA ForceCovers ==
  ASSUME EndInv, NoneDeferred, [Next]_vars
  PROVE  CoversUnforced
<1> USE DEF CoversUnforced
<1>t. sq \in SqType /\ SqFix(sq) /\ RunOK(sq) /\ TypeOK
  BY DEF EndInv, BuildInv, TypeOK
<1>c. ASSUME NEW t \in SceneCandidates PROVE t \in SetsceneTids /\ {t} \in SUBSET SetsceneTids
  BY <1>t DEF SceneCandidates, SqType
<1>k. ASSUME NEW t \in SceneCandidates, ~Forced(t), sq' = sq_task_skip(sq, t) PROVE CoversUnforced
  <2>1. sq' = scenequeue_updatecounters(Touch(sq, {t}), {t}, {})
    BY <1>k DEF sq_task_skip, sq_task_completeoutright
  <2>2. sq'.covered = sq.covered \cup {t}
    BY <1>c, <1>t, <2>1, SkipCovers
  <2> QED BY <1>k, <2>2
<1>1. ASSUME NEW t \in SceneCandidates, SceneNotNeeded(t) PROVE CoversUnforced
  BY <1>1, <1>k DEF SceneNotNeeded, MayBeNotNeeded, Forced
<1>2. ASSUME NEW t \in SceneCandidates, NEW valid, SceneSettle(t, valid) PROVE CoversUnforced
  <2>1. CASE sq' = sq_task_failoutright(sq, t)
    BY <1>c, <1>t, <2>1, FailFix
  <2>2. CASE ~Forced(t) /\ sq' = sq_task_skip(sq, t)
    BY <1>k, <2>2
  <2> QED BY <1>2, <2>1, <2>2 DEF SceneSettle
<1>3. ASSUME NEW t \in SceneCandidates, SceneHardDefer(t) \/ SceneStart(t) PROVE CoversUnforced
  BY <1>3, <1>t DEF SceneHardDefer, SceneStart, SqType
<1>4. CASE HoldoffStep
  BY <1>4, <1>t DEF HoldoffStep, update_holdofftasks, SqType
<1>5. CASE execute_runqueue \/ ReadReturn \/ SceneNone \/ RequestShutdown \/ SchedNone \/ UNCHANGED vars
  BY <1>5 DEF execute_runqueue, ReadReturn, SceneNone, RequestShutdown, SchedNone, vars
<1>6. ASSUME NEW t \in SchedCandidates, SchedRefuse(t) \/ SchedStart(t) PROVE CoversUnforced
  BY <1>6 DEF SchedRefuse, SchedStart
<1>7. ASSUME NEW t \in SchedCandidates, NEW valid, SchedSkip(t, valid) \/ SchedNoExec(t, valid)
      PROVE  CoversUnforced
  <2>1. t \in Tasks
    BY <1>t DEF SchedCandidates, TypeOK
  <2>2. \E buildable, ss : task_completeoutright(t, buildable, ss, valid)
    BY <1>7 DEF SchedSkip, SchedNoExec
  <2> QED BY <1>t, <2>1, <2>2, CompleteIdle
<1>8. ASSUME NEW p \in procs, NEW ok, SetsceneExit(p, ok) PROVE CoversUnforced
  <2> DEFINE u == Settle(p.tid, ok)
  <2>1. p.tid \in sq.live /\ sq' = [u EXCEPT !.live = @ \ {p.tid}]
    BY <1>8 DEF SetsceneExit
  <2>2. p.tid \in SetsceneTids /\ u \in SqType
    BY <1>t, <2>1, SettleType DEF SqType
  <2>3. sq'.covered = u.covered
    <3> HIDE DEF u
    <3> QED BY <2>1, <2>2 DEF SqType
  <2>4. CASE ok
    <3>1. u = scenequeue_updatecounters(sq, {p.tid}, {})
      BY <2>4 DEF Settle, sq_task_completeoutright
    <3>2. u.covered = sq.covered \cup {p.tid}
      BY <3>1, <1>t DEF scenequeue_updatecounters, SqType
    <3> HIDE DEF u
    <3> QED BY <2>1, <2>3, <3>2
  <2>5. CASE ~ok
    <3>1. u = sq_task_failoutright(sq, p.tid)
      BY <2>5 DEF Settle
    <3> QED BY <1>t, <2>2, <2>3, <3>1, FailFix
  <2> QED BY <2>4, <2>5
<1>9. ASSUME NEW p \in procs, NEW valid, TaskExit(p, valid) PROVE CoversUnforced
  <2>1. p.tid \in Tasks
    BY <1>t DEF TypeOK, Procs
  <2>2. \E buildable, ss : task_completeoutright(p.tid, buildable, ss, valid)
    BY <1>9 DEF TaskExit
  <2> QED BY <1>t, <2>1, <2>2, CompleteIdle
<1>10. ASSUME NEW p \in procs, TaskExitFailed(p) PROVE CoversUnforced
  BY <1>10 DEF TaskExitFailed
<1> QED
  BY <1>1, <1>2, <1>3, <1>4, <1>5, <1>6, <1>7, <1>8, <1>9, <1>10
     DEF Next, Executor, SceneStep, SchedStep, Exits, ProcessExit, Finished

LEMMA ForceNext == EndInv /\ DecideInv /\ ForceInv /\ [Next]_vars => ForceInv'
<1> SUFFICES ASSUME EndInv, DecideInv, ForceInv, [Next]_vars, ForceTargets', NEW t \in TargetTids
             PROVE  t \notin sq'.covered /\ t \notin sq'.live
  BY DEF ForceInv
<1>1. ForceTargets
  BY DEF Next, Executor, Exits, RequestShutdown, Finished, vars, ForceTargets
<1>2. t \notin sq.covered /\ t \notin sq.live /\ Forced(t)
  BY <1>1 DEF ForceInv, Forced
<1>3. CoversUnforced /\ LiveOne
  BY ForceCovers, LiveStep DEF DecideInv
<1> QED BY <1>2, <1>3 DEF CoversUnforced, LiveOne

\* At the end of execute() every target of bitbake --force has run.
LEMMA TargetsRan ==
  ASSUME EndInv, CompleteInv, ForceInv, ForceTargets, pc = "sched", runq_complete = Tasks,
         NEW d \in TargetTids
  PROVE  d \in runq_tasksrun \ tasks_covered
<1>1. d \in Tasks /\ sq.covered \subseteq SetsceneTids
  BY GraphAssumption DEF EndInv, TypeOK, SqType
<1>2. d \notin CoveredBy(sq.covered) \/ d \in CantSkip
  <2>1. CASE d \in SetsceneTids
    <3>1. \A s \in SetsceneTids : d \notin SqCoveredTasks[s]
      BY <2>1 DEF SqCoveredTasks, PlainBelow
    <3> QED BY <1>1, <3>1 DEF ForceInv, CoveredBy
  <2>2. CASE d \notin SetsceneTids
    BY <2>2 DEF CantSkip
  <2> QED BY <2>1, <2>2
<1>3. d \in runq_tasksrun
  BY <1>1, <1>2 DEF CompleteInv, RightlySkipped
<1>4. tasks_covered = CoveredTasks
  BY DEF EndInv, BuildInv, Computed
<1>5. d \notin CoveredTasks
  BY <1>2 DEF CoveredTasks, NotCoveredTasks
<1> QED BY <1>3, <1>4, <1>5

\* bitbake --force: a finished build has run its targets, for every graph in
\* which no target with a setscene variant has the noexec flag, in a build
\* without equal hashes.
THEOREM ForcedTargets ==
  ASSUME UniqueHashes, TargetTids \cap SetsceneTids \cap NoExec = {}
  PROVE  Spec => []((~SetsceneOnly /\ ~Enforce) => ForcedTargetsRun)
<1> DEFINE Goal == (~SetsceneOnly /\ ~Enforce) => ForcedTargetsRun
<1>1. Init => Goal
  BY DEF Init, ForcedTargetsRun
<1>2. EndInv /\ CompleteInv /\ ForceInv /\ Goal /\ [Next]_vars => Goal'
  <2> SUFFICES ASSUME EndInv, CompleteInv, ForceInv, Goal, [Next]_vars, ~SetsceneOnly', ~Enforce',
                      ForceTargets', state' = "complete", shutdown' = "no", NEW d \in TargetTids
               PROVE  d \in runq_tasksrun' \ tasks_covered'
    BY DEF ForcedTargetsRun
  <2>1. pc' = "done"
    BY EndNext DEF EndInv, CtrlInv
  <2>2. UNCHANGED opt
    BY DEF Next, Executor, Exits, RequestShutdown, Finished, vars
  <2>3. ~SetsceneOnly /\ ~Enforce /\ ForceTargets /\ shutdown = "no"
    BY <2>2, ShutdownStays DEF SetsceneOnly, Enforce, ForceTargets
  <2>4. CASE pc = "done"
    <3>1. state' = state /\ runq_tasksrun' = runq_tasksrun /\ tasks_covered' = tasks_covered
      BY <2>4, DoneStays DEF vars, runqVars, coverVars
    <3> QED BY <2>3, <3>1 DEF ForcedTargetsRun
  <2>5. CASE pc # "done"
    <3>1. PlainEnd
      BY <2>1, <2>3, <2>5, Ends DEF ForcedEnd, StoppedEnd, SceneEnd, Stopping, Enforce
    <3>2. /\ pc = "sched" /\ ~SanityErrors
          /\ runq_tasksrun' = runq_tasksrun /\ tasks_covered' = tasks_covered
      BY <3>1 DEF PlainEnd, runqVars, coverVars
    <3>3. runq_complete = Tasks
      BY <3>2 DEF SanityErrors, EndInv, TypeOK
    <3> QED BY <2>3, <3>2, <3>3, TargetsRan
  <2> QED BY <2>4, <2>5
<1>3. Spec => [](EndInv /\ CompleteInv /\ ForceInv)
  BY CompleteAlways, ForceInit, ForceNext, PTL DEF Spec
<1> QED BY <1>1, <1>2, <1>3, PTL DEF Spec
=============================================================================
