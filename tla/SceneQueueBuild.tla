--------------------------- MODULE SceneQueueBuild ---------------------------
(***************************************************************************)
(* How build_scenequeue_data (poky/bitbake/lib/bb/runqueue.py) collapses   *)
(* the task graph into the graph of setscene tasks.  The code walks from   *)
(* the end points of the build down to the setscene tasks, one level per   *)
(* call of process_endpoints; the points of a level come out of a          *)
(* dictionary filled from sets, so they are taken here in any order.       *)
(*                                                                         *)
(* The graph, the setscene tasks and the targets are chosen once, in Init. *)
(***************************************************************************)
EXTENDS Naturals

CONSTANT N          \* number of tasks

Tasks == 1..N

VARIABLES
  depends,          \* runtaskentries[tid].depends
  setscene_tids,    \* rqdata.runq_setscene_tids
  target_tids,      \* rqdata.target_tids
  phase,
  sq_revdeps,       \* revdeps still to be processed, per task
  sq_revdeps_squash,
  sq_collated_deps,
  endpoints,        \* the rest of the level: tid -> setscene tasks, or NoPoint
  newendpoints,     \* the next level
  unskippable,
  buildable         \* tasks passed to setbuildable

vars == <<depends, setscene_tids, target_tids, phase, sq_revdeps, sq_revdeps_squash,
          sq_collated_deps, endpoints, newendpoints, unskippable, buildable>>
graph == <<depends, setscene_tids, target_tids>>
walk  == <<sq_revdeps, sq_revdeps_squash, sq_collated_deps, endpoints, newendpoints>>

\* The relations the walk is meant to compute
Meant == INSTANCE SceneGraph WITH Depends <- depends, SetsceneTids <- setscene_tids,
                                  TargetTids <- target_tids

\* A level as a record: which tasks are points, and what each one carries
NoPoints == [at |-> {}, of |-> [t \in Tasks |-> {}]]

TypeOK ==
  /\ depends \in [Tasks -> SUBSET Tasks]
  /\ setscene_tids \subseteq Tasks /\ target_tids \subseteq Tasks
  /\ phase \in {"collect", "process", "unskippable", "done", "fatal"}
  /\ sq_revdeps \in [Tasks -> SUBSET Tasks]
  /\ sq_revdeps_squash \in [Tasks -> SUBSET setscene_tids]
  /\ sq_collated_deps \in [setscene_tids -> SUBSET Tasks]
  /\ \A level \in {endpoints, newendpoints} :
       level.at \subseteq Tasks /\ level.of \in [Tasks -> SUBSET setscene_tids]
  /\ unskippable \subseteq Tasks /\ buildable \subseteq Tasks

\* Any acyclic graph: the tasks are numbered dependencies first.
Init ==
  /\ depends \in {f \in [Tasks -> SUBSET Tasks] : \A t \in Tasks : f[t] \subseteq 1..(t - 1)}
  /\ setscene_tids \in SUBSET Tasks
  /\ target_tids \in SUBSET Tasks \ {{}}
  /\ phase = "collect"
  /\ sq_revdeps = [t \in Tasks |-> Meant!Revdeps(t)]
  /\ sq_revdeps_squash = [t \in Tasks |-> {}]
  /\ sq_collated_deps = [t \in setscene_tids |-> {}]
  /\ endpoints = NoPoints /\ newendpoints = NoPoints
  /\ unskippable = {} /\ buildable = {}

\* The first end points: plain tasks nothing depends on, and the dependencies
\* of setscene tasks, which carry the setscene tasks they were reached from.
CollectEndpoints ==
  LET plain == {t \in Tasks \ setscene_tids : sq_revdeps[t] = {}}
      below == UNION {depends[s] : s \in setscene_tids}
  IN  /\ phase = "collect" /\ phase' = "process"
      /\ sq_revdeps' = [t \in Tasks |-> sq_revdeps[t] \ setscene_tids]
      /\ endpoints' = [at |-> plain \cup below,
                       of |-> [t \in Tasks |-> {s \in setscene_tids : t \in depends[s]}]]
      /\ UNCHANGED <<graph, sq_revdeps_squash, sq_collated_deps, newendpoints, unskippable, buildable>>

\* Mutant: what was squashed into the point is forgotten.
PointTasks_NoSquash(point) == endpoints.of[point]

\* The setscene tasks a point carries
PointTasks(point) == endpoints.of[point] \cup sq_revdeps_squash[point]

\* What the point itself keeps of them
Kept(point, tasks) == IF point \in setscene_tids THEN tasks ELSE {}

\* One iteration of the loop of process_endpoints
process_endpoint(point) ==
  LET task  == endpoints.of[point]
      tasks == PointTasks(point)
      down  == IF point \in setscene_tids THEN {} ELSE depends[point]
      revs  == [d \in Tasks |-> IF d \in down THEN sq_revdeps[d] \ {point} ELSE sq_revdeps[d]]
      next  == {d \in down \ setscene_tids : revs[d] = {}}
  IN  /\ phase = "process" /\ point \in endpoints.at
      /\ endpoints' = [endpoints EXCEPT !.at = @ \ {point}]
      /\ sq_collated_deps' =
           IF point \in setscene_tids THEN sq_collated_deps
           ELSE [s \in setscene_tids |-> IF s \in tasks THEN sq_collated_deps[s] \cup {point}
                                         ELSE sq_collated_deps[s]]
      /\ sq_revdeps' = revs
      /\ sq_revdeps_squash' =
           [d \in Tasks |-> IF d = point THEN Kept(point, tasks)
                            ELSE IF d \in down THEN sq_revdeps_squash[d] \cup tasks
                            ELSE sq_revdeps_squash[d]]
      /\ newendpoints' = [at |-> newendpoints.at \cup next,
                          of |-> [d \in Tasks |-> IF d \in next THEN task ELSE newendpoints.of[d]]]
      /\ UNCHANGED <<graph, phase, unskippable, buildable>>

\* The recursive call with the next level
NextLevel ==
  /\ phase = "process" /\ endpoints.at = {} /\ newendpoints.at # {}
  /\ endpoints' = newendpoints /\ newendpoints' = NoPoints
  /\ UNCHANGED <<graph, phase, sq_revdeps, sq_revdeps_squash, sq_collated_deps, unskippable, buildable>>

\* process_endpoints has returned; the unskippable tasks start from the end
\* points of the build.
StartUnskippable ==
  /\ phase = "process" /\ endpoints.at = {} /\ newendpoints.at = {}
  /\ phase' = "unskippable"
  /\ unskippable' = {t \in Tasks : Meant!Revdeps(t) = {}} \cup (target_tids \ setscene_tids)
  /\ UNCHANGED <<graph, walk, buildable>>

\* One round of the while loop, and after the last one the sanity check that
\* every plain task has handed on what it carried.
GrowUnskippable ==
  LET plain == unskippable \ setscene_tids
      grown == unskippable \cup UNION {depends[t] : t \in plain}
  IN  /\ phase = "unskippable"
      /\ buildable' = buildable \cup {t \in plain : depends[t] = {}}
      /\ unskippable' = grown
      /\ phase' = IF grown # unskippable THEN phase
                  ELSE IF \E t \in Tasks \ setscene_tids : sq_revdeps_squash[t] # {} THEN "fatal"
                  ELSE "done"
      /\ UNCHANGED <<graph, walk>>

Finished == phase \in {"done", "fatal"} /\ UNCHANGED vars

Step == \/ CollectEndpoints \/ NextLevel \/ StartUnskippable \/ GrowUnskippable
        \/ \E point \in Tasks : process_endpoint(point)

Next == Step \/ Finished

Spec == Init /\ [][Next]_vars

-----------------------------------------------------------------------------
\* The level by level walk finds, in every order, exactly the plain tasks each
\* setscene task covers and the setscene tasks that reach each other through
\* plain tasks, and the end points' closure: what RunQueue's decisions rest on.
\* "Something went badly wrong during scenequeue generation" is never reached.
ComputesSceneGraph ==
  /\ phase # "fatal"
  /\ phase = "done" =>
    /\ sq_collated_deps = Meant!SqCoveredTasks
    /\ [t \in setscene_tids |-> sq_revdeps_squash[t]] = Meant!SqRevdeps
    /\ unskippable = Meant!Unskippable
    /\ buildable = {t \in Meant!Unskippable \ setscene_tids : depends[t] = {}}
=============================================================================
