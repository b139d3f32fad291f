----------------------------- MODULE SceneGraph -----------------------------
(***************************************************************************)
(* What the scenequeue of BitBake's runqueue is meant to be: the relations *)
(* between setscene tasks that build_scenequeue_data (runqueue.py) derives *)
(* from the task graph.  SceneQueueBuild models how the code computes      *)
(* them; here they are defined as reachability along Depends through tasks *)
(* that have no setscene variant.                                          *)
(***************************************************************************)

CONSTANTS
  Tasks,           \* rqdata.runtaskentries
  Depends,         \* runtaskentries[tid].depends
  SetsceneTids,    \* rqdata.runq_setscene_tids
  TargetTids       \* rqdata.target_tids

\* runtaskentries[tid].revdeps
Revdeps(t) == {r \in Tasks : t \in Depends[r]}

\* W contains the dependencies of its members that have no setscene variant.
PlainClosed(W) ==
  \A t \in W : \A d \in Depends[t] : (d \notin SetsceneTids) => d \in W

\* The tasks below t that are reached before any other setscene task.
PlainBelow(t) ==
  {x \in Tasks \ SetsceneTids :
     \A W \in SUBSET Tasks : (t \in W /\ PlainClosed(W)) => x \in W}

\* sqdata.sq_covered_tasks: what becomes unnecessary when t is restored.
SqCoveredTasks == [t \in SetsceneTids |-> PlainBelow(t)]

\* sqdata.sq_revdeps: the setscene tasks that reach t through plain tasks.
SqRevdeps ==
  [t \in SetsceneTids |->
     {s \in SetsceneTids : \E x \in SqCoveredTasks[s] \cup {s} : t \in Depends[x]}]

\* sqdata.cantskip
CantSkip == TargetTids \ SetsceneTids

\* The targets and the tasks nothing depends on
Endpoints == {t \in Tasks : Revdeps(t) = {}} \cup CantSkip

\* sqdata.unskippable: the endpoints and what they need, down to and
\* including the first setscene tasks.
Unskippable ==
  {x \in Tasks : \A W \in SUBSET Tasks :
     (/\ Endpoints \subseteq W
      /\ \A t \in W \ SetsceneTids : Depends[t] \subseteq W) => x \in W}
=============================================================================
