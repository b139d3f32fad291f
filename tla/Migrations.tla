----------------------------- MODULE Migrations -----------------------------
(***************************************************************************)
(* Hash equivalence inside a build (process_possible_migrations in         *)
(* bb/runqueue.py), on top of RunQueue.  A task that has run reports its   *)
(* output; when the hash equivalence server answers with another unihash,  *)
(* the tasks above it get new hashes, and a setscene task that was already *)
(* given up may be worth another try.  It is taken out of all the sets of  *)
(* the scenequeue, while other tasks run, wait and are settled.            *)
(*                                                                         *)
(* A hash is abstracted to whether it has changed.  A changed hash names   *)
(* other stamp files, which an earlier build may have left.                *)
(***************************************************************************)
EXTENDS RunQueue

CONSTANT NameOf   \* the recipe and task name in pending_hash_index

ASSUME NameAssumption ==
  \A t, u \in SetsceneTids : HashIndex[t] = HashIndex[u] => NameOf[t] = NameOf[u]

VARIABLES
  updated_taskhash_queue,  \* the tasks whose reports were read and not dealt with
  pending_migrations,
  changed                  \* local to process_possible_migrations: something changed

hashVars == <<updated_taskhash_queue, pending_migrations, changed>>

MInit ==
  /\ Init
  /\ updated_taskhash_queue = {} /\ pending_migrations = {}
  /\ changed = FALSE

-----------------------------------------------------------------------------
\* runQueuePipe.read finds the taskUniHashUpdate a task has sent before its exit.
\* Only tasks with a setscene variant report (report_unihash).
Report(t) ==
  /\ Reading /\ t \in SetsceneTids \ updated_taskhash_queue /\ Proc(t, "task") \in procs
  /\ updated_taskhash_queue' = updated_taskhash_queue \cup {t}
  /\ UNCHANGED <<vars, pending_migrations, changed>>

\* All tasks above a task
RevdepsClosed(W) == \A t \in W : Revdeps(t) \subseteq W
AllRevdeps == [t \in Tasks |->
  {x \in Tasks : \A W \in SUBSET Tasks : (Revdeps(t) \subseteq W /\ RevdepsClosed(W)) => x \in W}]

\* The stamps of the tasks in R under their new names.  The hash of a tainted task
\* changes to one no build has used.
Renamed(R) ==
  /\ \E S \in {X \cap (R \ Tainted) : X \in OldStamps} :
       nstamp' = [t \in Tasks |-> IF t \notin R THEN nstamp[t] ELSE IF t \in S THEN Old ELSE None]
  /\ \E S \in {X \cap (R \ Tainted) : X \in OldSetscene} :
       sstamp' = [t \in Tasks |-> IF t \notin R THEN sstamp[t] ELSE IF t \in S THEN Old ELSE None]

\* Mutant: a restored task gets its new hash all the same.
Keeps_Live == sq.live

\* "Already covered setscene ... so ignoring rehash (remap)"
Keeps == sq.covered \cup sq.live

\* The first half of process_possible_migrations: the reports of tasks that have
\* ended are taken from the queue, and the hashes of the tasks above them computed
\* anew.  new are the reports that change something, fresh the tasks for which
\* there is another unihash; a task that is or is being restored keeps its own.
Rehash ==
  LET handled == updated_taskhash_queue \ (runq_running \ runq_complete) IN
  /\ pc = "execute" /\ (updated_taskhash_queue # {} \/ pending_migrations # {})
  /\ updated_taskhash_queue' = updated_taskhash_queue \ handled
  /\ \E new \in SUBSET handled :
       LET toprocess == new \cup {d \in SetsceneTids : sq_deferred[d] \in new}
           total     == UNION {AllRevdeps[t] : t \in toprocess}
       IN  \E fresh \in SUBSET total :
             LET rehashed == fresh \ Keeps IN
             /\ \A t \in fresh : Depends[t] \cap (toprocess \cup fresh) # {}
             /\ Renamed(rehashed \cup (toprocess \ new))
             /\ pending_migrations' = pending_migrations \cup (rehashed \cap SetsceneTids)
             /\ changed' = (rehashed # {})
  /\ pc' = "migrate"
  /\ UNCHANGED <<opt, state, shutdown, procs, runqVars, sq, sq_deferred, coverVars, sqdone>>

-----------------------------------------------------------------------------
\* A task that runs in either variant is too late to migrate.
Late == pending_migrations \cap (runq_running \cup sq.live)

\* Mutant: nobody waits.
Waits_Never(t) == FALSE

\* One that covers a running task has to wait.
Waits(t) == SqCoveredTasks[t] \cap (runq_running \ runq_complete) # {}

Migrating == {t \in pending_migrations \ Late : ~Waits(t)}

\* "Task %s marked as completed but now needing to rerun? Halting build."
\* The loop returns with some tasks taken back, which is left out: by CoveredStays it
\* never comes to this.
Rerun(t) == SqCoveredTasks[t] \cap (runq_complete \ runq_tasksrun) # {}

\* The tasks T are taken back to where they were at the start.
Unsettle(T) ==
  LET below   == UNION {SqCoveredTasks[t] : t \in T}
      settled == (sq.covered \cup sq.notcovered) \ T
      free    == {t \in T : \/ SqRevdeps[t] = {}
                            \/ /\ HardDepsRev[t] \cap (sq.notcovered \ T) = {}
                               /\ SqRevdeps[t] \subseteq settled}
  IN  [sq EXCEPT !.done = (@ \ T) \ (below \ (runq_complete \cup Unskippable)),
                 !.buildable = (@ \ T) \cup free,
                 !.running = @ \ T, !.outrightfail = @ \ T,
                 !.covered = @ \ T, !.notcovered = @ \ T]

\* update_scenequeue_data for the tasks T: some are there already, ...
Skip(s, T) ==
  LET skipped == {t \in T : t \in NoExec \/ stamppresent(t)}
  IN  scenequeue_updatecounters(Touch(s, skipped), skipped, {})

\* ... and the others are looked for; valid are those the hash check finds.
Recheck(s, T, deferred, valid) ==
  [s EXCEPT !.outrightfail = @ \cup
     {t \in T \ valid : deferred[t] = None /\ t \notin s.covered \cup s.notcovered}]

\* sq_task_failoutright for the tasks of T with a hard dependency that is not there
FailHard(s, T) ==
  LET F == UNION {FailSet(s, t) : t \in {u \in T : HardDepsRev[u] \cap (sq.notcovered \ T) # {}}}
  IN  scenequeue_updatecounters(Touch(s, F), {}, F)

\* A task that has the hash of another by now is deferred after it.
Deferrals(t) ==
  {sq_deferred[t]} \cup {u \in SetsceneTids \ {t} : NameOf[u] = NameOf[t] /\ InitDeferred[u] = None}

Again(s, update) ==
  IF update THEN [s EXCEPT !.needed = {}, !.harddeferred = {}, !.needupdate = TRUE] ELSE s

\* The second half: the setscene tasks that can start over do.
Migrate ==
  LET T == Migrating IN
  /\ pc = "migrate" /\ pc' = "scan"
  /\ pending_migrations' = pending_migrations \ (Late \cup T)
  /\ changed' = FALSE
  /\ IF \E t \in T : Rerun(t)
     THEN /\ state' = "cleanup"
          /\ \E t \in T : Rerun(t) /\ failed_tids' = failed_tids \cup {t}
          /\ UNCHANGED <<sq, sq_deferred, sqdone, sstamp>>
     ELSE /\ \E after \in [T -> SetsceneTids \cup {None}] :
               /\ \A t \in T : after[t] \in Deferrals(t)
               /\ sq_deferred' = [t \in SetsceneTids |-> IF t \in T THEN after[t] ELSE sq_deferred[t]]
          /\ \/ T = {} /\ sq' = Again(sq, changed)
             \/ /\ T # {}
                /\ \E valid \in SUBSET T, s \in {Skip(Unsettle(T), T)} :
                   \E u \in {Recheck(s, T, sq_deferred', valid)} : sq' = Again(FailHard(u, T), TRUE)
          /\ sqdone' = (sqdone /\ T = {})
          /\ sstamp' = [t \in Tasks |-> IF t \in T \cap NoExec THEN New ELSE sstamp[t]]
          /\ UNCHANGED <<state, failed_tids>>
  /\ UNCHANGED <<opt, shutdown, procs, runq_buildable, runq_running, runq_complete, runq_tasksrun,
                 active, coverVars, nstamp, updated_taskhash_queue>>

\* The setscene phase is not over while there are reports.
HoldoffWaits ==
  /\ pc = "holdoff" /\ updated_taskhash_queue # {}
  /\ update_holdofftasks
  /\ pc' = "sched"
  /\ UNCHANGED <<opt, state, shutdown, procs, runq_running, runq_complete, runq_tasksrun,
                 failed_tids, active, sq_deferred, sqdone, stampVars, hashVars>>

-----------------------------------------------------------------------------
\* The steps of RunQueue, and those that have to do with hashes.  The reports of
\* failed tasks stay in the queue, so that the sanity checks at the end change nothing.
MExecutor ==
  \/ /\ \/ execute_runqueue \/ SceneStep \/ SchedStep
        \/ updated_taskhash_queue = {} /\ HoldoffStep
        \/ ReadReturn /\ (pc = "execute" => updated_taskhash_queue = {} /\ pending_migrations = {})
     /\ UNCHANGED <<opt, hashVars>>
  \/ HoldoffWaits \/ Rehash \/ Migrate

MExits == Exits /\ UNCHANGED hashVars

MNext ==
  \/ MExecutor \/ MExits
  \/ \E t \in SetsceneTids : Report(t)
  \/ (RequestShutdown \/ Finished) /\ UNCHANGED hashVars

mvars == <<vars, hashVars>>

MSpec == MInit /\ [][MNext]_mvars /\ WF_mvars(MExecutor) /\ SF_mvars(MExits)

-----------------------------------------------------------------------------
\* What is restored, or skipped as not needed, stays so: no later report takes a
\* covered setscene task back, after tasks were skipped on its account ("marked as
\* completed but now needing to rerun? Halting build." in process_possible_migrations).
CoveredStays ==
  [][sq.covered \subseteq sq'.covered /\ (pc = "migrate" => \A t \in Migrating : ~Rerun(t))]_mvars
=============================================================================
