------------------------------ MODULE MCWorker ------------------------------
(* Builds for TLC: two tasks in one worker, with a forced shutdown, both     *)
(* actions of the disk monitor and a cooker that may die; the same two with  *)
(* --continue; and a task in each of two workers, one of them fakeroot, with *)
(* a polite shutdown.  In each of them a worker may die.                     *)
EXTENDS Worker

CONSTANTS plain, fake, t1, t2, f1

MCWorkerOf == [t \in Tasks |-> IF t = f1 THEN fake ELSE plain]

MCDiskMon == <<"STOPTASKS", "HALT">>

MCBuilds ==
  {[tasks |-> {t1, t2}, halt |-> TRUE, requests |-> {"force"}, disk |-> {1, 2}, mortal |-> TRUE],
   [tasks |-> {t1, t2}, halt |-> FALSE, requests |-> {}, disk |-> {}, mortal |-> TRUE],
   [tasks |-> {t1, f1}, halt |-> TRUE, requests |-> {"stop"}, disk |-> {}, mortal |-> FALSE]}

\* The user interface has asked the build to stop after the running tasks.
StopBuilds == {[tasks |-> {t1}, halt |-> TRUE, requests |-> {"stop"},
                disk |-> {2}, mortal |-> FALSE]}
=============================================================================
