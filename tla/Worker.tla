------------------------------- MODULE Worker -------------------------------
(***************************************************************************)
(* The processes of a build: the cooker, which runs the executor, the      *)
(* bitbake-worker processes (one per multiconfig, and fakeroot ones that   *)
(* are started when first needed), and the tasks the workers fork.         *)
(*                                                                         *)
(* A worker has two pipes.  Down the first the executor sends runtask,     *)
(* finishnow and quit; up the second the worker sends exit codes, by way   *)
(* of a queue that a thread of its own flushes.  Either process may die.   *)
(* The executor sees the death of a worker when it polls it inside         *)
(* runQueuePipe.read; a worker sees the death of the cooker as the end of  *)
(* its input; a task is sent SIGTERM by the kernel when its worker dies,   *)
(* once it has asked for that.                                             *)
(*                                                                         *)
(* Which task the executor sends when, and whether there is one left, is   *)
(* the subject of RunQueue and is left open here.  Left out: cookerconfig, *)
(* workerdata and the other messages that only carry data; the events on   *)
(* the way up; the start of a fakeroot worker that fails; a message that   *)
(* arrives in parts.                                                       *)
(***************************************************************************)
EXTENDS Sequences, Integers

CONSTANTS
  Workers,    \* rq.worker and rq.fakeworker
  Fake,       \* those in rq.fakeworker, started on demand
  Tasks,
  WorkerOf,   \* the worker a task is sent to
  Setscene,   \* the tasks that are sent as setscene variants
  DiskMon,    \* the actions of BB_DISKMON_DIRS in order
  MaxDeaths,  \* bound: workers that die unasked
  Builds      \* what a build may be like

ASSUME WorkerAssumption == Fake \subseteq Workers /\ Workers \ Fake # {} /\ WorkerOf \in [Tasks -> Workers]
ASSUME TaskAssumption == Setscene \subseteq Tasks
ASSUME MonitorAssumption == DiskMon \in Seq({"STOPTASKS", "HALT"})
ASSUME BoundAssumption == MaxDeaths \in Nat
ASSUME BuildAssumption == Builds \subseteq
  [tasks : SUBSET Tasks,                   \* its tasks
   halt : BOOLEAN,                         \* it stops at the first failure (no --continue)
   requests : SUBSET {"stop", "force"},    \* the shutdowns the user interface may ask for
   disk : SUBSET (DOMAIN DiskMon),         \* the thresholds that may be broken
   mortal : BOOLEAN]                       \* its cooker may die

VARIABLES
  build,     \* the build, one of Builds
  \* the executor
  state,     \* rq.state: "running", "cleanup", "complete" or "failed"
  pc,        \* where the thread that runs the executor stands
  todo,      \* the workers its current loop has still to visit
  started,   \* the keys of rq.worker and rq.fakeworker
  teardown,  \* rq.teardown
  live,      \* the tasks counted by stats.active and sq_live
  given,     \* the tasks sent so far
  failed,    \* failed_tids
  checked,   \* the entries of DiskMon that were acted on
  trigger,   \* the entries whose threshold the check under way finds broken
  request,   \* the cooker's shutdown state: "none", "stop" or "force"
  outcome,   \* how the build ended
  \* the pipes of a worker
  stdin, eof, stdout,
  \* a worker
  wpc,       \* where its main thread stands
  rank,      \* the last kind of message handled in this pass of serve()
  queue,     \* the input that was read and not handled
  build_pids,
  hunt,      \* the pids handle_finishnow has still to signal
  dying,     \* sigterm_exception called it
  outq,      \* worker_queue and the bytes the flushing thread holds
  \* a task's process
  child,     \* "none", "forked", "guarded" (prctl done), "session" (setsid
             \* done), "exit0" or "exit1" (a zombie with that status), "reaped"
  term,      \* SIGTERM was sent to it
  \* history
  halted,    \* the build was cut short: finish_now, an exception, the cooker's death
  deaths

executor == <<state, pc, todo, started, teardown, live, given, failed, checked, trigger,
              request, outcome>>
pipes == <<stdin, eof, stdout>>
worker == <<wpc, rank, queue, build_pids, hunt, dying, outq>>
process == <<child, term>>
vars == <<build, executor, pipes, worker, process, halted, deaths>>

FinishNow == [kind |-> "finishnow"]
Quit == [kind |-> "quit"]
RunTask(t) == [kind |-> "runtask", task |-> t]
Messages == {FinishNow, Quit} \cup {RunTask(t) : t \in Tasks}
ExitCodes == [task : Tasks, status : {0, 1}]

Done == state \in {"complete", "failed"}
Dead(w) == wpc[w] = "dead"
Alive(t) == child[t] \in {"forked", "guarded", "session"}
ChildrenOf(w) == {t \in Tasks : WorkerOf[t] = w}
Zombies(w) == {t \in ChildrenOf(w) : child[t] \in {"exit0", "exit1"}}

Init ==
  /\ build \in Builds
  /\ state = "running" /\ pc = "next" /\ todo = {} /\ started = Workers \ Fake
  /\ teardown = FALSE /\ live = {} /\ given = {} /\ failed = {}
  /\ checked = {} /\ trigger = {} /\ request = "none" /\ outcome = "none"
  /\ stdin = [w \in Workers |-> <<>>]
  /\ eof = [w \in Workers |-> FALSE]
  /\ stdout = [w \in Workers |-> <<>>]
  /\ wpc = [w \in Workers |-> IF w \in Fake THEN "absent" ELSE "select"]
  /\ rank = [w \in Workers |-> 0]
  /\ queue = [w \in Workers |-> <<>>]
  /\ build_pids = [w \in Workers |-> {}]
  /\ hunt = [w \in Workers |-> {}]
  /\ dying = [w \in Workers |-> FALSE]
  /\ outq = [w \in Workers |-> <<>>]
  /\ child = [t \in Tasks |-> "none"]
  /\ term = [t \in Tasks |-> FALSE]
  /\ halted = FALSE /\ deaths = 0

-----------------------------------------------------------------------------
(* The executor                                                            *)

\* The state finish_now, finish and the end of execute() leave.
Verdict == IF failed # {} THEN "failed" ELSE "complete"

\* finish_now: a worker that has died does not get the message.
SendFinishNow ==
  stdin' = [w \in Workers |->
              IF w \in started /\ ~Dead(w) THEN Append(stdin[w], FinishNow) ELSE stdin[w]]

\* The end of _execute_runqueue with rq.state st: tear the workers down, or return.
Settle(st) ==
  IF st \in {"complete", "failed"}
  THEN pc' = "teardown" /\ todo' = started /\ teardown' = TRUE
  ELSE pc' = "idle" /\ todo' = {} /\ UNCHANGED teardown

GoTo(p) == pc' = p /\ todo' = {} /\ UNCHANGED teardown

\* _execute_runqueue with rq.state st: execute() and its first read, finish(), or the
\* end.
execute_runqueue(st) ==
  CASE st = "running" -> pc' = "read1" /\ todo' = started /\ UNCHANGED teardown
    [] st = "cleanup" -> GoTo("finish")
    [] OTHER -> Settle(st)

\* execute() returns to _execute_runqueue.
Return(st) == IF st = "cleanup" THEN GoTo("finish") ELSE Settle(st)

\* What follows read_workers, by the place it was called from.
ReadStage == {"read1", "read2", "readFinish", "readStop", "readDisk"}
AfterRead(stage, st) ==
  CASE stage = "read1" -> GoTo("send")
    [] stage = "read2" -> Return(st)
    [] stage = "readFinish" -> Settle(st)
    [] stage = "readStop" -> GoTo("enter")
    [] stage = "readDisk" -> GoTo(IF trigger = {} THEN "next" ELSE "disk")

\* runQueuePipe.read handles all exit codes in the pipe: sq_task_fail and
\* sq_task_complete for setscene tasks, task_fail and task_complete for others.
Book(w, st) ==
  LET exits == {stdout[w][i] : i \in DOMAIN stdout[w]}
      bad == {e.task : e \in {x \in exits : x.status # 0}} \ Setscene
  IN  /\ live' = live \ {e.task : e \in exits}
      /\ failed' = failed \cup bad
      /\ state' = IF bad # {} /\ build.halt THEN "cleanup" ELSE st
      /\ stdout' = [stdout EXCEPT ![w] = <<>>]

\* runQueuePipe.read of one worker inside read_workers.  All workers are polled
\* first; a dead one makes it call finish_runqueue(True), and go on.
read(w) ==
  /\ pc \in ReadStage /\ w \in todo
  /\ IF \E v \in started : Dead(v)
     THEN SendFinishNow /\ halted' = TRUE /\ Book(w, Verdict)
     ELSE UNCHANGED <<stdin, halted>> /\ Book(w, state)
  /\ IF todo = {w}
     THEN AfterRead(pc, state')
     ELSE todo' = todo \ {w} /\ UNCHANGED <<pc, teardown>>
  /\ UNCHANGED <<started, given, checked, trigger, request, outcome, eof, worker, process, deaths, build>>

\* Mutant: finish() does not wait for active tasks.
finish_NoWait(stage) == state' = Verdict /\ AfterRead(stage, Verdict)

\* finish(): read the workers while tasks are active, or decide.
finish(stage) ==
  IF live # {}
  THEN /\ state' = "cleanup"
       /\ IF started # {}
          THEN pc' = stage /\ todo' = started /\ UNCHANGED teardown
          ELSE AfterRead(stage, "cleanup")
  ELSE state' = Verdict /\ AfterRead(stage, Verdict)

\* buildTargetsIdle: the finish_runqueue that the cooker's state asks for.
buildTargetsIdle ==
  /\ pc \in {"idle", "next"}
  /\ \/ /\ request = "none"
        /\ GoTo("enter")
        /\ UNCHANGED <<state, stdin, halted>>
     \/ /\ request = "force"
        /\ SendFinishNow /\ halted' = TRUE
        /\ state' = Verdict
        /\ GoTo("enter")
     \/ /\ request = "stop"
        /\ finish("readStop")
        /\ UNCHANGED <<stdin, halted>>
  /\ UNCHANGED <<started, live, given, failed, checked, trigger, request, outcome,
                 eof, stdout, worker, process, deaths, build>>

\* execute_runqueue begins with check_for_interrupts: after a forced shutdown it
\* raises an exception, which tears the workers down and ends the build.
EnterRunqueue ==
  /\ pc = "enter"
  /\ IF request = "force"
     THEN Settle("complete") /\ outcome' = "exception" /\ halted' = TRUE
     ELSE execute_runqueue(state) /\ UNCHANGED <<outcome, halted>>
  /\ UNCHANGED <<state, started, live, given, failed, checked, trigger, request,
                 pipes, worker, process, deaths, build>>

\* _execute_runqueue calls finish().  Once the workers are torn down
\* active_fds() is empty, which ends the build as a success.
FinishStep ==
  /\ pc = "finish"
  /\ IF live # {} /\ started = {}
     THEN GoTo("ended") /\ outcome' = "ok" /\ UNCHANGED state
     ELSE finish("readFinish") /\ UNCHANGED outcome
  /\ UNCHANGED <<started, live, given, failed, checked, trigger, request,
                 pipes, worker, process, halted, deaths, build>>

\* execute() sends a task, whatever the reads have made of rq.state.  A fakeroot
\* worker is started first.  Writing to a worker that has died raises an
\* exception, which execute_runqueue turns into the end of the build.
SendTask(t) ==
  LET w == WorkerOf[t] IN
  /\ pc = "send" /\ t \in build.tasks \ given
  /\ IF Dead(w)
     THEN /\ Settle("complete")
          /\ outcome' = "exception" /\ halted' = TRUE
          /\ UNCHANGED <<started, live, given, stdin, wpc>>
     ELSE /\ wpc' = [wpc EXCEPT ![w] = IF @ = "absent" THEN "select" ELSE @]
          /\ started' = started \cup {w}
          /\ stdin' = [stdin EXCEPT ![w] = Append(@, RunTask(t))]
          /\ live' = live \cup {t} /\ given' = given \cup {t}
          /\ \/ /\ pc' = "read2" /\ todo' = started \cup {w} /\ UNCHANGED teardown
             \/ /\ state \notin {"complete", "failed"}
                /\ Return(state)
             \/ /\ state \in {"complete", "failed"}
                /\ pc' = "teardown" /\ todo' = started \cup {w} /\ teardown' = TRUE
          /\ UNCHANGED <<outcome, halted>>
  /\ UNCHANGED <<state, failed, checked, trigger, request, eof, stdout,
                 rank, queue, build_pids, hunt, dying, outq, process, deaths, build>>

\* execute() finds no task to send: it waits, or decides.
SendNone ==
  /\ pc = "send"
  /\ IF live # {}
     THEN pc' = "read2" /\ todo' = started /\ UNCHANGED <<state, teardown>>
     ELSE state' = Verdict /\ Settle(Verdict)
  /\ UNCHANGED <<started, live, given, failed, checked, trigger, request, outcome,
                 pipes, worker, process, halted, deaths, build>>

\* _teardown_worker: quit, and the end of the input.  A worker that has died
\* does not get them.
TeardownSend(w) ==
  /\ pc = "teardown" /\ w \in todo
  /\ stdin' = IF Dead(w) THEN stdin ELSE [stdin EXCEPT ![w] = Append(@, Quit)]
  /\ eof' = [eof EXCEPT ![w] = TRUE]
  /\ pc' = "drain"
  /\ UNCHANGED <<state, todo, started, teardown, live, given, failed, checked, trigger, request,
                 outcome, stdout, worker, process, halted, deaths, build>>

\* _teardown_worker reads until the worker has exited and its pipe is empty.
TeardownRead(w) ==
  /\ pc = "drain" /\ w \in todo /\ eof[w]
  /\ \/ /\ stdout[w] # <<>>
        /\ Book(w, state)
        /\ UNCHANGED <<pc, todo>>
     \/ /\ stdout[w] = <<>> /\ Dead(w)
        /\ pc' = "teardown" /\ todo' = todo \ {w}
        /\ UNCHANGED <<state, live, failed, stdout>>
  /\ UNCHANGED <<started, teardown, given, checked, trigger, request, outcome,
                 stdin, eof, worker, process, halted, deaths, build>>

\* teardown_workers returns.  An exit code that was read meanwhile may have set
\* rq.state to cleanup: then execute_runqueue is called once more.
TeardownEnd ==
  /\ pc = "teardown" /\ todo = {}
  /\ started' = {}
  /\ IF outcome = "exception" \/ Done
     THEN /\ pc' = "ended"
          /\ outcome' = CASE outcome = "exception" -> "exception"
                          [] outcome # "exception" /\ state = "failed" -> "TaskFailure"
                          [] OTHER -> "ok"
     ELSE pc' = "idle" /\ UNCHANGED outcome
  /\ UNCHANGED <<state, todo, teardown, live, given, failed, checked, trigger, request,
                 pipes, worker, process, halted, deaths, build>>

ExecutorStep ==
  \/ \E w \in Workers : read(w) \/ TeardownSend(w) \/ TeardownRead(w)
  \/ \E t \in Tasks : SendTask(t)
  \/ buildTargetsIdle \/ EnterRunqueue \/ FinishStep \/ SendNone \/ TeardownEnd

-----------------------------------------------------------------------------
(* What happens to the executor between its calls                          *)

\* The user interface asks for a shutdown.
RequestShutdown(r) ==
  /\ pc \in {"idle", "next", "enter"} /\ request # r /\ request # "force"
  /\ request' = r
  /\ UNCHANGED <<state, pc, todo, started, teardown, live, given, failed, checked, trigger,
                 outcome, pipes, worker, process, halted, deaths, build>>

\* After a call of the idle function there may be a heartbeat, which calls
\* diskMonitor.check; it finds some thresholds broken.
DiskCheck ==
  /\ pc = "idle" /\ started # {}
  /\ trigger' \in SUBSET (build.disk \ checked) \ {{}}
  /\ pc' = "disk"
  /\ UNCHANGED <<state, todo, started, teardown, live, given, failed, checked,
                 request, outcome, pipes, worker, process, halted, deaths, build>>

\* diskMonitor.check acts on one entry, once.
DiskEntry ==
  /\ pc = "disk"
  /\ \E i \in trigger :
     /\ \A j \in trigger : i <= j
     /\ checked' = checked \cup {i}
     /\ trigger' = trigger \ {i}
     /\ LET then == IF trigger = {i} THEN "next" ELSE "disk" IN
        \/ /\ DiskMon[i] = "HALT"
           /\ SendFinishNow /\ halted' = TRUE
           /\ state' = Verdict
           /\ GoTo(then)
        \/ /\ DiskMon[i] = "STOPTASKS" /\ live # {}
           /\ state' = "cleanup"
           /\ pc' = "readDisk" /\ todo' = started
           /\ UNCHANGED <<teardown, stdin, halted>>
        \/ /\ DiskMon[i] = "STOPTASKS" /\ live = {}
           /\ state' = Verdict
           /\ GoTo(then)
           /\ UNCHANGED <<stdin, halted>>
  /\ UNCHANGED <<started, live, given, failed, request, outcome, eof, stdout, worker, process, deaths, build>>

\* The cooker dies.  Its memory is gone and its ends of the pipes are closed.
CookerDies ==
  /\ build.mortal /\ pc \notin {"ended", "gone"}
  /\ pc' = "gone" /\ halted' = TRUE
  /\ eof' = [w \in Workers |-> TRUE]
  /\ stdout' = [w \in Workers |-> <<>>]
  /\ state' = "complete" /\ todo' = {} /\ started' = {} /\ teardown' = FALSE
  /\ live' = {} /\ given' = {} /\ failed' = {} /\ checked' = {} /\ trigger' = {}
  /\ request' = "none" /\ outcome' = "none"
  /\ UNCHANGED <<stdin, worker, process, deaths, build>>

-----------------------------------------------------------------------------
(* A worker                                                                *)

\* The order in which serve() tries the kinds of messages.
Rank(m) == CASE m.kind = "runtask" -> 1 [] m.kind = "finishnow" -> 2 [] m.kind = "quit" -> 3

\* The head of the queue is handled in the current pass of serve().
HeadIs(w, kind) ==
  /\ wpc[w] = "pass" /\ queue[w] # <<>>
  /\ Head(queue[w]).kind = kind /\ Rank(Head(queue[w])) > rank[w]

\* The process ends.  What it holds is lost, init reaps its dead children, and
\* those that asked for it are sent SIGTERM.
Die(w) ==
  /\ wpc' = [wpc EXCEPT ![w] = "dead"]
  /\ rank' = [rank EXCEPT ![w] = 0]
  /\ queue' = [queue EXCEPT ![w] = <<>>]
  /\ build_pids' = [build_pids EXCEPT ![w] = {}]
  /\ hunt' = [hunt EXCEPT ![w] = {}]
  /\ dying' = [dying EXCEPT ![w] = FALSE]
  /\ outq' = [outq EXCEPT ![w] = <<>>]
  /\ stdin' = [stdin EXCEPT ![w] = <<>>]
  /\ term' = [t \in Tasks |-> term[t] \/ (WorkerOf[t] = w /\ child[t] \in {"guarded", "session"})]
  /\ child' = [t \in Tasks |-> IF t \in Zombies(w) THEN "reaped" ELSE child[t]]

\* Mutant: the end of the input goes unnoticed.
Select_NoEnd(w) ==
  /\ wpc[w] = "select"
  /\ stdin[w] # <<>> \/ queue[w] # <<>> \/ Zombies(w) # {}
  /\ queue' = [queue EXCEPT ![w] = @ \o stdin[w]]
  /\ stdin' = [stdin EXCEPT ![w] = <<>>]
  /\ wpc' = [wpc EXCEPT ![w] = "pass"]
  /\ rank' = [rank EXCEPT ![w] = 0]
  /\ UNCHANGED <<executor, eof, stdout, build_pids, hunt, dying, outq, process, halted, deaths, build>>

\* select() and the read that follows: input, the end of it (sigterm_exception),
\* or neither while there is something left to do.
Select(w) ==
  /\ wpc[w] = "select"
  /\ \/ /\ stdin[w] # <<>>
        /\ queue' = [queue EXCEPT ![w] = @ \o stdin[w]]
        /\ stdin' = [stdin EXCEPT ![w] = <<>>]
        /\ wpc' = [wpc EXCEPT ![w] = "pass"]
        /\ UNCHANGED <<hunt, dying>>
     \/ /\ stdin[w] = <<>> /\ eof[w]
        /\ wpc' = [wpc EXCEPT ![w] = "hunt"]
        /\ hunt' = [hunt EXCEPT ![w] = build_pids[w]]
        /\ dying' = [dying EXCEPT ![w] = TRUE]
        /\ UNCHANGED <<queue, stdin>>
     \/ /\ stdin[w] = <<>> /\ ~eof[w]
        /\ queue[w] # <<>> \/ Zombies(w) # {}
        /\ wpc' = [wpc EXCEPT ![w] = "pass"]
        /\ UNCHANGED <<queue, stdin, hunt, dying>>
  /\ rank' = [rank EXCEPT ![w] = 0]
  /\ UNCHANGED <<executor, eof, stdout, build_pids, outq, process, halted, deaths, build>>

handle_runtask(w) ==
  LET t == Head(queue[w]).task IN
  /\ HeadIs(w, "runtask")
  /\ child' = [child EXCEPT ![t] = "forked"]
  /\ build_pids' = [build_pids EXCEPT ![w] = @ \cup {t}]
  /\ queue' = [queue EXCEPT ![w] = Tail(@)]
  /\ rank' = [rank EXCEPT ![w] = 1]
  /\ UNCHANGED <<executor, pipes, wpc, hunt, dying, outq, term, halted, deaths, build>>

\* os.fork fails: sys.exit(1), and the flushing thread is waited for.
ForkFails(w) ==
  /\ HeadIs(w, "runtask") /\ deaths < MaxDeaths
  /\ deaths' = deaths + 1
  /\ wpc' = [wpc EXCEPT ![w] = "join"]
  /\ UNCHANGED <<executor, pipes, rank, queue, build_pids, hunt, dying, outq, process, halted, build>>

\* handle_finishnow begins.
handle_finishnow(w) ==
  /\ HeadIs(w, "finishnow")
  /\ wpc' = [wpc EXCEPT ![w] = "hunt"]
  /\ hunt' = [hunt EXCEPT ![w] = build_pids[w]]
  /\ queue' = [queue EXCEPT ![w] = Tail(@)]
  /\ rank' = [rank EXCEPT ![w] = 2]
  /\ UNCHANGED <<executor, pipes, build_pids, dying, outq, process, halted, deaths, build>>

\* Mutant: it waits for the process whether or not there was a group to signal.
Kill_WaitsAlways(w, t) ==
  /\ wpc[w] = "hunt" /\ t \in hunt[w]
  /\ hunt' = [hunt EXCEPT ![w] = @ \ {t}]
  /\ term' = IF child[t] \in {"session", "exit0", "exit1"} THEN [term EXCEPT ![t] = TRUE] ELSE term
  /\ wpc' = [wpc EXCEPT ![w] = "wait"]
  /\ UNCHANGED <<executor, pipes, rank, queue, build_pids, dying, outq, child, halted, deaths, build>>

\* handle_finishnow signals one process group.  There is none before setsid, nor
\* after the process was reaped; then it does not wait either.
Kill(w, t) ==
  /\ wpc[w] = "hunt" /\ t \in hunt[w]
  /\ hunt' = [hunt EXCEPT ![w] = @ \ {t}]
  /\ IF child[t] \in {"session", "exit0", "exit1"}
     THEN /\ term' = [term EXCEPT ![t] = TRUE]
          /\ wpc' = [wpc EXCEPT ![w] = "wait"]
     ELSE UNCHANGED <<term, wpc>>
  /\ UNCHANGED <<executor, pipes, rank, queue, build_pids, dying, outq, child, halted, deaths, build>>

\* os.waitpid(-1, 0) returns with any child.  build_pids keeps it, and no exit
\* code is sent.
WaitAny(w) ==
  /\ wpc[w] = "wait"
  /\ \E t \in Zombies(w) : child' = [child EXCEPT ![t] = "reaped"]
  /\ wpc' = [wpc EXCEPT ![w] = "hunt"]
  /\ UNCHANGED <<executor, pipes, rank, queue, build_pids, hunt, dying, outq, term, halted, deaths, build>>

\* handle_finishnow returns to serve(), or to sigterm_exception, which kills the
\* worker.
HuntReturn(w) ==
  /\ wpc[w] = "hunt" /\ hunt[w] = {}
  /\ IF dying[w]
     THEN Die(w)
     ELSE /\ wpc' = [wpc EXCEPT ![w] = "pass"]
          /\ UNCHANGED <<rank, queue, build_pids, hunt, dying, outq, stdin, process>>
  /\ UNCHANGED <<executor, eof, stdout, halted, deaths, build>>

handle_quit(w) ==
  /\ HeadIs(w, "quit")
  /\ wpc' = [wpc EXCEPT ![w] = "join"]
  /\ UNCHANGED <<executor, pipes, rank, queue, build_pids, hunt, dying, outq, process, halted, deaths, build>>

\* No more messages fit into this pass.
EndPass(w) ==
  /\ wpc[w] = "pass"
  /\ queue[w] # <<>> => Rank(Head(queue[w])) <= rank[w]
  /\ wpc' = [wpc EXCEPT ![w] = IF Zombies(w) = {} THEN "select" ELSE "reap"]
  /\ UNCHANGED <<executor, pipes, rank, queue, build_pids, hunt, dying, outq, process, halted, deaths, build>>

\* Mutant: a process that has not ended is reported too (WUNTRACED).
process_waitpid_Stopped(w) ==
  /\ wpc[w] = "reap"
  /\ \E t \in build_pids[w] :
       /\ child' = [child EXCEPT ![t] = IF Alive(t) THEN @ ELSE "reaped"]
       /\ build_pids' = [build_pids EXCEPT ![w] = @ \ {t}]
       /\ outq' = [outq EXCEPT ![w] = Append(@, [task |-> t, status |-> IF child[t] = "exit0" THEN 0 ELSE 1])]
       /\ wpc' = [wpc EXCEPT ![w] = IF build_pids[w] = {t} THEN "select" ELSE "reap"]
  /\ UNCHANGED <<executor, pipes, rank, queue, hunt, dying, term, halted, deaths, build>>

\* process_waitpid, until there is nothing to collect.
process_waitpid(w) ==
  /\ wpc[w] = "reap"
  /\ \E t \in Zombies(w) :
       /\ child' = [child EXCEPT ![t] = "reaped"]
       /\ build_pids' = [build_pids EXCEPT ![w] = @ \ {t}]
       /\ outq' = [outq EXCEPT ![w] = Append(@, [task |-> t, status |-> IF child[t] = "exit0" THEN 0 ELSE 1])]
       /\ wpc' = [wpc EXCEPT ![w] = IF Zombies(w) = {t} THEN "select" ELSE "reap"]
  /\ UNCHANGED <<executor, pipes, rank, queue, hunt, dying, term, halted, deaths, build>>

\* Mutant: what a short write leaves over is dropped.
worker_flush_Short(w) ==
  /\ wpc[w] \notin {"absent", "dead"} /\ outq[w] # <<>> /\ pc # "gone"
  /\ stdout' = [stdout EXCEPT ![w] = Append(@, Head(outq[w]))]
  /\ outq' = [outq EXCEPT ![w] = <<>>]
  /\ UNCHANGED <<executor, stdin, eof, wpc, rank, queue, build_pids, hunt, dying, process, halted, deaths, build>>

\* worker_flush writes to the pipe; a broken pipe is ignored and tried again.
worker_flush(w) ==
  /\ wpc[w] \notin {"absent", "dead"} /\ outq[w] # <<>> /\ pc # "gone"
  /\ stdout' = [stdout EXCEPT ![w] = Append(@, Head(outq[w]))]
  /\ outq' = [outq EXCEPT ![w] = Tail(@)]
  /\ UNCHANGED <<executor, stdin, eof, wpc, rank, queue, build_pids, hunt, dying, process, halted, deaths, build>>

\* worker_thread.join() returns once everything is written.
Exit(w) ==
  /\ wpc[w] = "join" /\ outq[w] = <<>>
  /\ Die(w)
  /\ UNCHANGED <<executor, eof, stdout, halted, deaths, build>>

\* The worker is killed from outside.
WorkerDies(w) ==
  /\ wpc[w] \notin {"absent", "dead"} /\ deaths < MaxDeaths
  /\ deaths' = deaths + 1
  /\ Die(w)
  /\ UNCHANGED <<executor, eof, stdout, halted, build>>

WorkerStep(w) ==
  \/ Select(w) \/ handle_runtask(w) \/ handle_finishnow(w) \/ WaitAny(w) \/ HuntReturn(w)
  \/ handle_quit(w) \/ EndPass(w) \/ process_waitpid(w) \/ Exit(w)
  \/ \E t \in Tasks : Kill(w, t)

-----------------------------------------------------------------------------
(* A task's process                                                        *)

\* signal_on_parent_exit, then os.setsid.
ChildStart(t) ==
  /\ child[t] \in {"forked", "guarded"} /\ ~term[t]
  /\ child' = [child EXCEPT ![t] = IF @ = "forked" THEN "guarded" ELSE "session"]
  /\ UNCHANGED <<executor, pipes, worker, term, halted, deaths, build>>

\* The status stays with the process until its worker collects it.
Ended(t, status) ==
  /\ child' = [child EXCEPT ![t] = IF Dead(WorkerOf[t]) THEN "reaped" ELSE status]
  /\ UNCHANGED <<executor, pipes, worker, term, halted, deaths, build>>

\* The task ends by itself.
ChildExit(t, status) == child[t] = "session" /\ Ended(t, status)

\* The task is ended by SIGTERM.
ChildTerminated(t) == Alive(t) /\ term[t] /\ Ended(t, "exit1")

-----------------------------------------------------------------------------

Finished == pc \in {"ended", "gone"} /\ UNCHANGED vars

Next ==
  \/ ExecutorStep
  \/ \E r \in build.requests : RequestShutdown(r)
  \/ DiskCheck \/ DiskEntry
  \/ CookerDies
  \/ \E w \in Workers : WorkerStep(w) \/ worker_flush(w) \/ ForkFails(w) \/ WorkerDies(w)
  \/ \E t \in Tasks : ChildStart(t) \/ ChildExit(t, "exit0") \/ ChildExit(t, "exit1") \/ ChildTerminated(t)
  \/ Finished

\* A task need not end by itself.  One that was sent SIGTERM does.
Fairness ==
  /\ WF_vars(ExecutorStep \/ DiskEntry)
  /\ \A w \in Workers : WF_vars(WorkerStep(w)) /\ WF_vars(worker_flush(w))
  /\ \A t \in Tasks : WF_vars(ChildStart(t)) /\ WF_vars(ChildTerminated(t))

Spec == Init /\ [][Next]_vars /\ Fairness

-----------------------------------------------------------------------------

States == {"running", "cleanup", "complete", "failed"}

TypeOK ==
  /\ build \in Builds
  /\ state \in States
  /\ pc \in ReadStage \cup {"idle", "next", "enter", "finish", "send", "teardown", "drain",
                            "disk", "ended", "gone"}
  /\ todo \subseteq Workers /\ started \subseteq Workers /\ teardown \in BOOLEAN
  /\ given \subseteq Tasks /\ live \subseteq given /\ failed \subseteq Tasks
  /\ checked \subseteq DOMAIN DiskMon /\ trigger \subseteq DOMAIN DiskMon
  /\ request \in {"none", "stop", "force"}
  /\ outcome \in {"none", "ok", "TaskFailure", "exception"}
  /\ stdin \in [Workers -> Seq(Messages)] /\ queue \in [Workers -> Seq(Messages)]
  /\ eof \in [Workers -> BOOLEAN]
  /\ stdout \in [Workers -> Seq(ExitCodes)] /\ outq \in [Workers -> Seq(ExitCodes)]
  /\ wpc \in [Workers -> {"absent", "select", "pass", "hunt", "wait", "reap", "join", "dead"}]
  /\ rank \in [Workers -> 0..2]
  /\ build_pids \in [Workers -> SUBSET Tasks] /\ hunt \in [Workers -> SUBSET Tasks]
  /\ dying \in [Workers -> BOOLEAN]
  /\ child \in [Tasks -> {"none", "forked", "guarded", "session", "exit0", "exit1", "reaped"}]
  /\ term \in [Tasks -> BOOLEAN]
  /\ halted \in BOOLEAN /\ deaths \in 0..MaxDeaths

\* A task the executor has booked has really ended: its process was collected.
\* (runqueue_process_waitpid believes every exit code that arrives.)
BookedIsOver == \A t \in given \ live : child[t] = "reaped"

Holds(s, t) == \E i \in DOMAIN s : s[i] = RunTask(t)
Reports(s, t) == \E i \in DOMAIN s : s[i].task = t

\* Nothing is lost: unless the build is cut short, a task the executor waits for
\* is in a pipe or a queue, is a process, or its exit code is on its way back.
NothingLost ==
  ~halted => \A t \in live :
    LET w == WorkerOf[t] IN
    \/ Dead(w)
    \/ Holds(stdin[w], t) \/ Holds(queue[w], t)
    \/ Alive(t) \/ t \in Zombies(w)
    \/ Reports(outq[w], t) \/ Reports(stdout[w], t)

\* The workers of a build that is not cut short are torn down only when no task's
\* process is left (finish() waits for stats.active and sq_live).
PoliteEnd == pc \in {"teardown", "drain", "ended"} /\ ~halted
               => \A t \in Tasks : ~Alive(t) /\ t \notin Zombies(WorkerOf[t])

\* A build that is cut short, or whose worker dies, ends, even when its tasks
\* would run for ever (finish_now, the polls in runQueuePipe.read, handle_finishnow).
HaltEnds == halted \/ (\E w \in Workers : Dead(w)) ~> pc \in {"ended", "gone"}

\* When the cooker dies, every worker ends, or has nothing left to do but write to
\* the broken pipe (the end of the input in serve(), sigterm_exception).
WorkersFollow == pc = "gone" ~> \A w \in Workers : wpc[w] \in {"absent", "join", "dead"}

=============================================================================
