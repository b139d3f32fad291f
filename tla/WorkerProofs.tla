---------------------------- MODULE WorkerProofs ----------------------------
(***************************************************************************)
(* The safety of the protocol between executor, workers and tasks, for any *)
(* number of them.                                                         *)
(*                                                                         *)
(* LedgerInv says where a task can be: a task is in a pipe or a queue at   *)
(* most once, and then it was never forked; an exit code is on its way     *)
(* back only for a process that was collected.  BookedIsOver is part of    *)
(* it.  ExecInv says that, unless the build is cut short, the executor     *)
(* decides and tears down only when it waits for no task.  HuntInv says    *)
(* that a worker then loses an exit code only after that.                  *)
(***************************************************************************)
EXTENDS Worker, TLAPS

-----------------------------------------------------------------------------
(* Sequences of messages                                                   *)

Has(s, m) == \E i \in DOMAIN s : s[i] = m

\* A task is in s at most once.
Once(s) == \A i, j \in DOMAIN s : \A t \in Tasks : s[i] = RunTask(t) /\ s[j] = RunTask(t) => i = j

\* A task that waits in a pipe or a queue of its worker was never forked, and waits
\* there once.
MailInv ==
  \A w \in Workers :
    /\ Once(stdin[w]) /\ Once(queue[w])
    /\ \A t \in Tasks : ~(Holds(stdin[w], t) /\ Holds(queue[w], t))
    /\ \A t \in Tasks : Holds(stdin[w], t) \/ Holds(queue[w], t) => child[t] = "none" /\ WorkerOf[t] = w

\* What was not sent is nowhere.
SentInv ==
  pc # "gone" => \A t \in Tasks \ given :
    /\ child[t] = "none"
    /\ ~Holds(stdin[WorkerOf[t]], t) /\ ~Holds(queue[WorkerOf[t]], t)

\* An exit code is that of a process that was collected.
ReportInv ==
  \A w \in Workers, t \in Tasks : Reports(outq[w], t) \/ Reports(stdout[w], t) => child[t] = "reaped"

LedgerInv == MailInv /\ SentInv /\ ReportInv /\ BookedIsOver

\* The executor decides when it waits for no task, and sends none after that.
Waits ==
  /\ pc \in {"teardown", "drain", "ended"} \/ started = {} => teardown
  /\ teardown => live = {} /\ state # "running" /\ pc \notin {"read1", "send"}
  /\ state \in {"complete", "failed"} => live = {}
  /\ pc \in {"read1", "send"} => state \in {"running", "cleanup"}

ExecInv == (pc = "gone" => halted) /\ (~halted => Waits)

\* And no worker hunts before.
HuntInv ==
  ~halted => \A w \in Workers :
    /\ ~Has(stdin[w], FinishNow) /\ ~Has(queue[w], FinishNow)
    /\ eof[w] \/ wpc[w] \in {"hunt", "wait"} => teardown

\* What Append, Tail and concatenation hold.
LEMMA HasAppend ==
  ASSUME NEW S, NEW s \in Seq(S), NEW e \in S, NEW m
  PROVE  Append(s, e) \in Seq(S) /\ (Has(Append(s, e), m) <=> Has(s, m) \/ m = e)
<1>1. Append(s, e) \in Seq(S) /\ Len(Append(s, e)) = Len(s) + 1 /\ Append(s, e)[Len(s) + 1] = e
      /\ \A i \in 1..Len(s) : Append(s, e)[i] = s[i]
  OBVIOUS
<1>2. DOMAIN s = 1..Len(s) /\ DOMAIN Append(s, e) = 1..(Len(s) + 1) /\ Len(s) \in Nat
  BY <1>1
<1>3. QED
  BY <1>1, <1>2 DEF Has

LEMMA HasTail ==
  ASSUME NEW S, NEW s \in Seq(S), s # <<>>, NEW m
  PROVE  /\ Head(s) \in S /\ Tail(s) \in Seq(S)
         /\ Has(s, m) <=> m = Head(s) \/ Has(Tail(s), m)
<1>1. /\ Head(s) \in S /\ Tail(s) \in Seq(S) /\ Len(Tail(s)) = Len(s) - 1 /\ Len(s) \in Nat \ {0}
      /\ Head(s) = s[1] /\ \A i \in 1..(Len(s) - 1) : Tail(s)[i] = s[i + 1]
  OBVIOUS
<1>2. DOMAIN s = 1..Len(s) /\ DOMAIN Tail(s) = 1..(Len(s) - 1)
  BY <1>1
<1>3. ASSUME Has(s, m) PROVE m = Head(s) \/ Has(Tail(s), m)
  <2>1. PICK i \in 1..Len(s) : s[i] = m
    BY <1>2, <1>3 DEF Has
  <2>2. CASE i = 1
    BY <1>1, <2>1, <2>2
  <2>3. CASE i # 1
    <3>1. i - 1 \in 1..(Len(s) - 1) /\ Tail(s)[i - 1] = s[i]
      BY <1>1, <2>3
    <3>2. QED
      BY <1>2, <2>1, <3>1 DEF Has
  <2>4. QED
    BY <2>2, <2>3
<1>4. ASSUME Has(Tail(s), m) PROVE Has(s, m)
  <2>1. PICK i \in 1..(Len(s) - 1) : Tail(s)[i] = m
    BY <1>2, <1>4 DEF Has
  <2>2. i + 1 \in 1..Len(s) /\ s[i + 1] = m
    BY <1>1, <2>1
  <2>3. QED
    BY <1>2, <2>2 DEF Has
<1>5. Has(s, Head(s))
  BY <1>1, <1>2 DEF Has
<1>6. QED
  BY <1>1, <1>3, <1>4, <1>5

LEMMA HasConcat ==
  ASSUME NEW S, NEW s \in Seq(S), NEW u \in Seq(S), NEW m
  PROVE  s \o u \in Seq(S) /\ (Has(s \o u, m) <=> Has(s, m) \/ Has(u, m))
<1>1. /\ s \o u \in Seq(S) /\ Len(s \o u) = Len(s) + Len(u) /\ Len(s) \in Nat /\ Len(u) \in Nat
      /\ \A i \in 1..(Len(s) + Len(u)) : (s \o u)[i] = IF i <= Len(s) THEN s[i] ELSE u[i - Len(s)]
  OBVIOUS
<1>2. DOMAIN s = 1..Len(s) /\ DOMAIN u = 1..Len(u) /\ DOMAIN (s \o u) = 1..(Len(s) + Len(u))
  BY <1>1
<1>3. ASSUME Has(s \o u, m) PROVE Has(s, m) \/ Has(u, m)
  <2>1. PICK i \in 1..(Len(s) + Len(u)) : (s \o u)[i] = m
    BY <1>2, <1>3 DEF Has
  <2>2. CASE i <= Len(s)
    BY <1>1, <1>2, <2>1, <2>2 DEF Has
  <2>3. CASE ~(i <= Len(s))
    <3>1. i - Len(s) \in 1..Len(u) /\ u[i - Len(s)] = m
      BY <1>1, <2>1, <2>3
    <3>2. QED
      BY <1>2, <3>1 DEF Has
  <2>4. QED
    BY <2>2, <2>3
<1>4. ASSUME Has(s, m) PROVE Has(s \o u, m)
  <2>1. PICK i \in 1..Len(s) : s[i] = m
    BY <1>2, <1>4 DEF Has
  <2>2. i \in 1..(Len(s) + Len(u)) /\ (s \o u)[i] = m
    BY <1>1, <2>1
  <2>3. QED
    BY <1>2, <2>2 DEF Has
<1>5. ASSUME Has(u, m) PROVE Has(s \o u, m)
  <2>1. PICK i \in 1..Len(u) : u[i] = m
    BY <1>2, <1>5 DEF Has
  <2>2. i + Len(s) \in 1..(Len(s) + Len(u)) /\ (s \o u)[i + Len(s)] = m
    BY <1>1, <2>1
  <2>3. QED
    BY <1>2, <2>2 DEF Has
<1>6. QED
  BY <1>1, <1>3, <1>4, <1>5

LEMMA HasEmpty == ASSUME NEW m PROVE ~Has(<<>>, m)
  BY DEF Has

\* When a task stays at most once in a sequence.
LEMMA OnceAppend ==
  ASSUME NEW s \in Seq(Messages), Once(s), NEW e \in Messages,
         \A t \in Tasks : e = RunTask(t) => ~Has(s, e)
  PROVE  Once(Append(s, e))
<1>1. Append(s, e)[Len(s) + 1] = e /\ \A i \in 1..Len(s) : Append(s, e)[i] = s[i]
  OBVIOUS
<1>2. DOMAIN s = 1..Len(s) /\ DOMAIN Append(s, e) = 1..(Len(s) + 1) /\ Len(s) \in Nat
  OBVIOUS
<1>3. SUFFICES ASSUME NEW i \in 1..(Len(s) + 1), NEW j \in 1..(Len(s) + 1), NEW t \in Tasks,
                      Append(s, e)[i] = RunTask(t), Append(s, e)[j] = RunTask(t)
               PROVE  i = j
  BY <1>2 DEF Once
<1>4. CASE i \in 1..Len(s) /\ j \in 1..Len(s)
  BY <1>1, <1>2, <1>3, <1>4 DEF Once
<1>5. CASE i = Len(s) + 1 /\ j = Len(s) + 1
  BY <1>5
<1>6. CASE i \in 1..Len(s) /\ j = Len(s) + 1
  BY <1>1, <1>2, <1>3, <1>6 DEF Has
<1>7. CASE j \in 1..Len(s) /\ i = Len(s) + 1
  BY <1>1, <1>2, <1>3, <1>7 DEF Has
<1>8. QED
  BY <1>2, <1>4, <1>5, <1>6, <1>7

LEMMA OnceTail ==
  ASSUME NEW s \in Seq(Messages), Once(s), s # <<>>
  PROVE  Once(Tail(s)) /\ \A t \in Tasks : Head(s) = RunTask(t) => ~Has(Tail(s), RunTask(t))
<1>1. /\ Len(Tail(s)) = Len(s) - 1 /\ Len(s) \in Nat \ {0}
      /\ Head(s) = s[1] /\ \A i \in 1..(Len(s) - 1) : Tail(s)[i] = s[i + 1]
  OBVIOUS
<1>2. DOMAIN s = 1..Len(s) /\ DOMAIN Tail(s) = 1..(Len(s) - 1)
  BY <1>1
<1>3. Once(Tail(s))
  <2>1. SUFFICES ASSUME NEW i \in 1..(Len(s) - 1), NEW j \in 1..(Len(s) - 1), NEW t \in Tasks,
                        Tail(s)[i] = RunTask(t), Tail(s)[j] = RunTask(t)
                 PROVE  i = j
    BY <1>2 DEF Once
  <2>2. s[i + 1] = RunTask(t) /\ s[j + 1] = RunTask(t) /\ i + 1 \in DOMAIN s /\ j + 1 \in DOMAIN s
    BY <1>1, <1>2, <2>1
  <2>3. i + 1 = j + 1
    BY <2>2 DEF Once
  <2>4. QED
    BY <2>3, <1>1
<1>4. ASSUME NEW t \in Tasks, Head(s) = RunTask(t), Has(Tail(s), RunTask(t)) PROVE FALSE
  <2>1. PICK i \in 1..(Len(s) - 1) : Tail(s)[i] = RunTask(t)
    BY <1>2, <1>4 DEF Has
  <2>2. s[i + 1] = RunTask(t) /\ s[1] = RunTask(t) /\ i + 1 \in DOMAIN s /\ 1 \in DOMAIN s
    BY <1>1, <1>2, <1>4, <2>1
  <2>3. i + 1 = 1
    BY <2>2 DEF Once
  <2>4. QED
    BY <2>3, <1>1
<1>5. QED
  BY <1>3, <1>4

LEMMA OnceConcat ==
  ASSUME NEW s \in Seq(Messages), NEW u \in Seq(Messages), Once(s), Once(u),
         \A t \in Tasks : ~(Has(s, RunTask(t)) /\ Has(u, RunTask(t)))
  PROVE  Once(s \o u)
<1>1. /\ Len(s \o u) = Len(s) + Len(u) /\ Len(s) \in Nat /\ Len(u) \in Nat
      /\ \A i \in 1..(Len(s) + Len(u)) : (s \o u)[i] = IF i <= Len(s) THEN s[i] ELSE u[i - Len(s)]
  OBVIOUS
<1>2. DOMAIN s = 1..Len(s) /\ DOMAIN u = 1..Len(u) /\ DOMAIN (s \o u) = 1..(Len(s) + Len(u))
  BY <1>1
<1>3. SUFFICES ASSUME NEW i \in 1..(Len(s) + Len(u)), NEW j \in 1..(Len(s) + Len(u)), NEW t \in Tasks,
                      (s \o u)[i] = RunTask(t), (s \o u)[j] = RunTask(t)
               PROVE  i = j
  BY <1>2 DEF Once
<1>4. CASE i <= Len(s) /\ j <= Len(s)
  <2>1. i \in DOMAIN s /\ j \in DOMAIN s /\ s[i] = RunTask(t) /\ s[j] = RunTask(t)
    BY <1>1, <1>2, <1>3, <1>4
  <2>2. QED
    BY <2>1 DEF Once
<1>5. CASE ~(i <= Len(s)) /\ ~(j <= Len(s))
  <2>1. /\ i - Len(s) \in DOMAIN u /\ j - Len(s) \in DOMAIN u
        /\ u[i - Len(s)] = RunTask(t) /\ u[j - Len(s)] = RunTask(t)
    BY <1>1, <1>2, <1>3, <1>5
  <2>2. i - Len(s) = j - Len(s)
    BY <2>1 DEF Once
  <2>3. QED
    BY <2>2, <1>1
<1>6. CASE i <= Len(s) /\ ~(j <= Len(s))
  <2>1. i \in DOMAIN s /\ s[i] = RunTask(t) /\ j - Len(s) \in DOMAIN u /\ u[j - Len(s)] = RunTask(t)
    BY <1>1, <1>2, <1>3, <1>6
  <2>2. QED
    BY <2>1 DEF Has
<1>7. CASE ~(i <= Len(s)) /\ j <= Len(s)
  <2>1. j \in DOMAIN s /\ s[j] = RunTask(t) /\ i - Len(s) \in DOMAIN u /\ u[i - Len(s)] = RunTask(t)
    BY <1>1, <1>2, <1>3, <1>7
  <2>2. QED
    BY <2>1 DEF Has
<1>8. QED
  BY <1>4, <1>5, <1>6, <1>7

\* Reports, in terms of Has.
LEMMA ReportsHas ==
  ASSUME NEW s \in Seq(ExitCodes), NEW t
  PROVE  Reports(s, t) <=> \E e \in ExitCodes : e.task = t /\ Has(s, e)
  BY DEF Reports, Has

LEMMA ReportsAppend ==
  ASSUME NEW s \in Seq(ExitCodes), NEW e \in ExitCodes, NEW t
  PROVE  Append(s, e) \in Seq(ExitCodes) /\ (Reports(Append(s, e), t) <=> Reports(s, t) \/ e.task = t)
<1>1. Append(s, e) \in Seq(ExitCodes)
  OBVIOUS
<1>2. \A m : Has(Append(s, e), m) <=> Has(s, m) \/ m = e
  BY HasAppend
<1>3. QED
  BY <1>1, <1>2, ReportsHas

LEMMA ReportsTail ==
  ASSUME NEW s \in Seq(ExitCodes), s # <<>>, NEW t
  PROVE  /\ Head(s) \in ExitCodes /\ Tail(s) \in Seq(ExitCodes)
         /\ Reports(s, t) <=> Head(s).task = t \/ Reports(Tail(s), t)
<1>1. Head(s) \in ExitCodes /\ Tail(s) \in Seq(ExitCodes)
  OBVIOUS
<1>2. \A m : Has(s, m) <=> m = Head(s) \/ Has(Tail(s), m)
  BY HasTail
<1>3. QED
  BY <1>1, <1>2, ReportsHas

LEMMA ReportsEmpty == ASSUME NEW t PROVE ~Reports(<<>>, t)
  BY DEF Reports

\* The messages are what they seem.
LEMMA MessageKinds ==
  /\ FinishNow \in Messages /\ Quit \in Messages /\ \A t \in Tasks : RunTask(t) \in Messages
  /\ \A t \in Tasks : RunTask(t) # FinishNow /\ RunTask(t) # Quit /\ RunTask(t).task = t
  /\ Quit # FinishNow
  /\ \A t, u \in Tasks : RunTask(t) = RunTask(u) => t = u
  /\ \A m \in Messages : m.kind = "runtask" => m.task \in Tasks /\ m = RunTask(m.task)
  /\ \A m \in Messages : m.kind = "finishnow" => m = FinishNow
<1>1. \A t \in Tasks : RunTask(t).kind = "runtask" /\ RunTask(t).task = t
  BY DEF RunTask
<1>2. FinishNow.kind = "finishnow" /\ Quit.kind = "quit"
  BY DEF FinishNow, Quit
<1>3. QED
  BY <1>1, <1>2 DEF Messages

-----------------------------------------------------------------------------
(* Types                                                                   *)

USE DEF Done, Dead

LEMMA VerdictType == Verdict \in States /\ Verdict # "running" /\ Verdict # "cleanup"
  BY DEF Verdict, States

\* The parts of TypeOK
Stages == ReadStage \cup {"idle", "next", "enter", "finish", "send", "teardown", "drain",
                         "disk", "ended", "gone"}
ExecutorType ==
  /\ state \in States
  /\ pc \in Stages
  /\ todo \subseteq Workers /\ started \subseteq Workers /\ teardown \in BOOLEAN
  /\ given \subseteq Tasks /\ live \subseteq given /\ failed \subseteq Tasks
  /\ checked \subseteq DOMAIN DiskMon /\ trigger \subseteq DOMAIN DiskMon
  /\ request \in {"none", "stop", "force"}
  /\ outcome \in {"none", "ok", "TaskFailure", "exception"}
PipeType ==
  /\ stdin \in [Workers -> Seq(Messages)] /\ eof \in [Workers -> BOOLEAN]
  /\ stdout \in [Workers -> Seq(ExitCodes)]
WorkerType ==
  /\ wpc \in [Workers -> {"absent", "select", "pass", "hunt", "wait", "reap", "join", "dead"}]
  /\ rank \in [Workers -> 0..2] /\ dying \in [Workers -> BOOLEAN]
  /\ queue \in [Workers -> Seq(Messages)] /\ outq \in [Workers -> Seq(ExitCodes)]
  /\ build_pids \in [Workers -> SUBSET Tasks] /\ hunt \in [Workers -> SUBSET Tasks]
ProcessType ==
  /\ child \in [Tasks -> {"none", "forked", "guarded", "session", "exit0", "exit1", "reaped"}]
  /\ term \in [Tasks -> BOOLEAN]
RestType == build \in Builds /\ halted \in BOOLEAN /\ deaths \in 0..MaxDeaths

LEMMA TypeParts == TypeOK <=> ExecutorType /\ PipeType /\ WorkerType /\ ProcessType /\ RestType
BY DEF TypeOK, Stages, ExecutorType, PipeType, WorkerType, ProcessType, RestType

LEMMA NextParts == ExecutorType' /\ PipeType' /\ WorkerType' /\ ProcessType' /\ RestType' => TypeOK'
BY DEF TypeOK, Stages, ExecutorType, PipeType, WorkerType, ProcessType, RestType

\* What a step leaves alone keeps its type.
LEMMA TypeFrame ==
  ASSUME TypeOK
  PROVE  /\ UNCHANGED executor => ExecutorType'
         /\ UNCHANGED pipes => PipeType'
         /\ UNCHANGED worker => WorkerType'
         /\ UNCHANGED process => ProcessType'
         /\ UNCHANGED <<build, halted, deaths>> => RestType'
<1>1. ASSUME UNCHANGED executor PROVE ExecutorType'
  BY <1>1 DEF TypeOK, ExecutorType, Stages, executor
<1>2. ASSUME UNCHANGED pipes PROVE PipeType'
  BY <1>2 DEF TypeOK, PipeType, pipes
<1>3. ASSUME UNCHANGED worker PROVE WorkerType'
  BY <1>3 DEF TypeOK, WorkerType, worker
<1>4. ASSUME UNCHANGED process PROVE ProcessType'
  BY <1>4 DEF TypeOK, ProcessType, process
<1>5. ASSUME UNCHANGED <<build, halted, deaths>> PROVE RestType'
  BY <1>5 DEF TypeOK, RestType
<1> QED BY <1>1, <1>2, <1>3, <1>4, <1>5

\* Where the executor may go
Ways == {"read1", "send", "idle", "next", "enter", "finish", "teardown", "disk"}

LEMMA ControlType ==
  ASSUME TypeOK, NEW st \in States, NEW stage \in ReadStage,
         Settle(st) \/ execute_runqueue(st) \/ Return(st) \/ AfterRead(stage, st) \/ \E p \in Ways : GoTo(p)
  PROVE  pc' \in Ways /\ todo' \subseteq Workers /\ teardown' \in BOOLEAN
<1> DEFINE Fine == pc' \in Ways /\ todo' \subseteq Workers /\ teardown' \in BOOLEAN
<1>1. ASSUME NEW p \in Ways, GoTo(p) PROVE Fine
  BY <1>1 DEF GoTo, TypeOK
<1>2. ASSUME Settle(st) PROVE Fine
  BY <1>2 DEF Settle, TypeOK, Ways
<1>3. ASSUME execute_runqueue(st) PROVE Fine
  <2>1. CASE st = "running"
    BY <1>3, <2>1 DEF execute_runqueue, TypeOK, Ways
  <2>2. CASE st = "cleanup"
    BY <1>1, <1>3, <2>2 DEF execute_runqueue, Ways
  <2>3. CASE st \notin {"running", "cleanup"}
    BY <1>2, <1>3, <2>3 DEF execute_runqueue
  <2> QED BY <2>1, <2>2, <2>3
<1>4. ASSUME Return(st) PROVE Fine
  BY <1>1, <1>2, <1>4 DEF Return, Ways
<1>5. ASSUME AfterRead(stage, st) PROVE Fine
  <2>1. CASE stage = "read2"
    BY <1>4, <1>5, <2>1 DEF AfterRead
  <2>2. CASE stage = "readFinish"
    BY <1>2, <1>5, <2>2 DEF AfterRead
  <2>3. CASE stage \in {"read1", "readStop", "readDisk"}
    <3>1. \E p \in Ways : GoTo(p)
      BY <1>5, <2>3 DEF AfterRead, Ways
    <3> QED BY <1>1, <3>1
  <2> QED BY <2>1, <2>2, <2>3 DEF ReadStage
<1> QED BY <1>1, <1>2, <1>3, <1>4, <1>5

LEMMA SendFinishNowType ==
  ASSUME TypeOK, SendFinishNow PROVE stdin' \in [Workers -> Seq(Messages)]
BY MessageKinds DEF TypeOK, SendFinishNow

LEMMA BookType ==
  ASSUME TypeOK, NEW w \in Workers, NEW st \in States, Book(w, st)
  PROVE  /\ live' \subseteq live /\ failed' \subseteq Tasks /\ state' \in {"cleanup", st}
         /\ stdout' \in [Workers -> Seq(ExitCodes)]
<1>0. stdout \in [Workers -> Seq(ExitCodes)] /\ failed \subseteq Tasks
  BY DEF TypeOK
<1>1. \A i \in DOMAIN stdout[w] : stdout[w][i] \in ExitCodes /\ stdout[w][i].task \in Tasks
  <2>1. stdout[w] \in Seq(ExitCodes)
    BY <1>0
  <2>2. \A e \in ExitCodes : e.task \in Tasks
    BY DEF ExitCodes
  <2> QED BY <2>1, <2>2
<1>2. <<>> \in Seq(ExitCodes)
  OBVIOUS
<1>3. stdout' \in [Workers -> Seq(ExitCodes)]
  BY <1>0, <1>2 DEF Book
<1>4. live' \subseteq live /\ state' \in {"cleanup", st}
  BY DEF Book
<1>5. failed' \subseteq Tasks
  <2> DEFINE exits == {stdout[w][i] : i \in DOMAIN stdout[w]}
             bad == {e.task : e \in {x \in exits : x.status # 0}} \ Setscene
  <2>1. failed' = failed \cup bad
    BY DEF Book
  <2>2. \A e \in exits : e.task \in Tasks
    BY <1>1
  <2>3. bad \subseteq Tasks
    BY <2>2
  <2> QED BY <1>0, <2>1, <2>3
<1> QED BY <1>3, <1>4, <1>5

LEMMA FinishType ==
  ASSUME TypeOK, NEW stage \in ReadStage, finish(stage)
  PROVE  /\ state' \in States /\ todo' \subseteq Workers /\ teardown' \in BOOLEAN
         /\ pc' \in ReadStage \cup Ways
<1>1. CASE live # {} /\ started # {}
  BY <1>1 DEF finish, TypeOK, States
<1>2. CASE live # {} /\ started = {}
  BY <1>2, ControlType DEF finish, States
<1>3. CASE live = {}
  BY <1>3, ControlType, VerdictType DEF finish
<1> QED BY <1>1, <1>2, <1>3

LEMMA DieType ==
  ASSUME TypeOK, NEW w \in Workers, Die(w)
  PROVE  WorkerType' /\ ProcessType' /\ stdin' \in [Workers -> Seq(Messages)]
<1>1. <<>> \in Seq(Messages) /\ <<>> \in Seq(ExitCodes)
  OBVIOUS
<1>2. \A t \in Tasks : (term[t] \/ (WorkerOf[t] = w /\ child[t] \in {"guarded", "session"})) \in BOOLEAN
  BY Zenon DEF TypeOK
<1>3. term' \in [Tasks -> BOOLEAN]
  BY <1>2 DEF Die
<1>4. child' \in [Tasks -> {"none", "forked", "guarded", "session", "exit0", "exit1", "reaped"}]
  BY DEF Die, TypeOK
<1>5. queue' \in [Workers -> Seq(Messages)] /\ stdin' \in [Workers -> Seq(Messages)] /\ outq' \in [Workers -> Seq(ExitCodes)]
  BY <1>1 DEF Die, TypeOK
<1>6. /\ wpc' \in [Workers -> {"absent", "select", "pass", "hunt", "wait", "reap", "join", "dead"}]
      /\ rank' \in [Workers -> 0..2] /\ dying' \in [Workers -> BOOLEAN]
      /\ build_pids' \in [Workers -> SUBSET Tasks] /\ hunt' \in [Workers -> SUBSET Tasks]
  BY DEF Die, TypeOK
<1> QED BY <1>3, <1>4, <1>5, <1>6 DEF WorkerType, ProcessType

LEMMA ExecutorTypes ==
  ASSUME TypeOK, ExecutorStep
  PROVE  TypeOK'
<1>0. ExecutorType /\ PipeType /\ WorkerType /\ ProcessType /\ RestType
  BY TypeParts
<1>a. ReadStage \cup Ways \subseteq Stages /\ {"drain", "ended", "teardown", "idle"} \subseteq Stages
  BY DEF Ways, ReadStage, Stages
<1>1. ASSUME NEW w \in Workers, read(w) PROVE TypeOK'
  <2>1. /\ WorkerType' /\ ProcessType' /\ eof' = eof /\ build' = build /\ deaths' = deaths
        /\ UNCHANGED <<started, given, checked, trigger, request, outcome>>
    BY <1>1, TypeFrame DEF read
  <2>2. PICK st \in States : Book(w, st)
    BY <1>1, VerdictType DEF read, TypeOK
  <2>3. live' \subseteq live /\ failed' \subseteq Tasks /\ state' \in States /\ stdout' \in [Workers -> Seq(ExitCodes)]
    BY <2>2, BookType DEF States
  <2>4. stdin' \in [Workers -> Seq(Messages)] /\ halted' \in BOOLEAN
    BY <1>1, SendFinishNowType DEF read, TypeOK
  <2>5. pc' \in ReadStage \cup Ways /\ todo' \subseteq Workers /\ teardown' \in BOOLEAN
    <3>1. CASE todo = {w}
      BY <1>1, <2>3, <3>1, ControlType DEF read
    <3>2. CASE todo # {w}
      BY <1>1, <3>2 DEF read, TypeOK
    <3> QED BY <3>1, <3>2
  <2>6. ExecutorType'
    BY <1>0, <1>a, <2>1, <2>3, <2>5 DEF ExecutorType
  <2>7. PipeType' /\ RestType'
    BY <1>0, <2>1, <2>3, <2>4 DEF PipeType, RestType
  <2> QED BY <2>1, <2>6, <2>7, NextParts
<1>2. ASSUME NEW w \in Workers, TeardownSend(w) PROVE TypeOK'
  <2>1. WorkerType' /\ ProcessType' /\ RestType'
    BY <1>2, TypeFrame DEF TeardownSend
  <2>2. ExecutorType'
    BY <1>0, <1>a, <1>2 DEF TeardownSend, ExecutorType
  <2>3. stdin' \in [Workers -> Seq(Messages)]
    <3>1. Append(stdin[w], Quit) \in Seq(Messages)
      BY <1>0, MessageKinds DEF PipeType
    <3> QED BY <1>0, <1>a, <1>2, <3>1 DEF TeardownSend, PipeType
  <2>4. PipeType'
    BY <1>0, <1>a, <1>2, <2>3 DEF TeardownSend, PipeType
  <2> QED BY <2>1, <2>2, <2>4, NextParts
<1>3. ASSUME NEW w \in Workers, TeardownRead(w) PROVE TypeOK'
  <2>1. WorkerType' /\ ProcessType' /\ RestType'
    BY <1>3, TypeFrame DEF TeardownRead
  <2>2. /\ live' \subseteq live /\ failed' \subseteq Tasks /\ state' \in States
        /\ stdout' \in [Workers -> Seq(ExitCodes)]
    <3>1. CASE Book(w, state)
      BY <1>0, <3>1, BookType DEF ExecutorType, States
    <3>2. CASE UNCHANGED <<state, live, failed, stdout>>
      BY <1>0, <3>2 DEF ExecutorType, PipeType
    <3> QED BY <1>3, <3>1, <3>2 DEF TeardownRead
  <2>3. pc' \in Stages /\ todo' \subseteq Workers
    BY <1>0, <1>a, <1>3 DEF TeardownRead, ExecutorType
  <2>4. UNCHANGED <<started, teardown, given, checked, trigger, request, outcome, stdin, eof>>
    BY <1>3 DEF TeardownRead
  <2>5. ExecutorType' /\ PipeType'
    BY <1>0, <2>2, <2>3, <2>4 DEF ExecutorType, PipeType
  <2> QED BY <2>1, <2>5, NextParts
<1>4. ASSUME NEW t \in Tasks, SendTask(t) PROVE TypeOK'
  <2> DEFINE w == WorkerOf[t]
  <2>0. w \in Workers
    BY WorkerAssumption
  <2>1. ProcessType'
    BY <1>4, TypeFrame DEF SendTask
  <2>2. RestType'
    BY <1>0, <1>a, <1>4 DEF SendTask, RestType
  <2>3. PipeType' /\ WorkerType'
    <3>1. Append(stdin[w], RunTask(t)) \in Seq(Messages)
      BY <1>0, <2>0, MessageKinds DEF PipeType
    <3>2. stdin' \in [Workers -> Seq(Messages)]
      BY <1>0, <1>a, <1>4, <2>0, <3>1 DEF SendTask, PipeType
    <3>3. wpc' \in [Workers -> {"absent", "select", "pass", "hunt", "wait", "reap", "join", "dead"}]
      BY <1>0, <1>a, <1>4, <2>0 DEF SendTask, WorkerType
    <3> QED BY <1>0, <1>a, <1>4, <3>2, <3>3 DEF SendTask, PipeType, WorkerType
  <2>4. started' \subseteq Workers /\ given' \subseteq Tasks /\ live' \subseteq given'
    BY <1>0, <1>a, <1>4, <2>0 DEF SendTask, ExecutorType
  <2>5. pc' \in ReadStage \cup Ways /\ todo' \subseteq Workers /\ teardown' \in BOOLEAN
    <3>1. CASE \E st \in States : Settle(st) \/ Return(st)
      <4>1. "read1" \in ReadStage
        BY DEF ReadStage
      <4> QED BY <3>1, <4>1, ControlType
    <3>2. CASE pc' \in {"read2", "teardown"} /\ todo' = started \cup {w} /\ teardown' \in {teardown, TRUE}
      BY <1>0, <2>0, <3>2 DEF ExecutorType, ReadStage, Ways
    <3> QED BY <1>0, <1>a, <1>4, <3>1, <3>2 DEF SendTask, ExecutorType, States
  <2>6. outcome' \in {outcome, "exception"}
    BY <1>4 DEF SendTask
  <2>7. ExecutorType'
    BY <1>0, <1>a, <1>4, <2>4, <2>5, <2>6 DEF SendTask, ExecutorType
  <2> QED BY <2>1, <2>2, <2>3, <2>7, NextParts
<1>5. CASE buildTargetsIdle
  <2>1. WorkerType' /\ ProcessType'
    BY <1>5, TypeFrame DEF buildTargetsIdle
  <2>2. PipeType' /\ RestType'
    BY <1>0, <1>a, <1>5, SendFinishNowType DEF buildTargetsIdle, PipeType, RestType
  <2>3. state' \in States /\ pc' \in ReadStage \cup Ways /\ todo' \subseteq Workers /\ teardown' \in BOOLEAN
    <3>1. "readStop" \in ReadStage /\ "enter" \in Ways
      BY DEF ReadStage, Ways
    <3>2. CASE GoTo("enter") /\ (state' = state \/ state' = Verdict)
      <4>1. state' \in States
        BY <1>0, <3>2, VerdictType DEF ExecutorType
      <4> QED BY <3>1, <3>2, <4>1, ControlType
    <3>3. CASE finish("readStop")
      BY <3>1, <3>3, FinishType
    <3> QED BY <1>5, <3>2, <3>3 DEF buildTargetsIdle
  <2>4. ExecutorType'
    BY <1>0, <1>a, <1>5, <2>3 DEF buildTargetsIdle, ExecutorType
  <2> QED BY <2>1, <2>2, <2>4, NextParts
<1>6. CASE EnterRunqueue
  <2>1. PipeType' /\ WorkerType' /\ ProcessType'
    BY <1>6, TypeFrame DEF EnterRunqueue
  <2>2. pc' \in Ways /\ todo' \subseteq Workers /\ teardown' \in BOOLEAN
    <3>1. "complete" \in States /\ state \in States /\ "read1" \in ReadStage
      BY <1>0 DEF ExecutorType, States, ReadStage
    <3> QED BY <1>6, <3>1, ControlType DEF EnterRunqueue
  <2>3. ExecutorType' /\ RestType'
    BY <1>0, <1>a, <1>6, <2>2 DEF EnterRunqueue, ExecutorType, RestType
  <2> QED BY <2>1, <2>3, NextParts
<1>7. CASE FinishStep
  <2>1. PipeType' /\ WorkerType' /\ ProcessType' /\ RestType'
    BY <1>7, TypeFrame DEF FinishStep
  <2>2. CASE live # {} /\ started = {}
    <3>1. ExecutorType'
      BY <1>0, <1>a, <1>7, <2>2 DEF FinishStep, ExecutorType, GoTo
    <3> QED BY <2>1, <3>1, NextParts
  <2>3. CASE ~(live # {} /\ started = {})
    <3>1. "readFinish" \in ReadStage /\ finish("readFinish") /\ outcome' = outcome
      BY <1>7, <2>3 DEF FinishStep, ReadStage
    <3>2. ExecutorType'
      BY <1>0, <1>a, <1>7, <3>1, FinishType DEF FinishStep, ExecutorType, Ways
    <3> QED BY <2>1, <3>2, NextParts
  <2> QED BY <2>2, <2>3
<1>8. CASE SendNone
  <2>1. PipeType' /\ WorkerType' /\ ProcessType' /\ RestType'
    BY <1>8, TypeFrame DEF SendNone
  <2>2. state' \in States /\ pc' \in ReadStage \cup Ways /\ todo' \subseteq Workers /\ teardown' \in BOOLEAN
    <3>1. CASE live # {}
      BY <1>0, <1>a, <1>8, <3>1 DEF SendNone, ExecutorType, ReadStage
    <3>2. CASE live = {}
      <4>1. "read1" \in ReadStage
        BY DEF ReadStage
      <4> QED BY <1>8, <3>2, <4>1, VerdictType, ControlType DEF SendNone
    <3> QED BY <3>1, <3>2
  <2>3. ExecutorType'
    BY <1>0, <1>a, <1>8, <2>2 DEF SendNone, ExecutorType
  <2> QED BY <2>1, <2>3, NextParts
<1>9. CASE TeardownEnd
  <2>1. PipeType' /\ WorkerType' /\ ProcessType' /\ RestType'
    BY <1>9, TypeFrame DEF TeardownEnd
  <2>2. outcome' \in {outcome, "exception", "TaskFailure", "ok"} /\ pc' \in {"ended", "idle"}
    BY <1>9 DEF TeardownEnd
  <2>3. UNCHANGED <<state, todo, teardown, live, given, failed, checked, trigger, request>> /\ started' = {}
    BY <1>9 DEF TeardownEnd
  <2>4. ExecutorType'
    BY <1>0, <1>a, <2>2, <2>3 DEF ExecutorType
  <2> QED BY <2>1, <2>4, NextParts
<1> QED BY <1>1, <1>2, <1>3, <1>4, <1>5, <1>6, <1>7, <1>8, <1>9 DEF ExecutorStep

LEMMA OutsideTypes ==
  ASSUME TypeOK, DiskCheck \/ DiskEntry \/ CookerDies \/ \E r \in build.requests : RequestShutdown(r)
  PROVE  TypeOK'
<1>0. ExecutorType /\ PipeType /\ WorkerType /\ ProcessType /\ RestType
  BY TypeParts
<1>a. ReadStage \cup Ways \subseteq Stages /\ {"gone", "disk", "readDisk"} \subseteq Stages
  BY DEF Ways, ReadStage, Stages
<1>1. CASE DiskCheck
  <2>1. PipeType' /\ WorkerType' /\ ProcessType' /\ RestType'
    BY <1>1, TypeFrame DEF DiskCheck
  <2>2. build.disk \subseteq DOMAIN DiskMon
    BY <1>0, BuildAssumption DEF RestType
  <2>3. trigger' \subseteq DOMAIN DiskMon
    BY <1>1, <2>2 DEF DiskCheck
  <2>4. ExecutorType'
    BY <1>0, <1>1, <1>a, <2>3 DEF DiskCheck, ExecutorType
  <2> QED BY <2>1, <2>4, NextParts
<1>2. CASE DiskEntry
  <2>1. WorkerType' /\ ProcessType'
    BY <1>2, TypeFrame DEF DiskEntry
  <2>2. PipeType' /\ RestType'
    BY <1>0, <1>2, SendFinishNowType DEF DiskEntry, PipeType, RestType
  <2>3. state' \in States /\ pc' \in Stages /\ todo' \subseteq Workers /\ teardown' \in BOOLEAN
    <3>1. state' \in States
      BY <1>2, VerdictType DEF DiskEntry, States
    <3>2. CASE pc' = "readDisk" /\ todo' = started /\ teardown' = teardown
      BY <1>0, <1>a, <3>1, <3>2 DEF ExecutorType
    <3>3. CASE GoTo("next") \/ GoTo("disk")
      <4>1. "next" \in Ways /\ "disk" \in Ways /\ "read1" \in ReadStage
        BY DEF Ways, ReadStage
      <4> QED BY <1>a, <3>1, <3>3, <4>1, ControlType
    <3> QED BY <1>2, <3>2, <3>3 DEF DiskEntry
  <2>4. /\ checked' \subseteq DOMAIN DiskMon /\ trigger' \subseteq DOMAIN DiskMon
        /\ UNCHANGED <<started, live, given, failed, request, outcome>>
    BY <1>0, <1>2 DEF DiskEntry, ExecutorType
  <2>5. ExecutorType'
    BY <1>0, <2>3, <2>4 DEF ExecutorType
  <2> QED BY <2>1, <2>2, <2>5, NextParts
<1>3. CASE CookerDies
  <2>1. WorkerType' /\ ProcessType'
    BY <1>3, TypeFrame DEF CookerDies
  <2>2. ExecutorType'
    BY <1>3, <1>a DEF CookerDies, ExecutorType, States
  <2>3. PipeType'
    <3>1. <<>> \in Seq(ExitCodes)
      OBVIOUS
    <3> QED BY <1>0, <1>3, <3>1 DEF CookerDies, PipeType
  <2>4. RestType'
    BY <1>0, <1>3 DEF CookerDies, RestType
  <2> QED BY <2>1, <2>2, <2>3, <2>4, NextParts
<1>4. ASSUME NEW r \in build.requests, RequestShutdown(r) PROVE TypeOK'
  <2>1. PipeType' /\ WorkerType' /\ ProcessType' /\ RestType'
    BY <1>4, TypeFrame DEF RequestShutdown
  <2>2. r \in {"stop", "force"}
    BY <1>0, BuildAssumption DEF RestType
  <2>3. ExecutorType'
    BY <1>0, <1>4, <2>2 DEF RequestShutdown, ExecutorType
  <2> QED BY <2>1, <2>3, NextParts
<1> QED BY <1>1, <1>2, <1>3, <1>4

LEMMA WorkerTypes ==
  ASSUME TypeOK, NEW w \in Workers, WorkerStep(w) \/ worker_flush(w) \/ ForkFails(w) \/ WorkerDies(w)
  PROVE  TypeOK'
<1>0. ExecutorType /\ PipeType /\ WorkerType /\ ProcessType /\ RestType
  BY TypeParts
<1>a. /\ queue[w] \in Seq(Messages) /\ stdin[w] \in Seq(Messages)
      /\ outq[w] \in Seq(ExitCodes) /\ stdout[w] \in Seq(ExitCodes)
  BY <1>0 DEF PipeType, WorkerType
<1>b. ASSUME NEW k, HeadIs(w, k) PROVE Head(queue[w]) \in Messages /\ Tail(queue[w]) \in Seq(Messages)
  BY <1>a, <1>b DEF HeadIs
<1>1. CASE Select(w)
  <2>1. ExecutorType' /\ ProcessType' /\ RestType'
    BY <1>1, TypeFrame DEF Select
  <2>2. /\ queue[w] \o stdin[w] \in Seq(Messages) /\ <<>> \in Seq(Messages)
    BY <1>a
  <2>3. stdin' \in [Workers -> Seq(Messages)] /\ queue' \in [Workers -> Seq(Messages)]
    <3>1. \/ /\ stdin' = [stdin EXCEPT ![w] = <<>>]
             /\ queue' = [queue EXCEPT ![w] = queue[w] \o stdin[w]]
          \/ UNCHANGED <<stdin, queue>>
      BY <1>1 DEF Select
    <3>2. stdin \in [Workers -> Seq(Messages)] /\ queue \in [Workers -> Seq(Messages)]
      BY <1>0 DEF PipeType, WorkerType
    <3> QED BY <2>2, <3>1, <3>2
  <2>4. PipeType'
    BY <1>0, <1>1, <2>3 DEF Select, PipeType
  <2>5. /\ wpc' \in [Workers -> {"absent", "select", "pass", "hunt", "wait", "reap", "join", "dead"}]
        /\ rank' \in [Workers -> 0..2] /\ dying' \in [Workers -> BOOLEAN]
        /\ hunt' \in [Workers -> SUBSET Tasks]
    <3>1. \E x \in {"pass", "hunt"} : wpc' = [wpc EXCEPT ![w] = x]
      BY <1>1 DEF Select
    <3>2. hunt' = hunt \/ hunt' = [hunt EXCEPT ![w] = build_pids[w]]
      BY <1>1 DEF Select
    <3>3. dying' = dying \/ dying' = [dying EXCEPT ![w] = TRUE]
      BY <1>1 DEF Select
    <3>4. rank' = [rank EXCEPT ![w] = 0]
      BY <1>1 DEF Select
    <3>5. wpc' \in [Workers -> {"absent", "select", "pass", "hunt", "wait", "reap", "join", "dead"}]
      BY <1>0, <3>1 DEF WorkerType
    <3>6. hunt' \in [Workers -> SUBSET Tasks]
      <4>1. hunt \in [Workers -> SUBSET Tasks] /\ build_pids[w] \in SUBSET Tasks
        BY <1>0 DEF WorkerType
      <4> QED BY <3>2, <4>1
    <3>7. dying' \in [Workers -> BOOLEAN]
      <4>1. dying \in [Workers -> BOOLEAN]
        BY <1>0 DEF WorkerType
      <4> QED BY <3>3, <4>1
    <3>8. rank' \in [Workers -> 0..2]
      BY <1>0, <3>4 DEF WorkerType
    <3> QED BY <3>5, <3>6, <3>7, <3>8
  <2>6. WorkerType'
    BY <1>0, <1>1, <2>3, <2>5 DEF Select, WorkerType
  <2> QED BY <2>1, <2>4, <2>6, NextParts
<1>2. CASE handle_runtask(w)
  <2>1. ExecutorType' /\ PipeType' /\ RestType'
    BY <1>2, TypeFrame DEF handle_runtask
  <2>2. Head(queue[w]).task \in Tasks
    BY <1>2, <1>b, MessageKinds DEF handle_runtask, HeadIs
  <2>3. ProcessType'
    BY <1>0, <1>2, <2>2 DEF handle_runtask, ProcessType
  <2>4. queue' \in [Workers -> Seq(Messages)]
    BY <1>0, <1>2, <1>b DEF handle_runtask, WorkerType
  <2>5. build_pids' \in [Workers -> SUBSET Tasks] /\ rank' \in [Workers -> 0..2]
    BY <1>0, <1>2, <2>2 DEF handle_runtask, WorkerType
  <2>6. WorkerType'
    BY <1>0, <1>2, <2>4, <2>5 DEF handle_runtask, WorkerType
  <2> QED BY <2>1, <2>3, <2>6, NextParts
<1>3. CASE handle_finishnow(w)
  <2>1. ExecutorType' /\ PipeType' /\ ProcessType' /\ RestType'
    BY <1>3, TypeFrame DEF handle_finishnow
  <2>2. queue' \in [Workers -> Seq(Messages)]
    BY <1>0, <1>3, <1>b DEF handle_finishnow, WorkerType
  <2>3. /\ wpc' \in [Workers -> {"absent", "select", "pass", "hunt", "wait", "reap", "join", "dead"}]
        /\ rank' \in [Workers -> 0..2] /\ hunt' \in [Workers -> SUBSET Tasks]
    BY <1>0, <1>3 DEF handle_finishnow, WorkerType
  <2>4. WorkerType'
    BY <1>0, <1>3, <2>2, <2>3 DEF handle_finishnow, WorkerType
  <2> QED BY <2>1, <2>4, NextParts
<1>4. ASSUME NEW t \in Tasks, Kill(w, t) PROVE TypeOK'
  <2>1. ExecutorType' /\ PipeType' /\ RestType'
    BY <1>4, TypeFrame DEF Kill
  <2>2. ProcessType' /\ WorkerType'
    BY <1>0, <1>4 DEF Kill, ProcessType, WorkerType
  <2> QED BY <2>1, <2>2, NextParts
<1>5. CASE WaitAny(w)
  <2>1. ExecutorType' /\ PipeType' /\ RestType'
    BY <1>5, TypeFrame DEF WaitAny
  <2>2. ProcessType' /\ WorkerType'
    BY <1>0, <1>5 DEF WaitAny, Zombies, ChildrenOf, ProcessType, WorkerType
  <2> QED BY <2>1, <2>2, NextParts
<1>6. ASSUME Die(w), UNCHANGED <<executor, eof, stdout, halted, build>>, deaths' \in 0..MaxDeaths PROVE TypeOK'
  <2>1. ExecutorType'
    BY <1>6, TypeFrame
  <2>2. WorkerType' /\ ProcessType' /\ stdin' \in [Workers -> Seq(Messages)]
    BY <1>6, DieType
  <2>3. PipeType' /\ RestType'
    BY <1>0, <1>6, <2>2 DEF PipeType, RestType
  <2> QED BY <2>1, <2>2, <2>3, NextParts
<1>7. CASE HuntReturn(w)
  <2>1. CASE dying[w]
    BY <1>0, <1>6, <1>7, <2>1 DEF HuntReturn, RestType
  <2>2. CASE ~dying[w]
    <3>1. ExecutorType' /\ PipeType' /\ RestType' /\ ProcessType'
      BY <1>7, <2>2, TypeFrame DEF HuntReturn, pipes
    <3>2. WorkerType'
      BY <1>0, <1>7, <2>2 DEF HuntReturn, WorkerType
    <3> QED BY <3>1, <3>2, NextParts
  <2> QED BY <2>1, <2>2
<1>8. CASE handle_quit(w) \/ EndPass(w)
  <2>1. ExecutorType' /\ PipeType' /\ ProcessType' /\ RestType'
    BY <1>8, TypeFrame DEF handle_quit, EndPass
  <2>2. WorkerType'
    BY <1>0, <1>8 DEF handle_quit, EndPass, WorkerType
  <2> QED BY <2>1, <2>2, NextParts
<1>9. CASE process_waitpid(w)
  <2>1. ExecutorType' /\ PipeType' /\ RestType'
    BY <1>9, TypeFrame DEF process_waitpid
  <2>2. PICK t \in Zombies(w) :
         /\ child' = [child EXCEPT ![t] = "reaped"]
         /\ build_pids' = [build_pids EXCEPT ![w] = @ \ {t}]
         /\ outq' = [outq EXCEPT ![w] = Append(@, [task |-> t, status |-> IF child[t] = "exit0" THEN 0 ELSE 1])]
         /\ wpc' = [wpc EXCEPT ![w] = IF Zombies(w) = {t} THEN "select" ELSE "reap"]
    BY <1>9 DEF process_waitpid
  <2>3. t \in Tasks
    BY DEF Zombies, ChildrenOf
  <2>4. [task |-> t, status |-> IF child[t] = "exit0" THEN 0 ELSE 1] \in ExitCodes
    BY <2>3 DEF ExitCodes
  <2>5. outq' \in [Workers -> Seq(ExitCodes)]
    BY <1>0, <1>a, <2>2, <2>4 DEF WorkerType
  <2>6. ProcessType'
    BY <1>0, <1>9, <2>2, <2>3 DEF process_waitpid, ProcessType
  <2>7. /\ wpc' \in [Workers -> {"absent", "select", "pass", "hunt", "wait", "reap", "join", "dead"}]
        /\ build_pids' \in [Workers -> SUBSET Tasks]
    BY <1>0, <2>2 DEF WorkerType
  <2>8. WorkerType'
    BY <1>0, <1>9, <2>5, <2>7 DEF process_waitpid, WorkerType
  <2> QED BY <2>1, <2>6, <2>8, NextParts
<1>10. CASE worker_flush(w)
  <2>1. ExecutorType' /\ ProcessType' /\ RestType'
    BY <1>10, TypeFrame DEF worker_flush
  <2>2. Append(stdout[w], Head(outq[w])) \in Seq(ExitCodes) /\ Tail(outq[w]) \in Seq(ExitCodes)
    BY <1>10, <1>a DEF worker_flush
  <2>3. outq' \in [Workers -> Seq(ExitCodes)] /\ stdout' \in [Workers -> Seq(ExitCodes)]
    BY <1>0, <1>10, <2>2 DEF worker_flush, WorkerType, PipeType
  <2>4. PipeType' /\ WorkerType'
    BY <1>0, <1>10, <2>3 DEF worker_flush, WorkerType, PipeType
  <2> QED BY <2>1, <2>4, NextParts
<1>11. CASE ForkFails(w)
  <2>1. ExecutorType' /\ PipeType' /\ ProcessType'
    BY <1>11, TypeFrame DEF ForkFails
  <2>2. WorkerType'
    BY <1>0, <1>11 DEF ForkFails, WorkerType
  <2>3. RestType'
    BY <1>0, <1>11, BoundAssumption DEF ForkFails, RestType
  <2> QED BY <2>1, <2>2, <2>3, NextParts
<1>12. CASE Exit(w)
  BY <1>0, <1>6, <1>12 DEF Exit, RestType
<1>13. CASE WorkerDies(w)
  <2>1. deaths' \in 0..MaxDeaths
    BY <1>0, <1>13, BoundAssumption DEF WorkerDies, RestType
  <2> QED BY <1>6, <1>13, <2>1 DEF WorkerDies
<1> QED
  BY <1>1, <1>2, <1>3, <1>4, <1>5, <1>7, <1>8, <1>9, <1>10, <1>11, <1>12, <1>13 DEF WorkerStep

LEMMA ChildTypes ==
  ASSUME TypeOK, NEW t \in Tasks, ChildStart(t) \/ (\E x \in {"exit0", "exit1"} : ChildExit(t, x)) \/ ChildTerminated(t)
  PROVE  TypeOK'
<1>0. ExecutorType /\ PipeType /\ WorkerType /\ ProcessType /\ RestType
  BY TypeParts
<1>1. ExecutorType' /\ PipeType' /\ WorkerType' /\ RestType'
  BY TypeFrame DEF ChildStart, ChildExit, ChildTerminated, Ended
<1>2. ProcessType'
  <2>1. /\ \E x \in {"guarded", "session", "exit0", "exit1", "reaped"} : child' = [child EXCEPT ![t] = x]
        /\ term' = term
    BY <1>0 DEF ChildStart, ChildExit, ChildTerminated, Ended, ProcessType
  <2> QED BY <1>0, <2>1 DEF ProcessType
<1> QED BY <1>1, <1>2, NextParts

LEMMA InitTypes == Init => TypeOK
<1> SUFFICES ASSUME Init PROVE TypeOK
  OBVIOUS
<1>1. ExecutorType
  BY WorkerAssumption DEF Init, ExecutorType, Stages, States
<1>2. <<>> \in Seq(Messages) /\ <<>> \in Seq(ExitCodes)
  OBVIOUS
<1>3. PipeType /\ WorkerType
  BY <1>2 DEF Init, PipeType, WorkerType
<1>4. ProcessType
  BY DEF Init, ProcessType
<1>5. RestType
  <2>1. deaths \in 0..MaxDeaths
    BY BoundAssumption DEF Init
  <2>2. build \in Builds /\ halted \in BOOLEAN
    BY Zenon DEF Init
  <2> QED BY <2>1, <2>2 DEF RestType
<1> QED BY <1>1, <1>3, <1>4, <1>5, TypeParts

LEMMA NextTypes == TypeOK /\ [Next]_vars => TypeOK'
<1>1. ASSUME TypeOK, UNCHANGED vars PROVE TypeOK'
  BY <1>1, TypeFrame, NextParts DEF vars
<1> QED BY <1>1, ExecutorTypes, OutsideTypes, WorkerTypes, ChildTypes DEF Next, Finished

-----------------------------------------------------------------------------
(* Where a task can be                                                     *)

LEMMA HoldsHas == \A s, t : Holds(s, t) <=> Has(s, RunTask(t))
BY DEF Holds, Has

\* Messages that are no tasks
LEMMA QuietMail ==
  ASSUME NEW s \in Seq(Messages), Once(s), NEW e \in {FinishNow, Quit}
  PROVE  /\ Once(Append(s, e))
         /\ \A t \in Tasks : Holds(Append(s, e), t) <=> Holds(s, t)
         /\ \A m : Has(Append(s, e), m) <=> Has(s, m) \/ m = e
<1>1. e \in Messages /\ \A t \in Tasks : e # RunTask(t)
  BY MessageKinds
<1>2. Once(Append(s, e))
  BY <1>1, OnceAppend
<1>3. \A m : Has(Append(s, e), m) <=> Has(s, m) \/ m = e
  BY <1>1, HasAppend
<1> QED BY <1>1, <1>2, <1>3, HoldsHas

\* finish_now and _teardown_worker leave the tasks in the pipes where they are.
LEMMA QuietStdin ==
  ASSUME TypeOK, MailInv,
         \A w \in Workers : stdin'[w] = stdin[w] \/ \E e \in {FinishNow, Quit} : stdin'[w] = Append(stdin[w], e)
  PROVE  \A w \in Workers : Once(stdin'[w]) /\ \A t \in Tasks : Holds(stdin'[w], t) <=> Holds(stdin[w], t)
<1>1. \A w \in Workers : stdin[w] \in Seq(Messages) /\ Once(stdin[w])
  BY DEF TypeOK, MailInv
<1> SUFFICES ASSUME NEW w \in Workers
             PROVE  Once(stdin'[w]) /\ \A t \in Tasks : Holds(stdin'[w], t) <=> Holds(stdin[w], t)
  OBVIOUS
<1>2. CASE stdin'[w] = stdin[w]
  BY <1>1, <1>2
<1>3. ASSUME NEW e \in {FinishNow, Quit}, stdin'[w] = Append(stdin[w], e)
      PROVE  Once(stdin'[w]) /\ \A t \in Tasks : Holds(stdin'[w], t) <=> Holds(stdin[w], t)
  BY <1>1, <1>3, QuietMail
<1> QED BY <1>2, <1>3

LEMMA FinishNowStdin ==
  ASSUME SendFinishNow
  PROVE  \A w \in Workers : stdin'[w] = stdin[w] \/ \E e \in {FinishNow, Quit} : stdin'[w] = Append(stdin[w], e)
BY DEF SendFinishNow

\* A step that sends no task and forks none
LEMMA LedgerKeep ==
  ASSUME TypeOK, LedgerInv,
         \A w \in Workers : Once(stdin'[w]) /\ \A t \in Tasks : Holds(stdin'[w], t) => Holds(stdin[w], t),
         \A w \in Workers : Once(queue'[w]) /\ \A t \in Tasks : Holds(queue'[w], t) => Holds(queue[w], t),
         \A t \in Tasks : (child[t] = "none" => child'[t] = "none") /\ (child[t] = "reaped" => child'[t] = "reaped"),
         \A w \in Workers, t \in Tasks : Reports(outq'[w], t) \/ Reports(stdout'[w], t) => child'[t] = "reaped",
         given' = given, \A t \in live \ live' : child'[t] = "reaped",
         pc = "gone" => pc' = "gone"
  PROVE  LedgerInv'
<1>0. MailInv /\ SentInv /\ ReportInv /\ BookedIsOver
  BY DEF LedgerInv
<1>1. MailInv'
  BY <1>0 DEF MailInv
<1>2. SentInv'
  BY <1>0, WorkerAssumption DEF SentInv
<1>3. ReportInv'
  BY DEF ReportInv
<1>4. BookedIsOver'
  BY <1>0 DEF BookedIsOver, TypeOK
<1> QED BY <1>1, <1>2, <1>3, <1>4 DEF LedgerInv

\* The same when the worker's queue and the processes are left alone
LEMMA LedgerExecutor ==
  ASSUME TypeOK, LedgerInv, UNCHANGED <<given, worker, process>>,
         \A w \in Workers : stdin'[w] = stdin[w] \/ \E e \in {FinishNow, Quit} : stdin'[w] = Append(stdin[w], e),
         \A w \in Workers, t \in Tasks : Reports(stdout'[w], t) => Reports(stdout[w], t),
         \A t \in live \ live' : \E w \in Workers : Reports(stdout[w], t),
         pc = "gone" => pc' = "gone"
  PROVE  LedgerInv'
<1>0. MailInv /\ ReportInv
  BY DEF LedgerInv
<1>1. \A w \in Workers : Once(stdin'[w]) /\ \A t \in Tasks : Holds(stdin'[w], t) <=> Holds(stdin[w], t)
  BY <1>0, QuietStdin
<1>2. UNCHANGED <<queue, outq, child>>
  BY DEF worker, process
<1>3. \A w \in Workers : Once(queue'[w]) /\ \A t \in Tasks : Holds(queue'[w], t) => Holds(queue[w], t)
  BY <1>0, <1>2 DEF MailInv
<1>4. \A w \in Workers, t \in Tasks : Reports(outq'[w], t) \/ Reports(stdout'[w], t) => child'[t] = "reaped"
  BY <1>0, <1>2 DEF ReportInv
<1>5. \A t \in live \ live' : child'[t] = "reaped"
  BY <1>0, <1>2 DEF ReportInv, TypeOK
<1> QED BY <1>1, <1>2, <1>3, <1>4, <1>5, LedgerKeep

LEMMA BookLedger ==
  ASSUME TypeOK, NEW w \in Workers, NEW st, Book(w, st)
  PROVE  /\ \A v \in Workers, t \in Tasks : Reports(stdout'[v], t) => v # w /\ stdout'[v] = stdout[v]
         /\ \A v \in Workers \ {w} : stdout'[v] = stdout[v]
         /\ \A t \in Tasks : t \in live' <=> t \in live /\ ~Reports(stdout[w], t)
<1>1. stdout' = [stdout EXCEPT ![w] = <<>>] /\ stdout \in [Workers -> Seq(ExitCodes)]
  BY DEF Book, TypeOK
<1>2. stdout'[w] = <<>> /\ \A v \in Workers \ {w} : stdout'[v] = stdout[v]
  BY <1>1
<1>3. \A v \in Workers, t \in Tasks : Reports(stdout'[v], t) => v # w /\ stdout'[v] = stdout[v]
  BY <1>2, ReportsEmpty
<1>4. \A t \in Tasks : t \in live' <=> t \in live /\ ~Reports(stdout[w], t)
  <2> DEFINE exits == {stdout[w][i] : i \in DOMAIN stdout[w]}
  <2>1. live' = live \ {e.task : e \in exits}
    BY DEF Book
  <2>2. \A t : t \in {e.task : e \in exits} <=> Reports(stdout[w], t)
    BY DEF Reports
  <2> QED BY <2>1, <2>2
<1> QED BY <1>2, <1>3, <1>4

LEMMA LedgerExecutorStep ==
  ASSUME TypeOK, LedgerInv, ExecutorStep
  PROVE  LedgerInv'
<1>1. ASSUME NEW w \in Workers, read(w) PROVE LedgerInv'
  <2>1. PICK st : Book(w, st)
    BY <1>1 DEF read
  <2>2. stdin' = stdin \/ SendFinishNow
    BY <1>1 DEF read
  <2>3. \A v \in Workers : stdin'[v] = stdin[v] \/ \E e \in {FinishNow, Quit} : stdin'[v] = Append(stdin[v], e)
    BY <2>2, FinishNowStdin
  <2>4. \A v \in Workers, t \in Tasks : Reports(stdout'[v], t) => Reports(stdout[v], t)
    BY <2>1, BookLedger
  <2>5. \A t \in live \ live' : \E v \in Workers : Reports(stdout[v], t)
    BY <2>1, BookLedger DEF TypeOK
  <2>6. pc # "gone" /\ UNCHANGED <<given, worker, process>>
    BY <1>1 DEF read, ReadStage
  <2> QED BY <2>3, <2>4, <2>5, <2>6, LedgerExecutor
<1>2. ASSUME NEW w \in Workers, TeardownSend(w) PROVE LedgerInv'
  <2>1. \A v \in Workers : stdin'[v] = stdin[v] \/ \E e \in {FinishNow, Quit} : stdin'[v] = Append(stdin[v], e)
    BY <1>2 DEF TeardownSend, TypeOK
  <2>2. UNCHANGED <<given, live, stdout, worker, process>> /\ pc # "gone"
    BY <1>2 DEF TeardownSend
  <2> QED BY <2>1, <2>2, LedgerExecutor
<1>3. ASSUME NEW w \in Workers, TeardownRead(w) PROVE LedgerInv'
  <2>1. UNCHANGED <<given, stdin, worker, process>> /\ pc # "gone"
    BY <1>3 DEF TeardownRead
  <2>2. CASE UNCHANGED <<live, stdout>>
    BY <2>1, <2>2, LedgerExecutor
  <2>3. CASE Book(w, state)
    <3>1. \A v \in Workers, t \in Tasks : Reports(stdout'[v], t) => Reports(stdout[v], t)
      BY <2>3, BookLedger
    <3>2. \A t \in live \ live' : \E v \in Workers : Reports(stdout[v], t)
      BY <2>3, BookLedger DEF TypeOK
    <3> QED BY <2>1, <3>1, <3>2, LedgerExecutor
  <2> QED BY <1>3, <2>2, <2>3 DEF TeardownRead
<1>4. ASSUME NEW t \in Tasks, SendTask(t) PROVE LedgerInv'
  <2> DEFINE w == WorkerOf[t]
  <2>0. w \in Workers /\ MailInv /\ SentInv /\ ReportInv /\ BookedIsOver
    BY WorkerAssumption DEF LedgerInv
  <2>1. UNCHANGED <<stdout, queue, outq, child>> /\ pc # "gone" /\ t \notin given
    BY <1>4 DEF SendTask, process
  <2>2. CASE Dead(w)
    <3>1. UNCHANGED <<given, live, stdin, worker, process>>
      BY <1>4, <2>2 DEF SendTask, worker
    <3> QED BY <2>1, <3>1, LedgerExecutor
  <2>3. CASE ~Dead(w)
    <3>1. stdin' = [stdin EXCEPT ![w] = Append(stdin[w], RunTask(t))] /\ live' = live \cup {t} /\ given' = given \cup {t}
      BY <1>4, <2>3 DEF SendTask
    <3>2. stdin \in [Workers -> Seq(Messages)]
      BY DEF TypeOK
    <3>3. child[t] = "none" /\ \A v \in Workers : ~Holds(stdin[v], t) /\ ~Holds(queue[v], t)
      BY <2>0, <2>1 DEF SentInv, MailInv
    <3>4. stdin[w] \in Seq(Messages) /\ Once(stdin[w]) /\ RunTask(t) \in Messages
      BY <2>0, <3>2, MessageKinds DEF MailInv
    <3>5. \A u \in Tasks : RunTask(t) = RunTask(u) => ~Has(stdin[w], RunTask(t))
      BY <2>0, <3>3, HoldsHas
    <3>6. Once(Append(stdin[w], RunTask(t)))
      BY <3>4, <3>5, OnceAppend
    <3>7. \A u \in Tasks : Holds(Append(stdin[w], RunTask(t)), u) <=> Holds(stdin[w], u) \/ u = t
      <4>1. \A m : Has(Append(stdin[w], RunTask(t)), m) <=> Has(stdin[w], m) \/ m = RunTask(t)
        BY <3>4, HasAppend
      <4> QED BY <4>1, HoldsHas, MessageKinds
    <3>8. stdin'[w] = Append(stdin[w], RunTask(t)) /\ \A v \in Workers \ {w} : stdin'[v] = stdin[v]
      BY <2>0, <3>1, <3>2
    <3>9. MailInv'
      <4> SUFFICES ASSUME NEW v \in Workers
                   PROVE  /\ Once(stdin'[v]) /\ Once(queue'[v])
                          /\ \A u \in Tasks : ~(Holds(stdin'[v], u) /\ Holds(queue'[v], u))
                          /\ \A u \in Tasks : Holds(stdin'[v], u) \/ Holds(queue'[v], u)
                                              => child'[u] = "none" /\ WorkerOf[u] = v
        BY DEF MailInv
      <4>1. CASE v # w
        BY <2>0, <2>1, <3>8, <4>1 DEF MailInv
      <4>2. CASE v = w
        BY <2>0, <2>1, <3>3, <3>6, <3>7, <3>8, <4>2 DEF MailInv
      <4> QED BY <4>1, <4>2
    <3>10. SentInv'
      <4> SUFFICES ASSUME NEW u \in Tasks \ given'
                   PROVE  child'[u] = "none" /\ ~Holds(stdin'[WorkerOf[u]], u) /\ ~Holds(queue'[WorkerOf[u]], u)
        BY DEF SentInv
      <4>1. u # t /\ u \notin given /\ WorkerOf[u] \in Workers
        BY <3>1, WorkerAssumption
      <4>2. Holds(stdin'[WorkerOf[u]], u) <=> Holds(stdin[WorkerOf[u]], u)
        BY <3>7, <3>8, <4>1
      <4> QED BY <2>0, <2>1, <4>1, <4>2 DEF SentInv
    <3>11. ReportInv'
      BY <2>0, <2>1 DEF ReportInv
    <3>12. BookedIsOver'
      BY <2>0, <2>1, <3>1 DEF BookedIsOver
    <3> QED BY <3>9, <3>10, <3>11, <3>12 DEF LedgerInv
  <2> QED BY <2>2, <2>3
<1>5. CASE buildTargetsIdle
  <2>1. UNCHANGED <<live, stdout, given, worker, process>> /\ pc # "gone" /\ (stdin' = stdin \/ SendFinishNow)
    BY <1>5 DEF buildTargetsIdle
  <2>2. \A v \in Workers : stdin'[v] = stdin[v] \/ \E e \in {FinishNow, Quit} : stdin'[v] = Append(stdin[v], e)
    BY <2>1, FinishNowStdin
  <2> QED BY <2>1, <2>2, LedgerExecutor
<1>6. CASE EnterRunqueue \/ FinishStep \/ SendNone \/ TeardownEnd
  <2>1. UNCHANGED <<live, stdout, given, stdin, worker, process>> /\ pc # "gone"
    BY <1>6 DEF EnterRunqueue, FinishStep, SendNone, TeardownEnd, pipes
  <2> QED BY <2>1, LedgerExecutor
<1> QED BY <1>1, <1>2, <1>3, <1>4, <1>5, <1>6 DEF ExecutorStep

LEMMA LedgerOutside ==
  ASSUME TypeOK, LedgerInv, DiskCheck \/ DiskEntry \/ CookerDies \/ \E r \in build.requests : RequestShutdown(r)
  PROVE  LedgerInv'
<1>1. CASE DiskCheck \/ \E r \in build.requests : RequestShutdown(r)
  <2>1. UNCHANGED <<live, stdout, given, stdin, worker, process>> /\ pc # "gone"
    BY <1>1 DEF DiskCheck, RequestShutdown, pipes
  <2> QED BY <2>1, LedgerExecutor
<1>2. CASE DiskEntry
  <2>1. UNCHANGED <<live, stdout, given, worker, process>> /\ pc # "gone" /\ (stdin' = stdin \/ SendFinishNow)
    BY <1>2 DEF DiskEntry
  <2>2. \A v \in Workers : stdin'[v] = stdin[v] \/ \E e \in {FinishNow, Quit} : stdin'[v] = Append(stdin[v], e)
    BY <2>1, FinishNowStdin
  <2> QED BY <2>1, <2>2, LedgerExecutor
<1>3. CASE CookerDies
  <2>1. /\ pc' = "gone" /\ stdout' = [w \in Workers |-> <<>>] /\ live' = {} /\ given' = {}
        /\ UNCHANGED <<stdin, queue, outq, child>>
    BY <1>3 DEF CookerDies, worker, process
  <2>2. MailInv'
    BY <2>1 DEF LedgerInv, MailInv
  <2>3. SentInv' /\ BookedIsOver'
    BY <2>1 DEF SentInv, BookedIsOver
  <2>4. ReportInv'
    BY <2>1, ReportsEmpty DEF LedgerInv, ReportInv
  <2> QED BY <2>2, <2>3, <2>4 DEF LedgerInv
<1> QED BY <1>1, <1>2, <1>3

LEMMA LedgerWorker ==
  ASSUME TypeOK, LedgerInv, NEW w \in Workers, WorkerStep(w) \/ worker_flush(w) \/ ForkFails(w) \/ WorkerDies(w)
  PROVE  LedgerInv'
<1>0. MailInv /\ SentInv /\ ReportInv /\ BookedIsOver
  BY DEF LedgerInv
<1>a. /\ queue \in [Workers -> Seq(Messages)] /\ stdin \in [Workers -> Seq(Messages)]
      /\ outq \in [Workers -> Seq(ExitCodes)] /\ stdout \in [Workers -> Seq(ExitCodes)]
      /\ child \in [Tasks -> {"none", "forked", "guarded", "session", "exit0", "exit1", "reaped"}]
  BY DEF TypeOK
<1>b. UNCHANGED <<live, given, pc>>
  BY DEF WorkerStep, worker_flush, ForkFails, WorkerDies, Select, handle_runtask, handle_finishnow, WaitAny,
         HuntReturn, handle_quit, EndPass, process_waitpid, Exit, Kill, executor
<1>c. \A v \in Workers : Once(stdin[v]) /\ Once(queue[v])
  BY <1>0 DEF MailInv
\* Nothing that matters changes.
<1>1. ASSUME UNCHANGED <<stdin, queue, child, outq, stdout>> PROVE LedgerInv'
  BY <1>0, <1>1, <1>b, <1>c, LedgerKeep DEF ReportInv
<1>3. CASE Select(w)
  <2>1. UNCHANGED <<child, outq, stdout>>
    BY <1>3 DEF Select, process
  <2>2. CASE UNCHANGED <<queue, stdin>>
    BY <1>1, <2>1, <2>2
  <2>3. CASE queue' = [queue EXCEPT ![w] = queue[w] \o stdin[w]] /\ stdin' = [stdin EXCEPT ![w] = <<>>]
    <3>1. queue'[w] = queue[w] \o stdin[w] /\ stdin'[w] = <<>>
      BY <1>a, <2>3
    <3>2. \A v \in Workers \ {w} : queue'[v] = queue[v] /\ stdin'[v] = stdin[v]
      BY <1>a, <2>3
    <3>3. \A t \in Tasks : Holds(queue'[w], t) <=> Holds(queue[w], t) \/ Holds(stdin[w], t)
      <4>1. queue[w] \in Seq(Messages) /\ stdin[w] \in Seq(Messages)
        BY <1>a
      <4>2. \A m : Has(queue[w] \o stdin[w], m) <=> Has(queue[w], m) \/ Has(stdin[w], m)
        BY <4>1, HasConcat
      <4> QED BY <3>1, <4>2, HoldsHas
    <3>4. \A t \in Tasks : ~Holds(stdin'[w], t)
      BY <3>1, HoldsHas, HasEmpty
    <3>5. Once(queue'[w]) /\ Once(stdin'[w])
      <4>1. \A t \in Tasks : ~(Has(queue[w], RunTask(t)) /\ Has(stdin[w], RunTask(t)))
        BY <1>0, HoldsHas DEF MailInv
      <4>2. Once(<<>>)
        BY DEF Once
      <4>3. Once(queue[w] \o stdin[w])
        BY <1>a, <1>c, <4>1, OnceConcat
      <4> QED BY <3>1, <4>2, <4>3
    <3>6. MailInv'
      <4> SUFFICES ASSUME NEW v \in Workers
                   PROVE  /\ Once(stdin'[v]) /\ Once(queue'[v])
                          /\ \A u \in Tasks : ~(Holds(stdin'[v], u) /\ Holds(queue'[v], u))
                          /\ \A u \in Tasks : Holds(stdin'[v], u) \/ Holds(queue'[v], u)
                                              => child'[u] = "none" /\ WorkerOf[u] = v
        BY DEF MailInv
      <4>1. CASE v # w
        BY <1>0, <2>1, <3>2, <4>1 DEF MailInv
      <4>2. CASE v = w
        BY <1>0, <2>1, <3>3, <3>4, <3>5, <4>2 DEF MailInv
      <4> QED BY <4>1, <4>2
    <3>7. SentInv'
      <4> SUFFICES ASSUME pc # "gone", NEW u \in Tasks \ given
                   PROVE  child'[u] = "none" /\ ~Holds(stdin'[WorkerOf[u]], u) /\ ~Holds(queue'[WorkerOf[u]], u)
        BY <1>b DEF SentInv
      <4>1. WorkerOf[u] \in Workers
        BY WorkerAssumption
      <4>2. child[u] = "none" /\ ~Holds(stdin[WorkerOf[u]], u) /\ ~Holds(queue[WorkerOf[u]], u)
        BY <1>0 DEF SentInv
      <4> QED BY <2>1, <3>2, <3>3, <3>4, <4>1, <4>2
    <3>8. ReportInv' /\ BookedIsOver'
      BY <1>0, <1>b, <2>1 DEF ReportInv, BookedIsOver
    <3> QED BY <3>6, <3>7, <3>8 DEF LedgerInv
  <2> QED BY <1>3, <2>2, <2>3 DEF Select
<1>4. CASE handle_runtask(w)
  <2> DEFINE t == Head(queue[w]).task
  <2>1. /\ child' = [child EXCEPT ![t] = "forked"] /\ queue' = [queue EXCEPT ![w] = Tail(queue[w])]
        /\ UNCHANGED <<stdin, outq, stdout>>
    BY <1>4 DEF handle_runtask, pipes
  <2>2. queue[w] \in Seq(Messages) /\ queue[w] # <<>> /\ Head(queue[w]).kind = "runtask"
    BY <1>4, <1>a DEF handle_runtask, HeadIs
  <2>3. t \in Tasks /\ Head(queue[w]) = RunTask(t)
    <3>1. Head(queue[w]) \in Messages
      BY <2>2
    <3> QED BY <2>2, <3>1, MessageKinds
  <2>4. \A m : Has(queue[w], m) <=> m = Head(queue[w]) \/ Has(Tail(queue[w]), m)
    BY <2>2, HasTail
  <2>5. \A u \in Tasks : Holds(queue[w], u) <=> u = t \/ Holds(Tail(queue[w]), u)
    BY <2>3, <2>4, HoldsHas, MessageKinds
  <2>6. Once(Tail(queue[w])) /\ ~Holds(Tail(queue[w]), t)
    BY <1>c, <2>2, <2>3, OnceTail, HoldsHas
  <2>7. queue'[w] = Tail(queue[w]) /\ \A v \in Workers \ {w} : queue'[v] = queue[v]
    BY <1>a, <2>1
  <2>8. child[t] = "none" /\ WorkerOf[t] = w /\ Holds(queue[w], t)
    BY <1>0, <2>3, <2>5 DEF MailInv
  <2>9. \A u \in Tasks \ {t} : child'[u] = child[u]
    BY <1>a, <2>1
  <2>10. \A v \in Workers : ~Holds(stdin[v], t) /\ ~Holds(queue'[v], t)
    BY <1>0, <2>3, <2>6, <2>7, <2>8 DEF MailInv
  <2>11. MailInv'
    <3> SUFFICES ASSUME NEW v \in Workers
                 PROVE  /\ Once(stdin'[v]) /\ Once(queue'[v])
                        /\ \A u \in Tasks : ~(Holds(stdin'[v], u) /\ Holds(queue'[v], u))
                        /\ \A u \in Tasks : Holds(stdin'[v], u) \/ Holds(queue'[v], u)
                                            => child'[u] = "none" /\ WorkerOf[u] = v
      BY DEF MailInv
    <3>1. \A u \in Tasks : Holds(queue'[v], u) => Holds(queue[v], u)
      BY <2>5, <2>7
    <3>2. Once(queue'[v]) /\ stdin' = stdin
      BY <1>c, <2>1, <2>6, <2>7
    <3> QED BY <1>0, <2>9, <2>10, <3>1, <3>2 DEF MailInv
  <2>12. SentInv'
    <3> SUFFICES ASSUME pc # "gone", NEW u \in Tasks \ given
                 PROVE  child'[u] = "none" /\ ~Holds(stdin'[WorkerOf[u]], u) /\ ~Holds(queue'[WorkerOf[u]], u)
      BY <1>b DEF SentInv
    <3>1. child[u] = "none" /\ ~Holds(stdin[WorkerOf[u]], u) /\ ~Holds(queue[WorkerOf[u]], u) /\ WorkerOf[u] \in Workers
      BY <1>0, WorkerAssumption DEF SentInv
    <3>2. u # t
      BY <2>8, <3>1
    <3> QED BY <2>1, <2>5, <2>7, <2>9, <3>1, <3>2
  <2>13. ReportInv'
    <3>1. \A u \in Tasks : child[u] = "reaped" => child'[u] = "reaped"
      BY <2>8, <2>9
    <3> QED BY <1>0, <2>1, <3>1 DEF ReportInv
  <2>14. BookedIsOver'
    BY <1>0, <1>b, <2>8, <2>9 DEF BookedIsOver, TypeOK
  <2> QED BY <2>11, <2>12, <2>13, <2>14 DEF LedgerInv
<1>5. CASE handle_finishnow(w)
  <2>1. queue' = [queue EXCEPT ![w] = Tail(queue[w])] /\ UNCHANGED <<stdin, outq, stdout, child>>
    BY <1>5 DEF handle_finishnow, pipes, process
  <2>2. queue[w] \in Seq(Messages) /\ queue[w] # <<>>
    BY <1>5, <1>a DEF handle_finishnow, HeadIs
  <2>3. \A u \in Tasks : Holds(Tail(queue[w]), u) => Holds(queue[w], u)
    <3>1. \A m : Has(Tail(queue[w]), m) => Has(queue[w], m)
      BY <2>2, HasTail
    <3> QED BY <3>1, HoldsHas
  <2>4. Once(Tail(queue[w]))
    BY <1>c, <2>2, OnceTail
  <2>5. \A v \in Workers : Once(queue'[v]) /\ \A u \in Tasks : Holds(queue'[v], u) => Holds(queue[v], u)
    BY <1>a, <1>c, <2>1, <2>3, <2>4
  <2> QED BY <1>0, <1>b, <1>c, <2>1, <2>5, LedgerKeep DEF ReportInv
<1>6. ASSUME NEW t \in Tasks, Kill(w, t) PROVE LedgerInv'
  BY <1>1, <1>6 DEF Kill, pipes
<1>7. CASE WaitAny(w)
  <2>1. PICK t \in Zombies(w) : child' = [child EXCEPT ![t] = "reaped"]
    BY <1>7 DEF WaitAny
  <2>2. \A u \in Tasks : (child[u] = "none" => child'[u] = "none") /\ (child[u] = "reaped" => child'[u] = "reaped")
    BY <1>a, <2>1 DEF Zombies, ChildrenOf
  <2>3. UNCHANGED <<stdin, queue, outq, stdout>>
    BY <1>7 DEF WaitAny, pipes
  <2> QED BY <1>0, <1>b, <1>c, <2>2, <2>3, LedgerKeep DEF ReportInv
<1>8. ASSUME Die(w), stdout' = stdout PROVE LedgerInv'
  <2>1. /\ queue' = [queue EXCEPT ![w] = <<>>] /\ stdin' = [stdin EXCEPT ![w] = <<>>] /\ outq' = [outq EXCEPT ![w] = <<>>]
        /\ child' = [t \in Tasks |-> IF t \in Zombies(w) THEN "reaped" ELSE child[t]]
    BY <1>8 DEF Die
  <2>2. \A u \in Tasks : (child[u] = "none" => child'[u] = "none") /\ (child[u] = "reaped" => child'[u] = "reaped")
    BY <2>1 DEF Zombies, ChildrenOf
  <2>3. Once(<<>>) /\ \A u \in Tasks : ~Holds(<<>>, u) /\ ~Reports(<<>>, u)
    BY HasEmpty, HoldsHas, ReportsEmpty DEF Once
  <2>4. \A v \in Workers : Once(stdin'[v]) /\ \A u \in Tasks : Holds(stdin'[v], u) => Holds(stdin[v], u)
    BY <1>a, <1>c, <2>1, <2>3
  <2>5. \A v \in Workers : Once(queue'[v]) /\ \A u \in Tasks : Holds(queue'[v], u) => Holds(queue[v], u)
    BY <1>a, <1>c, <2>1, <2>3
  <2>6. \A v \in Workers, u \in Tasks : Reports(outq'[v], u) => Reports(outq[v], u)
    BY <1>a, <2>1, <2>3
  <2>7. \A v \in Workers, u \in Tasks : Reports(outq'[v], u) \/ Reports(stdout'[v], u) => child'[u] = "reaped"
    BY <1>0, <1>8, <2>2, <2>6 DEF ReportInv
  <2> QED BY <1>b, <2>2, <2>4, <2>5, <2>7, LedgerKeep
<1>9. CASE HuntReturn(w)
  BY <1>1, <1>8, <1>9 DEF HuntReturn, process
<1>10. CASE handle_quit(w) \/ EndPass(w) \/ ForkFails(w)
  BY <1>1, <1>10 DEF handle_quit, EndPass, ForkFails, pipes, process
<1>11. CASE process_waitpid(w)
  <2>1. PICK t \in Zombies(w) :
         /\ child' = [child EXCEPT ![t] = "reaped"]
         /\ outq' = [outq EXCEPT ![w] = Append(outq[w], [task |-> t, status |-> IF child[t] = "exit0" THEN 0 ELSE 1])]
    BY <1>11 DEF process_waitpid
  <2> DEFINE e == [task |-> t, status |-> IF child[t] = "exit0" THEN 0 ELSE 1]
  <2>2. t \in Tasks /\ e \in ExitCodes /\ e.task = t
    BY DEF Zombies, ChildrenOf, ExitCodes
  <2>3. \A u \in Tasks : (child[u] = "none" => child'[u] = "none") /\ (child[u] = "reaped" => child'[u] = "reaped")
    BY <1>a, <2>1 DEF Zombies, ChildrenOf
  <2>4. child'[t] = "reaped"
    BY <1>a, <2>1, <2>2
  <2>5. UNCHANGED <<stdin, queue, stdout>>
    BY <1>11 DEF process_waitpid, pipes
  <2>6. outq[w] \in Seq(ExitCodes) /\ outq' = [outq EXCEPT ![w] = Append(outq[w], e)]
    BY <1>a, <2>1
  <2> HIDE DEF e
  <2>7. \A u \in Tasks : Reports(Append(outq[w], e), u) => Reports(outq[w], u) \/ u = t
    BY <2>2, <2>6, ReportsAppend
  <2>8. \A v \in Workers, u \in Tasks : Reports(outq'[v], u) => Reports(outq[v], u) \/ u = t
    BY <1>a, <2>6, <2>7
  <2>9. \A v \in Workers, u \in Tasks : Reports(outq'[v], u) \/ Reports(stdout'[v], u) => child'[u] = "reaped"
    BY <1>0, <2>3, <2>4, <2>5, <2>8 DEF ReportInv
  <2> QED BY <1>b, <1>c, <2>3, <2>5, <2>9, LedgerKeep
<1>12. CASE worker_flush(w)
  <2>1. /\ outq[w] \in Seq(ExitCodes) /\ outq[w] # <<>> /\ stdout[w] \in Seq(ExitCodes)
        /\ stdout' = [stdout EXCEPT ![w] = Append(stdout[w], Head(outq[w]))]
        /\ outq' = [outq EXCEPT ![w] = Tail(outq[w])]
        /\ UNCHANGED <<stdin, queue, child>>
    BY <1>12, <1>a DEF worker_flush, process
  <2>2. \A u \in Tasks : Reports(outq[w], u) <=> Head(outq[w]).task = u \/ Reports(Tail(outq[w]), u)
    BY <2>1, ReportsTail
  <2>3. \A u \in Tasks : Reports(Append(stdout[w], Head(outq[w])), u) <=> Reports(stdout[w], u) \/ Head(outq[w]).task = u
    <3>1. Head(outq[w]) \in ExitCodes
      BY <2>1
    <3> QED BY <2>1, <3>1, ReportsAppend
  <2>4. \A v \in Workers, u \in Tasks : Reports(outq'[v], u) \/ Reports(stdout'[v], u) => Reports(outq[v], u) \/ Reports(stdout[v], u)
    <3> SUFFICES ASSUME NEW v \in Workers, NEW u \in Tasks
                 PROVE  Reports(outq'[v], u) \/ Reports(stdout'[v], u) => Reports(outq[v], u) \/ Reports(stdout[v], u)
      OBVIOUS
    <3>1. CASE v # w
      BY <1>a, <2>1, <3>1
    <3>2. CASE v = w
      <4>1. outq'[w] = Tail(outq[w]) /\ stdout'[w] = Append(stdout[w], Head(outq[w]))
        BY <1>a, <2>1
      <4> QED BY <2>2, <2>3, <3>2, <4>1
    <3> QED BY <3>1, <3>2
  <2>5. \A v \in Workers, u \in Tasks : Reports(outq'[v], u) \/ Reports(stdout'[v], u) => child'[u] = "reaped"
    BY <1>0, <2>1, <2>4 DEF ReportInv
  <2> QED BY <1>b, <1>c, <2>1, <2>5, LedgerKeep
<1>13. CASE Exit(w) \/ WorkerDies(w)
  BY <1>8, <1>13 DEF Exit, WorkerDies
<1> QED
  BY <1>3, <1>4, <1>5, <1>6, <1>7, <1>9, <1>10, <1>11, <1>12, <1>13 DEF WorkerStep

LEMMA LedgerChild ==
  ASSUME TypeOK, LedgerInv, NEW t \in Tasks,
         ChildStart(t) \/ (\E x \in {"exit0", "exit1"} : ChildExit(t, x)) \/ ChildTerminated(t)
  PROVE  LedgerInv'
<1>1. UNCHANGED <<stdin, queue, outq, stdout, given, live, pc>>
  BY DEF ChildStart, ChildExit, ChildTerminated, Ended, executor, pipes, worker
<1>2. \E x : child' = [child EXCEPT ![t] = x] /\ child[t] \notin {"none", "reaped"}
  BY DEF ChildStart, ChildExit, ChildTerminated, Ended, Alive
<1>3. child \in [Tasks -> {"none", "forked", "guarded", "session", "exit0", "exit1", "reaped"}]
  BY DEF TypeOK
<1>4. \A u \in Tasks : (child[u] = "none" => child'[u] = "none") /\ (child[u] = "reaped" => child'[u] = "reaped")
  BY <1>2, <1>3
<1>5. MailInv /\ ReportInv
  BY DEF LedgerInv
<1>6. \A v \in Workers : Once(stdin[v]) /\ Once(queue[v])
  BY <1>5 DEF MailInv
<1>7. \A v \in Workers, u \in Tasks : Reports(outq'[v], u) \/ Reports(stdout'[v], u) => child'[u] = "reaped"
  BY <1>1, <1>4, <1>5 DEF ReportInv
<1> QED BY <1>1, <1>4, <1>6, <1>7, LedgerKeep

LEMMA InitLedger == Init => LedgerInv
<1> SUFFICES ASSUME Init PROVE LedgerInv
  OBVIOUS
<1>1. Once(<<>>) /\ \A u \in Tasks : ~Holds(<<>>, u) /\ ~Reports(<<>>, u)
  BY HasEmpty, HoldsHas, ReportsEmpty DEF Once
<1>2. MailInv /\ SentInv /\ ReportInv
  BY <1>1, WorkerAssumption DEF Init, MailInv, SentInv, ReportInv
<1>3. BookedIsOver
  BY DEF Init, BookedIsOver
<1> QED BY <1>2, <1>3 DEF LedgerInv

LEMMA LedgerStep == TypeOK /\ LedgerInv /\ [Next]_vars => LedgerInv'
<1>1. ASSUME LedgerInv, UNCHANGED vars PROVE LedgerInv'
  BY <1>1 DEF LedgerInv, MailInv, SentInv, ReportInv, BookedIsOver, vars, executor, pipes, worker, process
<1> QED BY <1>1, LedgerExecutorStep, LedgerOutside, LedgerWorker, LedgerChild DEF Next, Finished

-----------------------------------------------------------------------------
(* When the executor tears the workers down                                *)

LEMMA ExecutorWaits ==
  ASSUME TypeOK, ExecInv, ExecutorStep
  PROVE  ExecInv'
<1>0. state \in States /\ pc \in Stages /\ teardown \in BOOLEAN /\ halted \in BOOLEAN
  BY DEF TypeOK, Stages
<1>1. ASSUME NEW w \in Workers, read(w) PROVE ExecInv'
  <2>1. pc \in ReadStage /\ started' = started /\ halted' \in {halted, TRUE}
    BY <1>1 DEF read
  <2>2. pc' # "gone"
    BY <1>1 DEF read, AfterRead, GoTo, Return, Settle, ReadStage
  <2>3. ASSUME ~halted' PROVE Waits'
    <3>1. Book(w, state) /\ ~halted
      BY <1>0, <1>1, <2>3 DEF read
    <3>2. Waits
      BY <3>1 DEF ExecInv
    <3>3. live' \subseteq live /\ state' \in {state, "cleanup"}
      BY <3>1 DEF Book
    <3>4. CASE todo # {w}
      <4>1. UNCHANGED <<pc, teardown>>
        BY <1>1, <3>4 DEF read
      <4> QED BY <2>1, <3>2, <3>3, <4>1 DEF Waits
    <3>5. CASE todo = {w}
      <4>1. AfterRead(pc, state')
        BY <1>1, <3>5 DEF read
      <4>2. CASE pc = "read1"
        <5>1. pc' = "send" /\ teardown' = teardown
          BY <4>1, <4>2 DEF AfterRead, GoTo
        <5> QED BY <2>1, <3>2, <3>3, <4>2, <5>1 DEF Waits
      <4>3. CASE pc \in {"read2", "readFinish"}
        <5>1. \/ pc' = "teardown" /\ teardown' = TRUE /\ state' \in {"complete", "failed"}
              \/ pc' \in {"idle", "finish"} /\ teardown' = teardown
          BY <4>1, <4>3 DEF AfterRead, GoTo, Return, Settle
        <5> QED BY <2>1, <3>2, <3>3, <4>3, <5>1 DEF Waits
      <4>4. CASE pc \in {"readStop", "readDisk"}
        <5>1. pc' \in {"enter", "next", "disk"} /\ teardown' = teardown
          BY <4>1, <4>4 DEF AfterRead, GoTo
        <5> QED BY <2>1, <3>2, <3>3, <4>4, <5>1 DEF Waits
      <4> QED BY <2>1, <4>2, <4>3, <4>4 DEF ReadStage
    <3> QED BY <3>4, <3>5
  <2> QED BY <2>2, <2>3 DEF ExecInv
<1>2. ASSUME NEW w \in Workers, TeardownSend(w) PROVE ExecInv'
  BY <1>2 DEF TeardownSend, ExecInv, Waits
<1>3. ASSUME NEW w \in Workers, TeardownRead(w) PROVE ExecInv'
  <2>1. /\ pc = "drain" /\ pc' \in {"drain", "teardown"} /\ live' \subseteq live /\ state' \in {state, "cleanup"}
        /\ UNCHANGED <<started, teardown, halted>>
    BY <1>3 DEF TeardownRead, Book
  <2> QED BY <2>1 DEF ExecInv, Waits
<1>4. ASSUME NEW t \in Tasks, SendTask(t) PROVE ExecInv'
  <2>1. pc = "send" /\ state' = state
    BY <1>4 DEF SendTask
  <2>2. pc' # "gone"
    BY <1>4 DEF SendTask, Return, GoTo, Settle
  <2>3. ASSUME ~halted' PROVE Waits'
    <3>1. ~Dead(WorkerOf[t])
      BY <1>4, <2>3 DEF SendTask
    <3>2. ~halted /\ started' # {}
      BY <1>4, <2>3, <3>1 DEF SendTask
    <3>3. Waits
      BY <3>2 DEF ExecInv
    <3>4. state \in {"running", "cleanup"} /\ ~teardown
      BY <2>1, <3>3 DEF Waits
    <3>5. pc' \in {"read2", "idle", "finish"} /\ teardown' = teardown
      BY <1>4, <3>1, <3>4 DEF SendTask, Return, GoTo, Settle
    <3> QED BY <2>1, <3>2, <3>4, <3>5 DEF Waits
  <2> QED BY <2>2, <2>3 DEF ExecInv
<1>5. CASE buildTargetsIdle
  <2>1. pc \in {"idle", "next"} /\ UNCHANGED <<started, live>>
    BY <1>5 DEF buildTargetsIdle
  <2>2. CASE request = "none"
    BY <1>5, <2>1, <2>2 DEF buildTargetsIdle, GoTo, ExecInv, Waits
  <2>3. CASE request = "force"
    BY <1>5, <2>3 DEF buildTargetsIdle, GoTo, ExecInv
  <2>4. CASE request = "stop"
    <3>1. finish("readStop") /\ halted' = halted
      BY <1>5, <2>4 DEF buildTargetsIdle
    <3>2. pc' \in {"readStop", "enter"} /\ teardown' = teardown
      BY <3>1 DEF finish, AfterRead, GoTo
    <3>3. (live # {} => state' = "cleanup") /\ state' # "running"
      BY <3>1, VerdictType DEF finish
    <3> QED BY <2>1, <3>1, <3>2, <3>3 DEF ExecInv, Waits
  <2> QED BY <2>2, <2>3, <2>4 DEF TypeOK
<1>6. CASE EnterRunqueue
  <2>1. pc = "enter" /\ UNCHANGED <<started, live, state>>
    BY <1>6 DEF EnterRunqueue
  <2>2. CASE request = "force"
    BY <1>6, <2>2 DEF EnterRunqueue, Settle, ExecInv
  <2>3. CASE request # "force"
    <3>1. execute_runqueue(state) /\ halted' = halted
      BY <1>6, <2>3 DEF EnterRunqueue
    <3>2. \/ state = "running" /\ pc' = "read1" /\ teardown' = teardown
          \/ state = "cleanup" /\ pc' = "finish" /\ teardown' = teardown
          \/ state \in {"complete", "failed"} /\ pc' = "teardown" /\ teardown' = TRUE
      BY <1>0, <3>1 DEF execute_runqueue, GoTo, Settle, States
    <3> QED BY <2>1, <3>1, <3>2 DEF ExecInv, Waits
  <2> QED BY <2>2, <2>3
<1>7. CASE FinishStep
  <2>1. pc = "finish" /\ UNCHANGED <<started, live, halted>>
    BY <1>7 DEF FinishStep
  <2>2. CASE live # {} /\ started = {}
    <3>1. pc' = "ended"
      BY <1>7, <2>2 DEF FinishStep, GoTo
    <3> QED BY <2>1, <2>2, <3>1 DEF ExecInv, Waits
  <2>3. CASE ~(live # {} /\ started = {})
    <3>1. finish("readFinish")
      BY <1>7, <2>3 DEF FinishStep
    <3>2. \/ live # {} /\ state' = "cleanup" /\ pc' = "readFinish" /\ teardown' = teardown
          \/ live = {} /\ state' \in {"complete", "failed"} /\ pc' = "teardown" /\ teardown' = TRUE
      BY <2>3, <3>1 DEF finish, AfterRead, Settle, Verdict
    <3> QED BY <2>1, <3>2 DEF ExecInv, Waits
  <2> QED BY <2>2, <2>3
<1>8. CASE SendNone
  <2>1. pc = "send" /\ UNCHANGED <<started, live, halted>>
    BY <1>8 DEF SendNone
  <2>2. \/ live # {} /\ state' = state /\ pc' = "read2" /\ teardown' = teardown
        \/ live = {} /\ state' \in {"complete", "failed"} /\ pc' = "teardown" /\ teardown' = TRUE
    BY <1>8 DEF SendNone, Settle, Verdict
  <2> QED BY <2>1, <2>2 DEF ExecInv, Waits
<1>9. CASE TeardownEnd
  <2>1. pc = "teardown" /\ pc' \in {"ended", "idle"} /\ UNCHANGED <<state, live, teardown, halted>>
    BY <1>9 DEF TeardownEnd
  <2> QED BY <2>1 DEF ExecInv, Waits
<1> QED BY <1>1, <1>2, <1>3, <1>4, <1>5, <1>6, <1>7, <1>8, <1>9 DEF ExecutorStep

LEMMA InitWaits == Init => ExecInv
BY WorkerAssumption DEF Init, ExecInv, Waits

LEMMA WaitsStep == TypeOK /\ ExecInv /\ [Next]_vars => ExecInv'
<1> SUFFICES ASSUME TypeOK, ExecInv, [Next]_vars PROVE ExecInv'
  OBVIOUS
<1>1. ASSUME UNCHANGED <<executor, halted>> PROVE ExecInv'
  BY <1>1 DEF executor, ExecInv, Waits
<1>2. ASSUME NEW r, RequestShutdown(r) PROVE ExecInv'
  BY <1>2 DEF RequestShutdown, ExecInv, Waits
<1>3. CASE DiskCheck
  BY <1>3 DEF DiskCheck, ExecInv, Waits
<1>4. CASE DiskEntry
  <2>1. pc = "disk" /\ UNCHANGED <<started, live>>
    BY <1>4 DEF DiskEntry
  <2>2. \/ halted' = TRUE
        \/ live # {} /\ state' = "cleanup" /\ pc' = "readDisk" /\ UNCHANGED <<teardown, halted>>
        \/ live = {} /\ state' # "running" /\ pc' \in {"next", "disk"} /\ UNCHANGED <<teardown, halted>>
    BY <1>4, VerdictType DEF DiskEntry, GoTo
  <2> QED BY <2>1, <2>2 DEF ExecInv, Waits
<1>5. CASE CookerDies
  BY <1>5 DEF CookerDies, ExecInv
<1>6. ASSUME NEW w \in Workers, WorkerStep(w) \/ worker_flush(w) \/ ForkFails(w) \/ WorkerDies(w) PROVE ExecInv'
  <2>1. UNCHANGED <<executor, halted>>
    BY <1>6 DEF WorkerStep, worker_flush, ForkFails, WorkerDies, Select, handle_runtask, handle_finishnow, WaitAny,
                HuntReturn, handle_quit, EndPass, process_waitpid, Exit, Kill
  <2> QED BY <1>1, <2>1
<1>7. ASSUME NEW t \in Tasks,
             ChildStart(t) \/ ChildExit(t, "exit0") \/ ChildExit(t, "exit1") \/ ChildTerminated(t)
      PROVE  ExecInv'
  BY <1>1, <1>7 DEF ChildStart, ChildExit, ChildTerminated, Ended
<1>8. CASE UNCHANGED vars
  BY <1>1, <1>8 DEF vars
<1> QED BY <1>2, <1>3, <1>4, <1>5, <1>6, <1>7, <1>8, ExecutorWaits DEF Next, Finished

-----------------------------------------------------------------------------
(* When a worker hunts                                                     *)

\* A build that was cut short stays so, and the workers are torn down once.
LEMMA Grows ==
  ASSUME TypeOK, [Next]_vars, ~halted'
  PROVE  ~halted /\ (teardown => teardown')
<1>1. ASSUME UNCHANGED <<executor, halted>> PROVE ~halted /\ (teardown => teardown')
  BY <1>1 DEF executor
<1>2. CASE ExecutorStep
  <2>1. ASSUME NEW w \in Workers, read(w) PROVE ~halted /\ (teardown => teardown')
    <3>1. ~halted
      BY <2>1 DEF read, TypeOK
    <3>2. teardown' = teardown \/ teardown' = TRUE
      BY <2>1 DEF read, AfterRead, Return, GoTo, Settle, ReadStage
    <3> QED BY <3>1, <3>2
  <2>2. ASSUME NEW w \in Workers, TeardownSend(w) \/ TeardownRead(w) PROVE ~halted /\ (teardown => teardown')
    BY <2>2 DEF TeardownSend, TeardownRead
  <2>3. ASSUME NEW t \in Tasks, SendTask(t) PROVE ~halted /\ (teardown => teardown')
    BY <2>3 DEF SendTask, Return, GoTo, Settle
  <2>4. CASE buildTargetsIdle
    <3>1. ~halted /\ (GoTo("enter") \/ finish("readStop"))
      BY <2>4 DEF buildTargetsIdle
    <3> QED BY <3>1 DEF GoTo, finish, AfterRead
  <2>5. CASE EnterRunqueue
    <3>1. ~halted /\ execute_runqueue(state)
      BY <2>5 DEF EnterRunqueue
    <3> QED BY <3>1 DEF execute_runqueue, GoTo, Settle, TypeOK, States
  <2>6. CASE FinishStep
    <3>1. ~halted /\ (GoTo("ended") \/ finish("readFinish"))
      BY <2>6 DEF FinishStep
    <3> QED BY <3>1 DEF GoTo, finish, AfterRead, Settle
  <2>7. CASE SendNone \/ TeardownEnd
    BY <2>7 DEF SendNone, TeardownEnd, Settle
  <2> QED BY <1>2, <2>1, <2>2, <2>3, <2>4, <2>5, <2>6, <2>7 DEF ExecutorStep
<1>3. ASSUME NEW r, RequestShutdown(r) PROVE ~halted /\ (teardown => teardown')
  BY <1>3 DEF RequestShutdown
<1>4. CASE DiskCheck \/ DiskEntry \/ CookerDies
  BY <1>4 DEF DiskCheck, DiskEntry, CookerDies, GoTo
<1>5. ASSUME NEW w \in Workers, WorkerStep(w) \/ worker_flush(w) \/ ForkFails(w) \/ WorkerDies(w)
      PROVE  UNCHANGED <<executor, halted>>
  BY <1>5 DEF WorkerStep, worker_flush, ForkFails, WorkerDies, Select, handle_runtask, handle_finishnow, WaitAny,
              HuntReturn, handle_quit, EndPass, process_waitpid, Exit, Kill
<1>6. ASSUME NEW t \in Tasks,
             ChildStart(t) \/ ChildExit(t, "exit0") \/ ChildExit(t, "exit1") \/ ChildTerminated(t)
      PROVE  UNCHANGED <<executor, halted>>
  BY <1>6 DEF ChildStart, ChildExit, ChildTerminated, Ended
<1>7. CASE UNCHANGED vars
  BY <1>1, <1>7 DEF vars
<1> QED BY <1>1, <1>2, <1>3, <1>4, <1>5, <1>6, <1>7 DEF Next, Finished

\* A step that sends no finishnow and starts no hunt
LEMMA HuntKeep ==
  ASSUME ~halted, HuntInv, teardown => teardown',
         \A w \in Workers : Has(stdin'[w], FinishNow) \/ Has(queue'[w], FinishNow)
                             => Has(stdin[w], FinishNow) \/ Has(queue[w], FinishNow),
         \A w \in Workers : eof'[w] => eof[w] \/ teardown',
         \A w \in Workers : wpc'[w] \in {"hunt", "wait"} => wpc[w] \in {"hunt", "wait"} \/ teardown'
  PROVE  HuntInv'
BY DEF HuntInv

LEMMA ExecutorHunt ==
  ASSUME TypeOK, ExecInv, HuntInv, ExecutorStep, ~halted', ~halted, teardown => teardown'
  PROVE  HuntInv'
<1>0. Waits /\ stdin \in [Workers -> Seq(Messages)] /\ eof \in [Workers -> BOOLEAN]
      /\ wpc \in [Workers -> {"absent", "select", "pass", "hunt", "wait", "reap", "join", "dead"}]
  BY DEF ExecInv, TypeOK
<1>1. ASSUME UNCHANGED <<stdin, queue, eof, wpc>> PROVE HuntInv'
  BY <1>1, HuntKeep
<1>2. ASSUME NEW w \in Workers, read(w) \/ TeardownRead(w) PROVE HuntInv'
  BY <1>1, <1>2 DEF read, TeardownRead, worker
<1>3. ASSUME NEW w \in Workers, TeardownSend(w) PROVE HuntInv'
  <2>1. teardown' /\ UNCHANGED <<queue, wpc>>
    BY <1>0, <1>3 DEF TeardownSend, Waits, worker
  <2>2. \A v \in Workers : stdin'[v] = stdin[v] \/ stdin'[v] = Append(stdin[v], Quit)
    BY <1>0, <1>3 DEF TeardownSend
  <2>3. \A v \in Workers : Has(Append(stdin[v], Quit), FinishNow) => Has(stdin[v], FinishNow)
    BY <1>0, HasAppend, MessageKinds
  <2> QED BY <2>1, <2>2, <2>3, HuntKeep
<1>4. ASSUME NEW t \in Tasks, SendTask(t) PROVE HuntInv'
  <2> DEFINE w == WorkerOf[t]
  <2>0. w \in Workers /\ UNCHANGED <<queue, eof>>
    BY <1>4, WorkerAssumption DEF SendTask
  <2>1. /\ wpc' = [wpc EXCEPT ![w] = IF @ = "absent" THEN "select" ELSE @]
        /\ stdin' = [stdin EXCEPT ![w] = Append(@, RunTask(t))]
    BY <1>4 DEF SendTask
  <2>2. \A v \in Workers : wpc'[v] \in {wpc[v], "select"}
    BY <1>0, <2>1
  <2>3. \A v \in Workers : stdin'[v] = stdin[v] \/ stdin'[v] = Append(stdin[v], RunTask(t))
    BY <1>0, <2>1
  <2>4. \A v \in Workers : Has(Append(stdin[v], RunTask(t)), FinishNow) => Has(stdin[v], FinishNow)
    BY <1>0, HasAppend, MessageKinds
  <2> HIDE DEF w
  <2> QED BY <2>0, <2>2, <2>3, <2>4, HuntKeep
<1>5. CASE buildTargetsIdle
  BY <1>1, <1>5 DEF buildTargetsIdle, worker
<1>6. CASE EnterRunqueue \/ FinishStep \/ SendNone \/ TeardownEnd
  BY <1>1, <1>6 DEF EnterRunqueue, FinishStep, SendNone, TeardownEnd, pipes, worker
<1> QED BY <1>2, <1>3, <1>4, <1>5, <1>6 DEF ExecutorStep

LEMMA WorkerHunt ==
  ASSUME TypeOK, HuntInv, ~halted, teardown => teardown', NEW w \in Workers,
         WorkerStep(w) \/ worker_flush(w) \/ ForkFails(w) \/ WorkerDies(w)
  PROVE  HuntInv'
<1>0. /\ stdin \in [Workers -> Seq(Messages)] /\ queue \in [Workers -> Seq(Messages)]
      /\ wpc \in [Workers -> {"absent", "select", "pass", "hunt", "wait", "reap", "join", "dead"}]
  BY DEF TypeOK
<1>1. ASSUME UNCHANGED <<stdin, queue, eof>>, NEW x, wpc' = [wpc EXCEPT ![w] = x],
             x \in {"hunt", "wait"} => wpc[w] \in {"hunt", "wait"} \/ teardown
      PROVE  HuntInv'
  <2>1. \A v \in Workers : wpc'[v] \in {"hunt", "wait"} => wpc[v] \in {"hunt", "wait"} \/ teardown'
    BY <1>0, <1>1
  <2> QED BY <1>1, <2>1, HuntKeep
<1>2. CASE Select(w)
  <2>0. UNCHANGED <<eof>> /\ wpc[w] = "select"
    BY <1>2 DEF Select
  <2>1. CASE UNCHANGED <<queue, stdin>> /\ wpc' = [wpc EXCEPT ![w] = "pass"]
    BY <1>1, <2>0, <2>1
  <2>2. CASE eof[w] /\ UNCHANGED <<queue, stdin>> /\ wpc' = [wpc EXCEPT ![w] = "hunt"]
    <3>1. teardown
      BY <2>2 DEF HuntInv
    <3> QED BY <1>1, <2>0, <2>2, <3>1
  <2>3. CASE /\ queue' = [queue EXCEPT ![w] = @ \o stdin[w]] /\ stdin' = [stdin EXCEPT ![w] = <<>>]
             /\ wpc' = [wpc EXCEPT ![w] = "pass"]
    <3>1. \A v \in Workers : Has(stdin'[v], FinishNow) => Has(stdin[v], FinishNow)
      BY <1>0, <2>3, HasEmpty
    <3>2. Has(queue[w] \o stdin[w], FinishNow) => Has(stdin[w], FinishNow) \/ Has(queue[w], FinishNow)
      BY <1>0, HasConcat
    <3>3. \A v \in Workers : Has(queue'[v], FinishNow) => Has(stdin[v], FinishNow) \/ Has(queue[v], FinishNow)
      BY <1>0, <2>3, <3>2
    <3>4. \A v \in Workers : wpc'[v] \in {"hunt", "wait"} => wpc[v] \in {"hunt", "wait"}
      BY <1>0, <2>3
    <3> QED BY <2>0, <3>1, <3>3, <3>4, HuntKeep
  <2> QED BY <1>2, <2>1, <2>2, <2>3 DEF Select
<1>3. CASE handle_runtask(w)
  <2>1. queue[w] # <<>> /\ queue' = [queue EXCEPT ![w] = Tail(queue[w])] /\ UNCHANGED <<stdin, eof, wpc>>
    BY <1>3 DEF handle_runtask, HeadIs, pipes
  <2>2. Has(Tail(queue[w]), FinishNow) => Has(queue[w], FinishNow)
    BY <1>0, <2>1, HasTail
  <2>3. \A v \in Workers : Has(queue'[v], FinishNow) => Has(queue[v], FinishNow)
    BY <1>0, <2>1, <2>2
  <2> QED BY <2>1, <2>3, HuntKeep
<1>4. CASE handle_finishnow(w)
  <2>1. queue[w] \in Seq(Messages) /\ queue[w] # <<>> /\ Head(queue[w]).kind = "finishnow"
    BY <1>0, <1>4 DEF handle_finishnow, HeadIs
  <2>2. Head(queue[w]) = FinishNow
    BY <2>1, MessageKinds
  <2>3. Has(queue[w], FinishNow)
    BY <2>1, <2>2, HasTail
  <2> QED BY <2>3 DEF HuntInv
<1>5. ASSUME NEW t \in Tasks, Kill(w, t) PROVE HuntInv'
  <2>1. wpc[w] = "hunt" /\ (wpc' = wpc \/ wpc' = [wpc EXCEPT ![w] = "wait"]) /\ UNCHANGED <<stdin, queue, eof>>
    BY <1>5 DEF Kill, pipes
  <2>2. CASE wpc' = wpc
    BY <2>1, <2>2, HuntKeep
  <2>3. CASE wpc' = [wpc EXCEPT ![w] = "wait"]
    BY <1>1, <2>1, <2>3
  <2> QED BY <2>1, <2>2, <2>3
<1>6. CASE WaitAny(w)
  BY <1>1, <1>6 DEF WaitAny, pipes
<1>7. CASE handle_quit(w) \/ ForkFails(w)
  <2>1. wpc' = [wpc EXCEPT ![w] = "join"] /\ UNCHANGED <<stdin, queue, eof>>
    BY <1>7 DEF handle_quit, ForkFails, pipes
  <2> QED BY <1>1, <2>1
<1>8. CASE EndPass(w)
  <2>1. PICK x \in {"select", "reap"} : wpc' = [wpc EXCEPT ![w] = x]
    BY <1>8 DEF EndPass
  <2>2. UNCHANGED <<stdin, queue, eof>>
    BY <1>8 DEF EndPass, pipes
  <2> QED BY <1>1, <2>1, <2>2
<1>9. CASE process_waitpid(w)
  <2>1. PICK x \in {"select", "reap"} : wpc' = [wpc EXCEPT ![w] = x]
    BY <1>9 DEF process_waitpid
  <2>2. UNCHANGED <<stdin, queue, eof>>
    BY <1>9 DEF process_waitpid, pipes
  <2> QED BY <1>1, <2>1, <2>2
<1>10. CASE worker_flush(w)
  BY <1>10, HuntKeep DEF worker_flush
<1>11. ASSUME Die(w), eof' = eof PROVE HuntInv'
  <2>1. /\ queue' = [queue EXCEPT ![w] = <<>>] /\ stdin' = [stdin EXCEPT ![w] = <<>>]
        /\ wpc' = [wpc EXCEPT ![w] = "dead"]
    BY <1>11 DEF Die
  <2>2. \A v \in Workers : /\ Has(stdin'[v], FinishNow) => Has(stdin[v], FinishNow)
                           /\ Has(queue'[v], FinishNow) => Has(queue[v], FinishNow)
                           /\ wpc'[v] \in {"hunt", "wait"} => wpc[v] \in {"hunt", "wait"}
    BY <1>0, <2>1, HasEmpty
  <2>3. \A v \in Workers : Has(stdin'[v], FinishNow) \/ Has(queue'[v], FinishNow)
                            => Has(stdin[v], FinishNow) \/ Has(queue[v], FinishNow)
    BY <2>2
  <2>4. \A v \in Workers : /\ wpc'[v] \in {"hunt", "wait"} => wpc[v] \in {"hunt", "wait"} \/ teardown'
                           /\ eof'[v] => eof[v] \/ teardown'
    BY <1>11, <2>2
  <2> QED BY <2>3, <2>4, HuntKeep
<1>12. CASE HuntReturn(w)
  <2>1. CASE dying[w]
    BY <1>11, <1>12, <2>1 DEF HuntReturn
  <2>2. CASE ~dying[w]
    <3>1. wpc' = [wpc EXCEPT ![w] = "pass"] /\ UNCHANGED <<stdin, queue, eof>>
      BY <1>12, <2>2 DEF HuntReturn
    <3> QED BY <1>1, <3>1
  <2> QED BY <2>1, <2>2
<1>13. CASE Exit(w) \/ WorkerDies(w)
  BY <1>11, <1>13 DEF Exit, WorkerDies
<1> QED
  BY <1>2, <1>3, <1>4, <1>5, <1>6, <1>7, <1>8, <1>9, <1>10, <1>12, <1>13 DEF WorkerStep

LEMMA InitHunt == Init => HuntInv
<1> SUFFICES ASSUME Init, NEW w \in Workers
             PROVE  /\ ~Has(stdin[w], FinishNow) /\ ~Has(queue[w], FinishNow)
                    /\ ~eof[w] /\ wpc[w] \notin {"hunt", "wait"}
  BY DEF HuntInv
<1>1. stdin[w] = <<>> /\ queue[w] = <<>> /\ ~eof[w] /\ wpc[w] \notin {"hunt", "wait"}
  BY DEF Init
<1>2. ~Has(<<>>, FinishNow)
  BY HasEmpty
<1> QED BY <1>1, <1>2

LEMMA HuntStep == TypeOK /\ ExecInv /\ HuntInv /\ [Next]_vars => HuntInv'
<1> SUFFICES ASSUME TypeOK, ExecInv, HuntInv, [Next]_vars, ~halted' PROVE HuntInv'
  BY DEF HuntInv
<1>0. ~halted /\ (teardown => teardown')
  BY Grows
<1>1. ASSUME UNCHANGED <<stdin, queue, eof, wpc>> PROVE HuntInv'
  BY <1>0, <1>1, HuntKeep
<1>2. ASSUME NEW r, RequestShutdown(r) PROVE HuntInv'
  BY <1>1, <1>2 DEF RequestShutdown, pipes, worker
<1>3. CASE DiskCheck \/ DiskEntry \/ CookerDies
  <2>1. UNCHANGED <<stdin, queue, eof, wpc>>
    BY <1>3 DEF DiskCheck, DiskEntry, CookerDies, pipes, worker
  <2> QED BY <1>1, <2>1
<1>4. ASSUME NEW t \in Tasks,
             ChildStart(t) \/ ChildExit(t, "exit0") \/ ChildExit(t, "exit1") \/ ChildTerminated(t)
      PROVE  HuntInv'
  BY <1>1, <1>4 DEF ChildStart, ChildExit, ChildTerminated, Ended, pipes, worker
<1>5. CASE UNCHANGED vars
  BY <1>1, <1>5 DEF vars, pipes, worker
<1> QED BY <1>0, <1>2, <1>3, <1>4, <1>5, ExecutorHunt, WorkerHunt DEF Next, Finished

-----------------------------------------------------------------------------
(* Where a task the executor waits for is                                  *)

Somewhere(t) ==
  \/ Dead(WorkerOf[t])
  \/ Holds(stdin[WorkerOf[t]], t) \/ Holds(queue[WorkerOf[t]], t)
  \/ child[t] \in {"forked", "guarded", "session", "exit0", "exit1"}
  \/ Reports(outq[WorkerOf[t]], t) \/ Reports(stdout[WorkerOf[t]], t)

FoundInv == ~halted => \A t \in live : Somewhere(t)

LEMMA FoundIsNothingLost == TypeOK /\ FoundInv => NothingLost
BY DEF TypeOK, FoundInv, Somewhere, NothingLost, Alive, Zombies, ChildrenOf

LEMMA FoundKeep ==
  ASSUME FoundInv, ~halted, live' \subseteq live, \A t \in live' : Somewhere(t) => Somewhere(t)'
  PROVE  FoundInv'
BY DEF FoundInv

LEMMA ExecutorFound ==
  ASSUME TypeOK, LedgerInv, FoundInv, ExecutorStep, ~halted', ~halted
  PROVE  FoundInv'
<1>0. stdin \in [Workers -> Seq(Messages)] /\ stdout \in [Workers -> Seq(ExitCodes)] /\ live \subseteq Tasks
      /\ wpc \in [Workers -> {"absent", "select", "pass", "hunt", "wait", "reap", "join", "dead"}]
      /\ \A t \in Tasks : WorkerOf[t] \in Workers
  BY WorkerAssumption DEF TypeOK
<1>1. ASSUME UNCHANGED <<live, stdin, stdout, worker, process>> PROVE FoundInv'
  BY <1>1, FoundKeep DEF worker, process, Somewhere
<1>2. ASSUME NEW w \in Workers, Book(w, state), UNCHANGED <<stdin, worker, process>> PROVE FoundInv'
  <2>1. live' \subseteq live
    BY <1>2 DEF Book
  <2>2. \A t \in live' : Reports(stdout[WorkerOf[t]], t) => Reports(stdout'[WorkerOf[t]], t)
    <3> SUFFICES ASSUME NEW t \in live', Reports(stdout[WorkerOf[t]], t) PROVE Reports(stdout'[WorkerOf[t]], t)
      OBVIOUS
    <3>1. t \in Tasks /\ WorkerOf[t] \in Workers
      BY <1>0, <2>1
    <3>2. WorkerOf[t] # w
      BY <1>2, <3>1, BookLedger
    <3> QED BY <1>2, <3>1, <3>2, BookLedger
  <2> QED BY <1>2, <2>1, <2>2, FoundKeep DEF worker, process, Somewhere
<1>3. ASSUME NEW w \in Workers, read(w) PROVE FoundInv'
  BY <1>2, <1>3 DEF read
<1>4. ASSUME NEW w \in Workers, TeardownRead(w) PROVE FoundInv'
  BY <1>1, <1>2, <1>4 DEF TeardownRead
<1>5. ASSUME NEW w \in Workers, TeardownSend(w) PROVE FoundInv'
  <2>1. UNCHANGED <<live, stdout, worker, process>>
    BY <1>5 DEF TeardownSend
  <2>2. \A v \in Workers : stdin'[v] = stdin[v] \/ \E e \in {FinishNow, Quit} : stdin'[v] = Append(stdin[v], e)
    BY <1>0, <1>5 DEF TeardownSend
  <2>3. \A v \in Workers, t \in Tasks : Holds(stdin[v], t) => Holds(stdin'[v], t)
    BY <2>2, QuietStdin DEF LedgerInv
  <2> QED BY <1>0, <2>1, <2>3, FoundKeep DEF worker, process, Somewhere
<1>6. ASSUME NEW t \in Tasks, SendTask(t) PROVE FoundInv'
  <2> DEFINE w == WorkerOf[t]
  <2>0. w \in Workers /\ UNCHANGED <<stdout, queue, outq, child>>
    BY <1>0, <1>6 DEF SendTask, process
  <2>1. /\ wpc' = [wpc EXCEPT ![w] = IF @ = "absent" THEN "select" ELSE @]
        /\ stdin' = [stdin EXCEPT ![w] = Append(@, RunTask(t))]
        /\ live' = live \cup {t}
    BY <1>6 DEF SendTask
  <2>2. \A v \in Workers : wpc[v] = "dead" => wpc'[v] = "dead"
    BY <1>0, <2>1
  <2>3. \A m : Has(Append(stdin[w], RunTask(t)), m) <=> Has(stdin[w], m) \/ m = RunTask(t)
    BY <1>0, <2>0, HasAppend, MessageKinds
  <2>4. stdin'[w] = Append(stdin[w], RunTask(t)) /\ \A v \in Workers \ {w} : stdin'[v] = stdin[v]
    BY <1>0, <2>0, <2>1
  <2>5. \A v \in Workers, u \in Tasks : Holds(stdin[v], u) => Holds(stdin'[v], u)
    BY <2>3, <2>4, HoldsHas
  <2>6. Holds(stdin'[w], t)
    BY <2>3, <2>4, HoldsHas
  <2>7. \A u \in live : Somewhere(u)
    BY DEF FoundInv
  <2>8. \A u \in live : Somewhere(u)'
    BY <1>0, <2>0, <2>2, <2>5, <2>7 DEF Somewhere
  <2>9. Somewhere(t)'
    BY <2>6 DEF Somewhere
  <2> QED BY <2>1, <2>8, <2>9 DEF FoundInv
<1>7. CASE buildTargetsIdle
  BY <1>1, <1>7 DEF buildTargetsIdle
<1>8. CASE EnterRunqueue \/ FinishStep \/ SendNone \/ TeardownEnd
  BY <1>1, <1>8 DEF EnterRunqueue, FinishStep, SendNone, TeardownEnd, pipes
<1> QED BY <1>3, <1>4, <1>5, <1>6, <1>7, <1>8 DEF ExecutorStep

LEMMA WorkerFound ==
  ASSUME TypeOK, ExecInv, HuntInv, FoundInv, ~halted, NEW w \in Workers,
         WorkerStep(w) \/ worker_flush(w) \/ ForkFails(w) \/ WorkerDies(w)
  PROVE  FoundInv'
<1>0. /\ stdin \in [Workers -> Seq(Messages)] /\ queue \in [Workers -> Seq(Messages)]
      /\ outq \in [Workers -> Seq(ExitCodes)] /\ stdout \in [Workers -> Seq(ExitCodes)]
      /\ wpc \in [Workers -> {"absent", "select", "pass", "hunt", "wait", "reap", "join", "dead"}]
      /\ child \in [Tasks -> {"none", "forked", "guarded", "session", "exit0", "exit1", "reaped"}]
      /\ live \subseteq Tasks /\ \A t \in Tasks : WorkerOf[t] \in Workers
  BY WorkerAssumption DEF TypeOK
<1>a. live' = live
  BY DEF WorkerStep, worker_flush, ForkFails, WorkerDies, Select, handle_runtask, handle_finishnow, WaitAny,
         HuntReturn, handle_quit, EndPass, process_waitpid, Exit, Kill, executor
\* Only the worker's place changes, and it was not dead.
<1>1. ASSUME UNCHANGED <<stdin, queue, child, outq, stdout>>,
             wpc[w] # "dead", \E x : wpc' = [wpc EXCEPT ![w] = x]
      PROVE  FoundInv'
  <2>1. \A v \in Workers : wpc[v] = "dead" => wpc'[v] = "dead"
    BY <1>0, <1>1
  <2> QED BY <1>0, <1>1, <1>a, <2>1, FoundKeep DEF Somewhere
<1>2. CASE Select(w)
  <2>1. UNCHANGED <<child, outq, stdout>> /\ wpc[w] = "select"
    BY <1>2 DEF Select, process
  <2>2. CASE UNCHANGED <<queue, stdin>>
    <3>1. \E x : wpc' = [wpc EXCEPT ![w] = x]
      BY <1>2 DEF Select
    <3> QED BY <1>1, <2>1, <2>2, <3>1
  <2>3. CASE /\ queue' = [queue EXCEPT ![w] = queue[w] \o stdin[w]] /\ stdin' = [stdin EXCEPT ![w] = <<>>]
             /\ wpc' = [wpc EXCEPT ![w] = "pass"]
    <3>1. queue'[w] = queue[w] \o stdin[w] /\ \A v \in Workers \ {w} : queue'[v] = queue[v] /\ stdin'[v] = stdin[v]
      BY <1>0, <2>3
    <3>2. \A m : Has(queue[w], m) \/ Has(stdin[w], m) => Has(queue'[w], m)
      BY <1>0, <3>1, HasConcat
    <3>3. \A v \in Workers, t \in Tasks : Holds(stdin[v], t) \/ Holds(queue[v], t) => Holds(stdin'[v], t) \/ Holds(queue'[v], t)
      BY <3>1, <3>2, HoldsHas
    <3>4. \A v \in Workers : wpc[v] = "dead" => wpc'[v] = "dead"
      BY <1>0, <2>1, <2>3
    <3> QED BY <1>0, <1>a, <2>1, <3>3, <3>4, FoundKeep DEF Somewhere
  <2> QED BY <1>2, <2>2, <2>3 DEF Select
<1>3. CASE handle_runtask(w)
  <2> DEFINE t == Head(queue[w]).task
  <2>1. /\ child' = [child EXCEPT ![t] = "forked"] /\ queue' = [queue EXCEPT ![w] = Tail(queue[w])]
        /\ UNCHANGED <<stdin, outq, stdout, wpc>>
    BY <1>3 DEF handle_runtask, pipes
  <2>2. queue[w] \in Seq(Messages) /\ queue[w] # <<>> /\ Head(queue[w]).kind = "runtask"
    BY <1>0, <1>3 DEF handle_runtask, HeadIs
  <2>3. t \in Tasks /\ Head(queue[w]) = RunTask(t)
    <3>1. Head(queue[w]) \in Messages
      BY <2>2
    <3> QED BY <2>2, <3>1, MessageKinds
  <2>4. \A m : Has(queue[w], m) <=> m = Head(queue[w]) \/ Has(Tail(queue[w]), m)
    BY <2>2, HasTail
  <2>5. \A u \in Tasks : Holds(queue[w], u) => u = t \/ Holds(Tail(queue[w]), u)
    BY <2>3, <2>4, HoldsHas, MessageKinds
  <2>6. queue'[w] = Tail(queue[w]) /\ \A v \in Workers \ {w} : queue'[v] = queue[v]
    BY <1>0, <2>1
  <2>7. child'[t] = "forked" /\ \A u \in Tasks \ {t} : child'[u] = child[u]
    BY <1>0, <2>1, <2>3
  <2> HIDE DEF t
  <2>8. ASSUME NEW u \in live, Somewhere(u) PROVE Somewhere(u)'
    <3>1. u \in Tasks /\ WorkerOf[u] \in Workers
      BY <1>0
    <3>2. CASE u = t
      BY <2>7, <3>2 DEF Somewhere
    <3>3. CASE u # t
      BY <2>1, <2>5, <2>6, <2>7, <2>8, <3>1, <3>3 DEF Somewhere
    <3> QED BY <3>2, <3>3
  <2> QED BY <1>a, <2>8, FoundKeep
<1>4. CASE handle_finishnow(w)
  <2>1. queue[w] \in Seq(Messages) /\ queue[w] # <<>> /\ Head(queue[w]).kind = "finishnow"
    BY <1>0, <1>4 DEF handle_finishnow, HeadIs
  <2>2. Head(queue[w]) = FinishNow
    BY <2>1, MessageKinds
  <2>3. Has(queue[w], FinishNow)
    BY <2>1, <2>2, HasTail
  <2> QED BY <2>3 DEF HuntInv
<1>5. ASSUME NEW t \in Tasks, Kill(w, t) PROVE FoundInv'
  <2>1. UNCHANGED <<stdin, queue, child, outq, stdout>> /\ wpc[w] # "dead"
        /\ (wpc' = wpc \/ wpc' = [wpc EXCEPT ![w] = "wait"])
    BY <1>5 DEF Kill, pipes
  <2>2. CASE wpc' = wpc
    BY <1>a, <2>1, <2>2, FoundKeep DEF Somewhere
  <2>3. CASE wpc' = [wpc EXCEPT ![w] = "wait"]
    <3>1. \E x : wpc' = [wpc EXCEPT ![w] = x]
      BY <2>3
    <3> QED BY <1>1, <2>1, <3>1
  <2> QED BY <2>1, <2>2, <2>3
<1>6. CASE WaitAny(w)
  <2>1. teardown
    BY <1>6 DEF WaitAny, HuntInv
  <2>2. live = {}
    BY <2>1 DEF ExecInv, Waits
  <2> QED BY <1>a, <2>2 DEF FoundInv
<1>7. CASE handle_quit(w) \/ ForkFails(w) \/ EndPass(w)
  <2>1. UNCHANGED <<stdin, queue, child, outq, stdout>> /\ wpc[w] # "dead" /\ \E x : wpc' = [wpc EXCEPT ![w] = x]
    BY <1>7 DEF handle_quit, ForkFails, EndPass, HeadIs, pipes, process
  <2> QED BY <1>1, <2>1
<1>8. CASE process_waitpid(w)
  <2>1. PICK t \in Zombies(w) :
         /\ child' = [child EXCEPT ![t] = "reaped"]
         /\ outq' = [outq EXCEPT ![w] = Append(outq[w], [task |-> t, status |-> IF child[t] = "exit0" THEN 0 ELSE 1])]
         /\ \E x : wpc' = [wpc EXCEPT ![w] = x]
    BY <1>8 DEF process_waitpid
  <2> DEFINE e == [task |-> t, status |-> IF child[t] = "exit0" THEN 0 ELSE 1]
  <2>2. t \in Tasks /\ WorkerOf[t] = w /\ e \in ExitCodes /\ e.task = t
    BY DEF Zombies, ChildrenOf, ExitCodes
  <2>3. outq'[w] = Append(outq[w], e) /\ \A v \in Workers \ {w} : outq'[v] = outq[v]
    BY <1>0, <2>1
  <2> HIDE DEF e
  <2>4. \A u \in Tasks : Reports(outq'[w], u) <=> Reports(outq[w], u) \/ u = t
    BY <1>0, <2>2, <2>3, ReportsAppend
  <2>5. UNCHANGED <<stdin, queue, stdout>> /\ wpc[w] = "reap"
    BY <1>8 DEF process_waitpid, pipes
  <2>6. \A v \in Workers : wpc[v] = "dead" => wpc'[v] = "dead"
    BY <1>0, <2>1, <2>5
  <2>7. \A u \in Tasks \ {t} : child'[u] = child[u]
    BY <1>0, <2>1
  <2>8. ASSUME NEW u \in live, Somewhere(u) PROVE Somewhere(u)'
    <3>1. u \in Tasks /\ WorkerOf[u] \in Workers
      BY <1>0
    <3>2. CASE u = t
      BY <2>2, <2>4, <3>1, <3>2 DEF Somewhere
    <3>3. CASE u # t
      BY <2>3, <2>4, <2>5, <2>6, <2>7, <2>8, <3>1, <3>3 DEF Somewhere
    <3> QED BY <3>2, <3>3
  <2> QED BY <1>a, <2>8, FoundKeep
<1>9. CASE worker_flush(w)
  <2>1. /\ outq[w] \in Seq(ExitCodes) /\ outq[w] # <<>> /\ stdout[w] \in Seq(ExitCodes)
        /\ stdout' = [stdout EXCEPT ![w] = Append(stdout[w], Head(outq[w]))]
        /\ outq' = [outq EXCEPT ![w] = Tail(outq[w])]
        /\ UNCHANGED <<stdin, queue, child, wpc>>
    BY <1>0, <1>9 DEF worker_flush, process
  <2>2. \A u \in Tasks : Reports(outq[w], u) <=> Head(outq[w]).task = u \/ Reports(Tail(outq[w]), u)
    BY <2>1, ReportsTail
  <2>3. \A u \in Tasks : Reports(Append(stdout[w], Head(outq[w])), u) <=> Reports(stdout[w], u) \/ Head(outq[w]).task = u
    <3>1. Head(outq[w]) \in ExitCodes
      BY <2>1
    <3> QED BY <2>1, <3>1, ReportsAppend
  <2>4. /\ outq'[w] = Tail(outq[w]) /\ stdout'[w] = Append(stdout[w], Head(outq[w]))
        /\ \A v \in Workers \ {w} : outq'[v] = outq[v] /\ stdout'[v] = stdout[v]
    BY <1>0, <2>1
  <2>5. \A v \in Workers, u \in Tasks : Reports(outq[v], u) \/ Reports(stdout[v], u) => Reports(outq'[v], u) \/ Reports(stdout'[v], u)
    BY <2>2, <2>3, <2>4
  <2> QED BY <1>0, <1>a, <2>1, <2>5, FoundKeep DEF Somewhere
<1>10. ASSUME Die(w), stdout' = stdout PROVE FoundInv'
  <2>1. wpc'[w] = "dead" /\ \A v \in Workers \ {w} :
          wpc'[v] = wpc[v] /\ stdin'[v] = stdin[v] /\ queue'[v] = queue[v] /\ outq'[v] = outq[v]
    BY <1>0, <1>10 DEF Die
  <2>2. \A t \in Tasks : WorkerOf[t] # w => child'[t] = child[t]
    BY <1>10 DEF Die, Zombies, ChildrenOf
  <2>3. ASSUME NEW u \in live, Somewhere(u) PROVE Somewhere(u)'
    <3>1. u \in Tasks /\ WorkerOf[u] \in Workers
      BY <1>0
    <3>2. CASE WorkerOf[u] = w
      BY <2>1, <3>2 DEF Somewhere
    <3>3. CASE WorkerOf[u] # w
      BY <1>10, <2>1, <2>2, <2>3, <3>1, <3>3 DEF Somewhere
    <3> QED BY <3>2, <3>3
  <2> QED BY <1>a, <2>3, FoundKeep
<1>11. CASE HuntReturn(w)
  <2>1. CASE dying[w]
    BY <1>10, <1>11, <2>1 DEF HuntReturn
  <2>2. CASE ~dying[w]
    <3>1. wpc' = [wpc EXCEPT ![w] = "pass"] /\ wpc[w] # "dead" /\ UNCHANGED <<stdin, queue, outq, stdout, child>>
      BY <1>11, <2>2 DEF HuntReturn, process
    <3> QED BY <1>1, <3>1
  <2> QED BY <2>1, <2>2
<1>12. CASE Exit(w) \/ WorkerDies(w)
  BY <1>10, <1>12 DEF Exit, WorkerDies
<1> QED
  BY <1>2, <1>3, <1>4, <1>5, <1>6, <1>7, <1>8, <1>9, <1>11, <1>12 DEF WorkerStep

LEMMA FoundStep == TypeOK /\ LedgerInv /\ ExecInv /\ HuntInv /\ FoundInv /\ [Next]_vars => FoundInv'
<1> SUFFICES ASSUME TypeOK, LedgerInv, ExecInv, HuntInv, FoundInv, [Next]_vars, ~halted' PROVE FoundInv'
  BY DEF FoundInv
<1>0. ~halted
  BY Grows
<1>1. ASSUME UNCHANGED <<live, stdin, stdout, worker, process>> PROVE FoundInv'
  BY <1>0, <1>1, FoundKeep DEF worker, process, Somewhere
<1>2. ASSUME NEW r, RequestShutdown(r) PROVE FoundInv'
  BY <1>1, <1>2 DEF RequestShutdown, pipes
<1>3. CASE DiskCheck \/ DiskEntry \/ CookerDies
  <2>1. UNCHANGED <<live, stdin, stdout, worker, process>>
    BY <1>3 DEF DiskCheck, DiskEntry, CookerDies, pipes
  <2> QED BY <1>1, <2>1
<1>4. ASSUME NEW t \in Tasks,
             ChildStart(t) \/ ChildExit(t, "exit0") \/ ChildExit(t, "exit1") \/ ChildTerminated(t)
      PROVE  FoundInv'
  <2>1. UNCHANGED <<live, stdin, stdout, worker>>
    BY <1>4 DEF ChildStart, ChildExit, ChildTerminated, Ended, executor, pipes
  <2>2. child \in [Tasks -> {"none", "forked", "guarded", "session", "exit0", "exit1", "reaped"}] /\ live \subseteq Tasks
    BY DEF TypeOK
  <2>3. \A u \in Tasks \ {t} : child'[u] = child[u]
    BY <1>4, <2>2 DEF ChildStart, ChildExit, ChildTerminated, Ended
  <2>4. child'[t] \in {"guarded", "session", "exit0", "exit1"} \/ Dead(WorkerOf[t])
    BY <1>4, <2>2 DEF ChildStart, ChildExit, ChildTerminated, Ended
  <2>5. UNCHANGED <<stdin, queue, outq, stdout, wpc>>
    BY <2>1 DEF worker
  <2>6. ASSUME NEW u \in live, Somewhere(u) PROVE Somewhere(u)'
    <3>1. CASE u = t
      BY <2>4, <2>5, <3>1 DEF Somewhere
    <3>2. CASE u # t
      BY <2>2, <2>3, <2>5, <2>6, <3>2 DEF Somewhere
    <3> QED BY <3>1, <3>2
  <2> QED BY <1>0, <2>1, <2>6, FoundKeep
<1>5. CASE UNCHANGED vars
  BY <1>1, <1>5 DEF vars, executor, pipes
<1> QED BY <1>0, <1>2, <1>3, <1>4, <1>5, ExecutorFound, WorkerFound DEF Next, Finished

\* The fairness is not needed for safety.
LEMMA SafetySpec == Spec => Init /\ [][Next]_vars
BY DEF Spec

\* Every variable of the executor, of the workers and of the tasks stays in its type.
THEOREM TypeCorrect == Spec => []TypeOK
BY InitTypes, NextTypes, SafetySpec, PTL

\* The inductive invariant: where each task is, what the executor waits for, and when
\* a worker hunts.
THEOREM Invariant == Spec => [](TypeOK /\ LedgerInv /\ ExecInv /\ HuntInv /\ FoundInv)
<1>1. Init => TypeOK /\ LedgerInv /\ ExecInv /\ HuntInv /\ FoundInv
  <2>1. Init => FoundInv
    BY DEF Init, FoundInv
  <2> QED BY <2>1, InitTypes, InitLedger, InitWaits, InitHunt
<1>2. TypeOK /\ LedgerInv /\ ExecInv /\ HuntInv /\ FoundInv /\ [Next]_vars
      => (TypeOK /\ LedgerInv /\ ExecInv /\ HuntInv /\ FoundInv)'
  BY NextTypes, LedgerStep, WaitsStep, HuntStep, FoundStep
<1> QED BY <1>1, <1>2, SafetySpec, PTL

\* A task the executor has booked has really ended: its process was collected.  (The
\* executor believes every exit code that arrives.)
THEOREM Booked == Spec => []BookedIsOver
<1>1. LedgerInv => BookedIsOver
  BY DEF LedgerInv
<1> QED BY <1>1, Invariant, PTL

\* Unless the build is cut short, a task the executor waits for is in a pipe or a
\* queue, is a process, or its exit code is on its way back.
THEOREM Found == Spec => []NothingLost
BY Invariant, FoundIsNothingLost, PTL

\* The workers of a build that is not cut short are torn down only when no task's
\* process is left.
THEOREM Polite == Spec => []PoliteEnd
<1>1. TypeOK /\ LedgerInv /\ ExecInv => PoliteEnd
  <2> SUFFICES ASSUME TypeOK, LedgerInv, ExecInv, pc \in {"teardown", "drain", "ended"}, ~halted, NEW t \in Tasks
               PROVE  ~Alive(t) /\ t \notin Zombies(WorkerOf[t])
    BY DEF PoliteEnd
  <2>1. live = {}
    BY DEF ExecInv, Waits
  <2>2. child[t] \in {"none", "reaped"}
    BY <2>1 DEF LedgerInv, SentInv, BookedIsOver
  <2> QED BY <2>2 DEF Alive, Zombies
<1> QED BY <1>1, Invariant, PTL
=============================================================================
