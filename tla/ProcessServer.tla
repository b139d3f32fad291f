---------------------------- MODULE ProcessServer ----------------------------
(***************************************************************************)
(* The bitbake server of a build directory (bb/server/process.py) and the  *)
(* commands it runs for its clients (bb/command.py, bb/cooker.py).         *)
(*                                                                         *)
(* The main thread accepts clients, one of which has its commands read;    *)
(* the others queue.  Synchronous commands run in the main thread.  An     *)
(* asynchronous one is recorded in currentAsyncCommand, and an idle        *)
(* function is registered that the idle thread calls until the command is  *)
(* over: runAsyncCommand ("async" below), which parses and calls the       *)
(* command's method, and for a build a second one, buildTargetsIdle or     *)
(* buildFileIdle ("build").  Each critical section of _idlefuncsLock is a  *)
(* part of one step here.                                                  *)
(*                                                                         *)
(* What a build does is the subject of RunQueue and Worker.  Left out: the *)
(* XMLRPC interface, the synchronous commands that only read or set data,  *)
(* SIGTERM, and the lock file that keeps a second server away.             *)
(***************************************************************************)
EXTENDS Naturals, Sequences

CONSTANTS
  Clients,   \* names of connections; one is used again when the server has closed it
  Setups,    \* the servers to consider: server_timeout, which is "none", "some" or "never"
             \* (-1), and for the clients that come the commands they send
  MaxSent,   \* bound: commands on one connection
  None

Asynchronous == {"build", "file", "query"}

Commands ==
  {"build",      \* an asynchronous command that builds and needs the recipes parsed
   "file",       \* one that builds and does not (buildFile)
   "query",      \* one that does not build and needs the recipes parsed
   "stop", "force",  \* stateShutdown and stateForceShutdown
   "terminate"}  \* terminateServer

ASSUME NoneAssumption == None \notin Clients \cup [client : Clients, kind : Asynchronous]
ASSUME SetupAssumption ==
  Setups \subseteq [timeout : {"none", "some", "never"},
                    commands : UNION {[C -> SUBSET Commands] : C \in SUBSET Clients}]
ASSUME BoundAssumption == MaxSent \in Nat

VARIABLES
  setup,     \* of this server
  \* the main thread
  quit,
  mpc,       \* where it stands
  job,       \* the asynchronous command it is about to start
  ctrl,      \* the client behind controllersock and the command channel, or None
  haveui, hadanyui,
  newconnections,
  backlog,   \* connections not yet accepted
  \* shared by the threads
  idlefuns,  \* the keys of _idlefuns
  async,     \* currentAsyncCommand with its client, or None
  state,     \* cooker.state
  interrupt, \* bb.event._should_exit
  parser,    \* cooker.parser: "none" (or out of date), "live" with processes, "cached"
             \* without any, "shut" when its processes were stopped
  \* the idle thread
  ipc, items,
  plan,      \* what it still does about a function that has returned
  \* a client
  conn, chan,
  pending,   \* it waits for a reply
  sent,
  \* history
  owed,      \* its command was accepted and it has not been told the end
  heard,     \* the clients whose commands' ends it was told; None for an end that was not owed
  told       \* the strongest shutdown asked for during the current command

mainthread == <<quit, mpc, job, ctrl, haveui, hadanyui, newconnections>>
cooker == <<state, interrupt, parser>>
shared == <<idlefuns, async, cooker>>
idlethread == <<ipc, items, plan>>
client == <<conn, chan, pending, sent>>
history == <<owed, heard, told>>
vars == <<setup, mainthread, backlog, shared, idlethread, client, history>>

timeout == setup.timeout

Builds == {"build", "file"}
NeedCache == {"build", "query"}

Init ==
  /\ setup \in Setups
  /\ quit = FALSE /\ mpc = "select" /\ job = None
  /\ ctrl = None /\ haveui = FALSE /\ hadanyui = FALSE /\ newconnections = <<>> /\ backlog = <<>>
  /\ idlefuns = {} /\ async = None
  /\ state = "initial" /\ interrupt = FALSE /\ parser = "none"
  /\ ipc = "top" /\ items = {} /\ plan = <<>>
  /\ conn = [c \in Clients |-> "out"] /\ chan = [c \in Clients |-> <<>>]
  /\ pending = [c \in Clients |-> FALSE] /\ sent = [c \in Clients |-> 0]
  /\ owed = [c \in Clients |-> FALSE] /\ heard = [c \in Clients |-> {}] /\ told = "none"

\* The server has exited, and with it go all connections.
Gone == mpc = "gone"

_idle_check == idlefuns = {} /\ async = None

-----------------------------------------------------------------------------
(* Clients (bb/main.py)                                                    *)

\* The server has, or will accept, the connection of c.
Holds(c) == c = ctrl \/ \E q \in {newconnections, backlog} : \E i \in DOMAIN q : q[i] = c

\* connectProcessServer sends the descriptors and setFeatures at once.
Connect(c) ==
  /\ conn[c] \in {"out", "left"} /\ c \in DOMAIN setup.commands /\ ~Holds(c) /\ ~Gone
  /\ conn' = [conn EXCEPT ![c] = "asked"]
  /\ backlog' = Append(backlog, c)
  /\ chan' = [chan EXCEPT ![c] = <<"features">>]
  /\ pending' = [pending EXCEPT ![c] = TRUE]
  /\ UNCHANGED <<setup, mainthread, shared, idlethread, sent, history>>

\* ServerCommunicator: a command is sent when the last one was answered.
Send(c, k) ==
  /\ conn[c] = "ui" /\ ~pending[c] /\ k \in setup.commands[c] /\ sent[c] < MaxSent /\ ~Gone
  /\ chan' = [chan EXCEPT ![c] = Append(@, k)]
  /\ pending' = [pending EXCEPT ![c] = k # "terminate"]
  /\ sent' = [sent EXCEPT ![c] = @ + 1]
  /\ UNCHANGED <<setup, mainthread, backlog, shared, idlethread, conn, history>>

\* The client closes its ends of the connection.
Close(c) ==
  /\ conn[c] \in {"asked", "ui"}
  /\ conn' = [conn EXCEPT ![c] = "left"]
  /\ pending' = [pending EXCEPT ![c] = FALSE]
  /\ owed' = [owed EXCEPT ![c] = FALSE]
  /\ sent' = [sent EXCEPT ![c] = 0]
  /\ UNCHANGED <<setup, mainthread, backlog, shared, idlethread, chan, heard, told>>

\* A user interface leaves when it has had its answers.  When there is no answer in
\* sixty seconds it leaves as well; the server takes thirty.
Leave(c) ==
  /\ conn[c] = "ui" /\ ~owed[c]
  /\ pending[c] => chan[c] = <<>> /\ ~(job # None /\ job.client = c)
  /\ Close(c)

-----------------------------------------------------------------------------
(* The main thread                                                         *)

Reply(c, st) ==
  /\ pending' = [pending EXCEPT ![c] = FALSE]
  /\ conn' = [conn EXCEPT ![c] = IF @ = "left" THEN @ ELSE st]

\* The head of main's loop: the socket is readable.
Accept ==
  /\ mpc = "select" /\ ~quit /\ backlog # <<>>
  /\ IF ctrl = None
     THEN ctrl' = Head(backlog) /\ UNCHANGED newconnections
     ELSE newconnections' = Append(newconnections, Head(backlog)) /\ UNCHANGED ctrl
  /\ backlog' = Tail(backlog)
  /\ UNCHANGED <<setup, quit, mpc, job, haveui, hadanyui, shared, idlethread, client, history>>

\* The descriptors of the controlling client arrive.
Attach ==
  /\ mpc = "select" /\ ~quit /\ ctrl # None /\ ~haveui
  /\ haveui' = TRUE /\ hadanyui' = TRUE
  /\ UNCHANGED <<setup, quit, mpc, job, ctrl, newconnections, backlog, shared, idlethread, client, history>>

\* Nobody has been there for some time: server_timeout, or maxuiwait before the first.
TimeOut ==
  /\ mpc = "select" /\ ~quit
  /\ \/ timeout = "some" /\ ~haveui
     \/ timeout = "none" /\ ~hadanyui
  /\ quit' = TRUE
  /\ UNCHANGED <<setup, mpc, job, ctrl, haveui, hadanyui, newconnections, backlog,
                 shared, idlethread, client, history>>

\* The client's end of either connection is closed: disconnect_client begins.
\* Commands that were not read are lost.
Disconnect ==
  /\ mpc = "select" /\ ~quit /\ haveui /\ conn[ctrl] = "left"
  /\ mpc' = "disconnect"
  /\ chan' = [chan EXCEPT ![ctrl] = <<>>]
  /\ UNCHANGED <<setup, quit, job, ctrl, haveui, hadanyui, newconnections, backlog,
                 shared, idlethread, conn, pending, sent, history>>

\* Mutant: a time-out of wait_for_idle goes unnoticed.
DisconnectEnd_GoesOn(idle) ==
  /\ mpc = "disconnect"
  /\ haveui' = FALSE
  /\ state' = "initial" /\ interrupt' = FALSE /\ parser' = "none"
  /\ IF newconnections # <<>> /\ ~quit
     THEN /\ ctrl' = newconnections[Len(newconnections)]
          /\ newconnections' = SubSeq(newconnections, 1, Len(newconnections) - 1)
          /\ quit' = quit
     ELSE /\ ctrl' = None
          /\ quit' = (quit \/ (timeout = "none" /\ backlog = <<>>))
          /\ UNCHANGED newconnections
  /\ mpc' = "select"
  /\ UNCHANGED <<setup, job, hadanyui, backlog, idlefuns, async, idlethread, client, history>>

\* Mutant: clients that wait are left waiting.
DisconnectEnd_NoNext(idle) ==
  /\ mpc = "disconnect"
  /\ haveui' = FALSE
  /\ state' = "initial" /\ interrupt' = FALSE /\ parser' = "none"
  /\ ctrl' = None
  /\ quit' = (quit \/ ~idle \/ (timeout = "none" /\ backlog = <<>> /\ newconnections = <<>>))
  /\ mpc' = "select"
  /\ UNCHANGED <<setup, job, hadanyui, newconnections, backlog, idlefuns, async, idlethread, client, history>>

\* disconnect_client after wait_for_idle, which may time out: clientComplete, and the
\* next client, the latest of those that wait.
DisconnectEnd(idle) ==
  /\ mpc = "disconnect"
  /\ haveui' = FALSE
  /\ state' = "initial" /\ interrupt' = FALSE /\ parser' = "none"
  /\ IF newconnections # <<>> /\ (idle /\ ~quit)
     THEN /\ ctrl' = newconnections[Len(newconnections)]
          /\ newconnections' = SubSeq(newconnections, 1, Len(newconnections) - 1)
          /\ quit' = quit
     ELSE /\ ctrl' = None
          /\ quit' = (quit \/ ~idle \/ (timeout = "none" /\ backlog = <<>>))
          /\ UNCHANGED newconnections
  /\ mpc' = "select"
  /\ UNCHANGED <<setup, job, hadanyui, backlog, idlefuns, async, idlethread, client, history>>

\* Mutant: it waits without a time-out.
wait_for_idle_Forever == _idle_check /\ DisconnectEnd(TRUE)

\* wait_for_idle returns: the idle thread is idle, or thirty seconds have passed.
wait_for_idle == IF _idle_check THEN DisconnectEnd(TRUE) ELSE DisconnectEnd(FALSE)

\* The parser's processes are stopped, if there are any.
ParserShutdown == parser' = IF parser = "live" THEN "shut" ELSE parser

\* Mutant: a forced shutdown is only a state of the cooker.
shutdown_StateOnly(force) ==
  /\ state' = IF force THEN "forceshutdown" ELSE "shutdown"
  /\ told' = IF async = None THEN told ELSE IF force \/ told = "force" THEN "force" ELSE "stop"
  /\ ParserShutdown
  /\ UNCHANGED interrupt

\* BBCooker.shutdown, for stateShutdown and stateForceShutdown.
shutdown(force) ==
  /\ state' = IF force THEN "forceshutdown" ELSE "shutdown"
  /\ interrupt' = (interrupt \/ force)
  /\ told' = IF async = None THEN told ELSE IF force \/ told = "force" THEN "force" ELSE "stop"
  /\ ParserShutdown

\* A synchronous command, or terminateServer.
SyncCommand(k) ==
  /\ mpc = "select" /\ ~quit /\ haveui /\ chan[ctrl] # <<>> /\ Head(chan[ctrl]) = k
  /\ chan' = [chan EXCEPT ![ctrl] = Tail(@)]
  /\ IF k \in {"stop", "force"} THEN shutdown(k = "force") ELSE UNCHANGED <<cooker, told>>
  /\ quit' = (k = "terminate")
  /\ IF k = "terminate" THEN UNCHANGED <<pending, conn>> ELSE Reply(ctrl, "ui")
  /\ UNCHANGED <<setup, mpc, job, ctrl, haveui, hadanyui, newconnections, backlog,
                 idlefuns, async, idlethread, sent, owed, heard>>

\* runCommand of an asynchronous command, up to set_async_cmd.
AsyncCommand ==
  /\ mpc = "select" /\ ~quit /\ haveui /\ chan[ctrl] # <<>> /\ Head(chan[ctrl]) \in Asynchronous
  /\ chan' = [chan EXCEPT ![ctrl] = Tail(@)]
  /\ job' = [client |-> ctrl, kind |-> Head(chan[ctrl])]
  /\ mpc' = "set_async_cmd"
  /\ UNCHANGED <<setup, quit, ctrl, haveui, hadanyui, newconnections, backlog,
                 shared, idlethread, conn, pending, sent, history>>

\* Mutant: only the current command counts, not the functions that still are registered.
set_async_cmd_CommandOnly ==
  /\ mpc = "set_async_cmd" /\ async = None
  /\ async' = job
  /\ owed' = [owed EXCEPT ![job.client] = conn[job.client] # "left"]
  /\ mpc' = "register"
  /\ UNCHANGED <<setup, quit, job, ctrl, haveui, hadanyui, newconnections, backlog,
                 idlefuns, cooker, idlethread, client, heard, told>>

\* set_async_cmd waits for the idle thread to be idle.
set_async_cmd ==
  /\ mpc = "set_async_cmd" /\ _idle_check
  /\ async' = job
  /\ owed' = [owed EXCEPT ![job.client] = conn[job.client] # "left"]
  /\ mpc' = "register"
  /\ UNCHANGED <<setup, quit, job, ctrl, haveui, hadanyui, newconnections, backlog,
                 idlefuns, cooker, idlethread, client, heard, told>>

\* register_idle_function, and the reply.
register_idle_function ==
  /\ mpc = "register"
  /\ idlefuns' = idlefuns \cup {"async"}
  /\ Reply(job.client, "ui")
  /\ mpc' = "select" /\ job' = None
  /\ UNCHANGED <<setup, quit, ctrl, haveui, hadanyui, newconnections, backlog,
                 async, cooker, idlethread, chan, sent, history>>

\* It was not idle within thirty seconds.
SetTimesOut ==
  /\ mpc = "set_async_cmd" /\ ~_idle_check
  /\ mpc' = "busy"
  /\ UNCHANGED <<setup, quit, job, ctrl, haveui, hadanyui, newconnections, backlog,
                 shared, idlethread, client, history>>

\* The reply names the command in progress.  When it is over by now that is an
\* exception, and there is no reply.
Busy ==
  /\ mpc = "busy"
  /\ IF async # None THEN Reply(job.client, "ui") ELSE UNCHANGED <<pending, conn>>
  /\ mpc' = "select" /\ job' = None
  /\ UNCHANGED <<setup, quit, ctrl, haveui, hadanyui, newconnections, backlog,
                 shared, idlethread, chan, sent, history>>

\* The end of main: the idle thread is joined, and the process exits.
Exit ==
  /\ mpc = "select" /\ quit /\ ipc = "ended"
  /\ mpc' = "gone"
  /\ ctrl' = None /\ haveui' = FALSE /\ newconnections' = <<>> /\ backlog' = <<>>
  /\ idlefuns' = {} /\ async' = None
  /\ state' = "forceshutdown" /\ interrupt' = TRUE /\ parser' = "none"
  /\ conn' = [c \in Clients |-> "left"] /\ chan' = [c \in Clients |-> <<>>]
  /\ pending' = [c \in Clients |-> FALSE] /\ owed' = [c \in Clients |-> FALSE]
  /\ told' = "none" /\ sent' = [c \in Clients |-> 0]
  /\ UNCHANGED <<setup, quit, job, hadanyui, idlethread, heard>>

MainStep ==
  \/ Accept \/ Attach \/ TimeOut \/ Disconnect \/ wait_for_idle
  \/ \E k \in {"features", "stop", "force", "terminate"} : SyncCommand(k)
  \/ AsyncCommand \/ set_async_cmd \/ register_idle_function \/ SetTimesOut \/ Busy
  \/ Exit

-----------------------------------------------------------------------------
(* The idle thread                                                         *)

\* Mutant: idleFinish only removes the function.
IdleFinish_Silent(f) == <<[op |-> "remove", fun |-> f]>>

\* What follows an idle function that returned idleFinish, one that called
\* finishAsyncCommand itself and returned False, and one that only returned False.
IdleFinish(f) == <<[op |-> "remove", fun |-> f], [op |-> "fire"], [op |-> "finishcommand"],
                   [op |-> "clear_async_cmd"]>>
FinishedItself(f) == <<[op |-> "fire"], [op |-> "finishcommand"], [op |-> "clear_async_cmd"],
                       [op |-> "remove", fun |-> f]>>
ReturnFalse(f) == <<[op |-> "remove", fun |-> f]>>

Then(steps) == ipc' = (IF steps = <<>> THEN "loop" ELSE "plan") /\ plan' = steps

\* The head of the loop in idle_thread_internal.
Loop ==
  /\ ipc = "top"
  /\ IF quit
     THEN ipc' = "ended" /\ UNCHANGED items
     ELSE ipc' = "loop" /\ items' = idlefuns
  /\ UNCHANGED <<setup, mainthread, backlog, shared, plan, client, history>>

\* The next function is called, in the order of registration.
Call ==
  /\ ipc = "loop"
  /\ ipc' = CASE "async" \in items -> "async"
              [] "async" \notin items /\ "build" \in items -> "build"
              [] OTHER -> "top"
  /\ items' = items \ {ipc'}
  /\ UNCHANGED <<setup, mainthread, backlog, shared, plan, client, history>>

\* runAsyncCommand.  The state is read several times up to the same decision, which is
\* made by the first read.
runAsyncCommand ==
  /\ ipc = "async"
  /\ IF state \in {"shutdown", "forceshutdown"} \/ async = None
     THEN Then(IdleFinish("async"))
     ELSE /\ ipc' = IF async.kind \in NeedCache /\ state # "running" THEN "updateCache" ELSE "method"
          /\ UNCHANGED plan
  /\ UNCHANGED <<setup, mainthread, backlog, shared, items, client, history>>

\* updateCache creates a parser unless there is one, and sets the state.
updateCache ==
  /\ ipc = "updateCache"
  /\ parser' \in IF state # "parsing" /\ parser = "none" THEN {"live", "cached"} ELSE {parser}
  /\ state' = "parsing"
  /\ ipc' = "parse_next"
  /\ UNCHANGED <<setup, mainthread, backlog, idlefuns, async, interrupt, items, plan, client, history>>

\* The parser has more to do, is done, or fails.  Without its processes it cannot go on.
parse_next ==
  /\ ipc = "parse_next"
  /\ \/ parser # "shut" /\ Then(<<>>)
     \/ ipc' = "parsed" /\ UNCHANGED plan
     \/ Then(IdleFinish("async"))
  /\ UNCHANGED <<setup, mainthread, backlog, shared, items, client, history>>

Parsed ==
  /\ ipc = "parsed"
  /\ state' = "running"
  /\ Then(<<>>)
  /\ UNCHANGED <<setup, mainthread, backlog, idlefuns, async, interrupt, parser, items, client, history>>

\* The method of the command: a build registers its idle function, the others finish
\* the command themselves.  Any may raise an exception.
Method ==
  /\ ipc = "method"
  /\ \/ /\ async.kind \in Builds
        /\ idlefuns' = idlefuns \cup {"build"}
        /\ Then(ReturnFalse("async"))
     \/ /\ async.kind \notin Builds
        /\ Then(FinishedItself("async"))
        /\ UNCHANGED idlefuns
     \/ Then(IdleFinish("async")) /\ UNCHANGED idlefuns
  /\ UNCHANGED <<setup, mainthread, backlog, async, cooker, items, client, history>>

\* buildTargetsIdle or buildFileIdle goes on.  An interrupt makes execute_runqueue raise
\* an exception before anything else.
BuildGoesOn ==
  /\ ipc = "build" /\ ~interrupt
  /\ Then(<<>>)
  /\ UNCHANGED <<setup, mainthread, backlog, shared, items, client, history>>

\* The end of buildFileIdle leaves the recipes to be parsed again.
BuildEnds ==
  /\ ipc = "build" /\ ~interrupt
  /\ parser' = IF async.kind = "file" THEN "none" ELSE parser
  /\ Then(IdleFinish("build"))
  /\ UNCHANGED <<setup, mainthread, backlog, idlefuns, async, state, interrupt, items, client, history>>

\* An exception in it makes the server quit.
BuildRaises ==
  /\ ipc = "build"
  /\ idlefuns' = idlefuns \ {"build"}
  /\ quit' = TRUE
  /\ Then(<<>>)
  /\ UNCHANGED <<setup, mpc, job, ctrl, haveui, hadanyui, newconnections, backlog,
                 async, cooker, items, client, history>>

remove_idle_func(f) == idlefuns' = idlefuns \ {f} /\ UNCHANGED <<async, cooker, owed, heard, told>>

\* finishAsyncCommand: the event goes to the client that is there, the command is
\* finished, and only then is there room for another.
FireEnd ==
  /\ IF haveui /\ conn[ctrl] # "left" /\ async # None
     THEN /\ owed' = [owed EXCEPT ![ctrl] = FALSE]
          /\ heard' = [heard EXCEPT ![ctrl] = @ \cup {IF owed[ctrl] THEN async.client ELSE None}]
     ELSE UNCHANGED <<owed, heard>>
  /\ UNCHANGED <<shared, told>>
finishcommand ==
  /\ ParserShutdown
  /\ state' = "initial" /\ interrupt' = FALSE
  /\ UNCHANGED <<idlefuns, async, owed, heard, told>>
clear_async_cmd == async' = None /\ told' = "none" /\ UNCHANGED <<idlefuns, cooker, owed, heard>>

Plan ==
  /\ ipc = "plan"
  /\ \/ Head(plan).op = "remove" /\ remove_idle_func(Head(plan).fun)
     \/ Head(plan).op = "fire" /\ FireEnd
     \/ Head(plan).op = "finishcommand" /\ finishcommand
     \/ Head(plan).op = "clear_async_cmd" /\ clear_async_cmd
  /\ Then(Tail(plan))
  /\ UNCHANGED <<setup, mainthread, backlog, items, client>>

IdleStep ==
  \/ Loop \/ Call \/ runAsyncCommand \/ updateCache \/ parse_next \/ Parsed \/ Method
  \/ BuildGoesOn \/ BuildEnds \/ BuildRaises \/ Plan

-----------------------------------------------------------------------------

Finished == Gone /\ UNCHANGED vars

Next ==
  \/ MainStep \/ IdleStep
  \/ \E c \in Clients : Connect(c) \/ Close(c) \/ \E k \in Commands : Send(c, k)
  \/ Finished

\* Both threads run, the parser comes to an end, and a user interface that has its
\* answers leaves.
Fairness ==
  /\ WF_vars(MainStep) /\ WF_vars(IdleStep)
  /\ SF_vars(parse_next /\ ipc' # "loop")
  /\ \A c \in Clients : WF_vars(Leave(c))

Spec == Init /\ [][Next]_vars /\ Fairness

\* In addition builds end, of which RunQueue and Worker tell; only a forced shutdown has
\* to work without that.
BuildSpec == Spec /\ SF_vars(BuildEnds /\ told # "force")

-----------------------------------------------------------------------------

Ops == {<<>>} \cup UNION {{SubSeq(p, i, Len(p)) : i \in 1..Len(p)} :
         p \in {IdleFinish("async"), IdleFinish("build"), FinishedItself("async"), ReturnFalse("async")}}

TypeOK ==
  /\ setup \in Setups /\ quit \in BOOLEAN
  /\ mpc \in {"select", "disconnect", "set_async_cmd", "register", "busy", "gone"}
  /\ job \in {None} \cup [client : Clients, kind : Asynchronous]
  /\ ctrl \in Clients \cup {None} /\ haveui \in BOOLEAN /\ hadanyui \in BOOLEAN
  /\ haveui => ctrl # None
  /\ newconnections \in Seq(Clients) /\ backlog \in Seq(Clients)
  /\ idlefuns \subseteq {"async", "build"} /\ items \subseteq {"async", "build"}
  /\ async \in {None} \cup [client : Clients, kind : Asynchronous]
  /\ state \in {"initial", "parsing", "running", "shutdown", "forceshutdown"}
  /\ interrupt \in BOOLEAN /\ parser \in {"none", "live", "cached", "shut"}
  /\ ipc \in {"top", "loop", "async", "updateCache", "parse_next", "parsed", "method", "build", "plan", "ended"}
  /\ plan \in Ops
  /\ conn \in [Clients -> {"out", "asked", "ui", "left"}] /\ pending \in [Clients -> BOOLEAN]
  /\ chan \in [Clients -> Seq(Commands \cup {"features"})] /\ sent \in [Clients -> 0..MaxSent]
  /\ owed \in [Clients -> BOOLEAN] /\ heard \in [Clients -> SUBSET (Clients \cup {None})] /\ told \in {"none", "stop", "force"}

\* The step of the idle thread that ends the current command is still to come.
Clearing == \E i \in DOMAIN plan : plan[i].op = "clear_async_cmd"

\* No command is forgotten: as long as there is one, an idle function is registered that
\* will see to it, or is about to be registered, or the idle thread is finishing the
\* command; and no idle function works for a command that is over (set_async_cmd checks
\* both the command and the functions).
Attended ==
  /\ async # None /\ ~quit => idlefuns # {} \/ mpc = "register" \/ Clearing
  /\ "build" \in idlefuns => async # None
  /\ ipc \in {"method", "updateCache", "parse_next", "parsed"} => async # None

\* A client is only told the end of its own commands, of this connection, and once,
\* whoever leaves, or comes back, while a command runs (disconnect_client waits for the
\* idle thread, or quits).
OwnEvents == \A c \in Clients : heard[c] \subseteq {c}

\* Every command that was accepted is answered with an event, unless its client leaves
\* or the server goes away.
Answered == \A c \in Clients : owed[c] ~> ~owed[c]

\* The server turns to a client that has connected after c, which still waits.
Overtakes(c) ==
  /\ ~Gone' /\ Len(newconnections') < Len(newconnections)
  /\ \E i \in DOMAIN newconnections' : newconnections'[i] = c

\* Every client that connects has its turn, unless it gives up or the server goes away,
\* or later clients come again and again and have theirs before it: newconnections is
\* served from its end.
Served == \A c \in Clients : <>[](conn[c] = "asked") => []<><<Overtakes(c)>>_vars

\* A server to which no clients come any more goes away, unless it was told to stay.
NoLinger ==
  <>[](timeout # "never" /\ \A c \in Clients : conn[c] \in {"out", "left"}) => <>Gone

\* A forced shutdown ends the current command, even a build that would never end, and
\* even when updateCache has overwritten the state (_should_exit, check_for_interrupts).
ForceHeard == told = "force" ~> told # "force"

\* A shutdown that was asked for during a command leaves the cooker in that mode until
\* the command is over ("Trigger cooker 'shutdown' mode").
ShutdownMode ==
  told # "none" /\ ~quit /\ ~Clearing => state \in {"shutdown", "forceshutdown"}

=============================================================================
