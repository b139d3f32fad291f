---------------------------- MODULE CookerParser ----------------------------
(***************************************************************************)
(* Parsing of the recipes (CookerParser and Parser in bb/cooker.py).       *)
(* Parser processes take recipes from their own list and put the results   *)
(* on one queue.  The idle thread of the server calls updateCache again    *)
(* and again, and each call takes one result through parse_generator.  A   *)
(* command that arrives meanwhile makes the main thread run                *)
(* cooker.shutdown on the same object.  Both threads may then be in        *)
(* CookerParser.shutdown, which drains the queue and ends the processes    *)
(* with SIGINT and SIGTERM.                                                *)
(*                                                                         *)
(* multiprocessing.Queue is external: put() appends to a buffer of the     *)
(* process, a feeder thread writes the buffer to a pipe of limited         *)
(* capacity under a lock shared by all writers, and get() blocks once it   *)
(* has seen the beginning of a message.                                    *)
(***************************************************************************)
EXTENDS Naturals, Sequences, FiniteSets, SequencesExt

CONSTANTS
  Parsers,      \* the parser processes
  Jobs,         \* Jobs[p]: the recipes chunkify gives to p
  Noisy,        \* recipes whose parsing sends an event to the user interface
  PipeCap,      \* results that fit in the pipe
  Killable,     \* parsers that may be killed from outside (SIGKILL)
  Scenarios,    \* what may happen: sets of "break", "kill" and "stop"
  None

Recipes == UNION {Jobs[p] : p \in Parsers}
Threads == {"idle", "main"}

ASSUME ParserAssumption ==
  /\ IsFiniteSet(Parsers) /\ None \notin Parsers
  /\ Jobs \in [Parsers -> SUBSET Recipes] /\ IsFiniteSet(Recipes)
  /\ None \notin Recipes /\ None \notin {"complete", "incomplete", "stopped", "error", "exited"}
  /\ PipeCap \in Nat \ {0}
  /\ Killable \subseteq Parsers /\ Scenarios \subseteq SUBSET {"break", "kill", "stop"}
  /\ \A p, q \in Parsers : p # q => Jobs[p] \cap Jobs[q] = {}

VARIABLES
  faults,       \* one of the Scenarios
  \* The cooker: state, the idle thread's place in updateCache, how parsing ended
  state, ipc, outcome, requested,
  \* parse_generator and parse_next: the flag empty, the processes still to be
  \* looked at, the counter parsed, the recipes whose results are in the cache
  empty, todo, parsed, added,
  \* CookerParser: processes, haveshutdown, parser_quit; closed Process objects
  processes, haveshutdown, parser_quit, closed,
  \* the threads in CookerParser.shutdown: the stage and the index of its loop
  stage, at,
  \* the parser processes: place, list of jobs, current recipe, deferred signals
  ppc, jobs, recipe, signal_received,
  \* the result queue: buffers of the feeders, pipe, lock of the writers, an
  \* unfinished message at the end of the pipe
  buffer, pipe, wlock, torn,
  evlock,       \* who holds the lock of the event stream
  \* history: the parsers killed from outside; parse_generator has removed a
  \* process while the main thread went over the list
  killed, shortened

cooker == <<state, ipc, outcome, requested>>
generator == <<empty, todo, parsed, added>>
history == <<killed, shortened>>
parserObj == <<processes, haveshutdown, parser_quit, closed>>
calls == <<stage, at>>
procVars == <<ppc, jobs, recipe, signal_received>>
queueVars == <<buffer, pipe, wlock, torn>>
vars == <<cooker, generator, parserObj, calls, procVars, queueVars, evlock, history, faults>>

Alive(p) == ppc[p] # "dead"

\* The process that holds the lock is dead: nobody will release it.
Orphaned(lock) == lock \in Parsers /\ ~Alive(lock)

\* CookerParser.__init__ and start: every parser has been forked.
Init ==
  /\ faults \in Scenarios
  /\ state = "parsing" /\ ipc = "resume" /\ outcome = None /\ requested = FALSE
  /\ empty = FALSE /\ todo = <<>> /\ parsed = 0 /\ added = {}
  /\ processes = SetToSeq(Parsers) /\ haveshutdown = FALSE
  /\ parser_quit = FALSE /\ closed = {}
  /\ stage = [c \in Threads |-> "out"] /\ at = [c \in Threads |-> 0]
  /\ ppc = [p \in Parsers |-> "check"] /\ jobs = Jobs
  /\ recipe = [p \in Parsers |-> None] /\ signal_received = [p \in Parsers |-> {}]
  /\ buffer = [p \in Parsers |-> <<>>] /\ pipe = <<>> /\ wlock = None /\ torn = FALSE
  /\ evlock = None /\ killed = {} /\ shortened = FALSE

-----------------------------------------------------------------------------
(***************************************************************************)
(* Parser.realrun.  The queue is unbounded, so put() never raises Full and *)
(* pending holds at most the result that is about to be put.               *)
(***************************************************************************)
ParserStep ==
  UNCHANGED <<cooker, generator, parserObj, calls, history, faults>>

GoTo(p, place) == ppc' = [ppc EXCEPT ![p] = place]

\* while havejobs or pending: quit.is_set(), then jobs.pop()
NextJob(p) ==
  /\ ppc[p] = "check"
  /\ \/ /\ parser_quit \/ jobs[p] = {}
        /\ GoTo(p, "flush") /\ UNCHANGED <<jobs, recipe>>
     \/ /\ ~parser_quit
        /\ \E r \in jobs[p] :
             /\ jobs' = [jobs EXCEPT ![p] = @ \ {r}]
             /\ recipe' = [recipe EXCEPT ![p] = r]
             /\ GoTo(p, IF r \in Noisy THEN "send" ELSE "parse")
  /\ ParserStep /\ UNCHANGED <<signal_received, queueVars, evlock>>

\* Parser.parse returns the recipe's infos or the exception.
parse(p) ==
  /\ ppc[p] = "parse"
  /\ \/ GoTo(p, "put")
     \/ "break" \in faults /\ GoTo(p, "putfailure")
  /\ ParserStep /\ UNCHANGED <<jobs, recipe, signal_received, queueVars, evlock>>

Result(p) == [recipe |-> recipe[p], ok |-> ppc[p] = "put"]

put(p) ==
  /\ ppc[p] \in {"put", "putfailure"}
  /\ buffer' = [buffer EXCEPT ![p] = Append(@, Result(p))]
  /\ recipe' = [recipe EXCEPT ![p] = None]
  /\ GoTo(p, "check")
  /\ ParserStep /\ UNCHANGED <<jobs, signal_received, pipe, wlock, torn, evlock>>

\* What a process leaves behind: half a message if its feeder was writing.
Die(p) ==
  /\ ppc' = [ppc EXCEPT ![p] = "dead"]
  /\ recipe' = [recipe EXCEPT ![p] = None]
  /\ jobs' = [jobs EXCEPT ![p] = {}]
  /\ buffer' = [buffer EXCEPT ![p] = <<>>]
  /\ signal_received' = [signal_received EXCEPT ![p] = {}]
  /\ torn' \in IF wlock = p THEN BOOLEAN ELSE {torn}

\* results.close(), results.join_thread(): the process ends once its buffer
\* is written.
join_thread(p) ==
  /\ ppc[p] = "flush" /\ buffer[p] = <<>>
  /\ Die(p)
  /\ ParserStep /\ UNCHANGED <<pipe, wlock, evlock>>

\* The feeder thread
FeederLocks(p) ==
  /\ Alive(p) /\ buffer[p] # <<>> /\ wlock = None
  /\ wlock' = p
  /\ ParserStep /\ UNCHANGED <<procVars, buffer, pipe, torn, evlock>>

FeederWrites(p) ==
  /\ Alive(p) /\ wlock = p /\ Len(pipe) < PipeCap
  /\ pipe' = Append(pipe, Head(buffer[p]))
  /\ buffer' = [buffer EXCEPT ![p] = Tail(@)]
  /\ wlock' = None
  /\ ParserStep /\ UNCHANGED <<procVars, torn, evlock>>

(***************************************************************************)
(* ConnectionWriter.send: signals are kept back from before the lock of    *)
(* the event stream is taken until it is released.  lock_timeout gives up  *)
(* on a lock that is never released and ends the process.                  *)
(***************************************************************************)
SendLocks(p) ==
  /\ ppc[p] = "send"
  /\ \/ evlock = None /\ evlock' = p /\ GoTo(p, "sending")
        /\ UNCHANGED <<jobs, recipe, signal_received, queueVars>>
     \/ /\ Orphaned(evlock) /\ Die(p) /\ UNCHANGED <<evlock, pipe, wlock>>
  /\ ParserStep

SendUnlocks(p) ==
  /\ ppc[p] = "sending"
  /\ evlock' = None
  /\ \/ "TERM" \in signal_received[p] /\ Die(p)
     \/ /\ "TERM" \notin signal_received[p]
        /\ GoTo(p, IF "INT" \in signal_received[p] THEN "putfailure" ELSE "parse")
        /\ signal_received' = [signal_received EXCEPT ![p] = {}]
        /\ UNCHANGED <<jobs, recipe, buffer, torn>>
  /\ ParserStep /\ UNCHANGED <<pipe, wlock>>

(***************************************************************************)
(* catch_sig and handle_sig.  SIGINT is a KeyboardInterrupt: parse turns   *)
(* it into a ParsingFailure, elsewhere it leaves the loop, and out of      *)
(* join_thread it ends the process (or runs into the join that is still    *)
(* registered for the exit).  SIGTERM ends the process.                    *)
(***************************************************************************)
handle_sig(p, sig) ==
  \/ sig = "TERM" /\ Die(p)
  \/ /\ sig = "INT" /\ ppc[p] = "parse" /\ GoTo(p, "putfailure")
     /\ UNCHANGED <<jobs, recipe, buffer, signal_received, torn>>
  \/ /\ sig = "INT" /\ ppc[p] \in {"check", "put", "putfailure"} /\ GoTo(p, "flush")
     /\ recipe' = [recipe EXCEPT ![p] = None]
     /\ UNCHANGED <<jobs, buffer, signal_received, torn>>
  \/ sig = "INT" /\ ppc[p] = "flush" /\ (Die(p) \/ UNCHANGED <<procVars, buffer, torn>>)

\* Mutant: a signal is handled at once, lock or no lock.
catch_sig_Now(p, sig) ==
  IF ppc[p] \in {"send", "sending"}
  THEN \/ sig = "TERM" /\ Die(p)
       \/ sig = "INT" /\ UNCHANGED <<procVars, buffer, torn>>
  ELSE handle_sig(p, sig)

catch_sig(p, sig) ==
  IF ppc[p] \in {"send", "sending"}
  THEN /\ signal_received' = [signal_received EXCEPT ![p] = @ \cup {sig}]
       /\ UNCHANGED <<ppc, jobs, recipe, buffer, torn>>
  ELSE handle_sig(p, sig)

\* The kernel or an administrator kills a parser.
Killed(p) ==
  /\ "kill" \in faults /\ p \in Killable /\ Alive(p)
  /\ Die(p) /\ killed' = killed \cup {p}
  /\ UNCHANGED <<cooker, generator, parserObj, calls, pipe, wlock, evlock, shortened, faults>>

-----------------------------------------------------------------------------
(***************************************************************************)
(* The idle thread: buildTargets calls updateCache until parsing is over.  *)
(***************************************************************************)
IdleStep == UNCHANGED <<requested, haveshutdown, parser_quit, closed, procVars, evlock, killed, faults>>

\* CookerParser.shutdown is entered by thread c.
EnterShutdown(c) == stage' = [stage EXCEPT ![c] = "test"] /\ UNCHANGED at

\* parse_next returns False, or updateCache raises, after parser.shutdown.
Ends(verdict) ==
  /\ outcome' = verdict /\ ipc' = "shutdown" /\ EnterShutdown("idle")

\* updateCache up to the assignment of state.parsing ...
updateCache ==
  /\ ipc = "call"
  /\ IF state = "shutdown"
     THEN Ends("stopped")
     ELSE ipc' = "assign" /\ UNCHANGED <<outcome, calls>>
  /\ IdleStep /\ UNCHANGED <<state, generator, processes, queueVars, shortened>>

\* ... and the assignment, whatever another thread has set since
AssignParsing ==
  /\ ipc = "assign"
  /\ state' = "parsing" /\ ipc' = "resume"
  /\ IdleStep /\ UNCHANGED <<outcome, generator, processes, calls, queueVars, shortened>>

ToParse == Cardinality(Recipes)

\* Mutant: nobody looks whether all results have come.
Exhausted_Unchecked == Ends("complete")

\* After the loop of parse_generator: StopIteration or the ParseError
Exhausted == Ends(IF parsed >= ToParse THEN "complete" ELSE "incomplete")

\* Mutant: one timeout ends the loop.
MoreToCome_UntilEmpty == processes # <<>> /\ ~empty

MoreToCome == processes # <<>> \/ ~empty

(***************************************************************************)
(* parse_generator resumes: it looks at a copy of the list, drops the      *)
(* processes that have ended, and goes on to get().  A process that        *)
(* shutdown has closed raises ValueError, which parse_next reports.        *)
(***************************************************************************)
parse_generator ==
  /\ ipc = "resume"
  /\ \/ MoreToCome /\ todo' = processes /\ ipc' = "prune" /\ UNCHANGED <<outcome, calls>>
     \/ ~MoreToCome /\ Exhausted /\ UNCHANGED todo
  /\ IdleStep /\ UNCHANGED <<state, empty, parsed, added, processes, queueVars, shortened>>

Prune ==
  /\ ipc = "prune"
  /\ \/ /\ todo = <<>>
        /\ IF parsed >= ToParse
           THEN Exhausted
           ELSE ipc' = "get" /\ UNCHANGED <<outcome, calls>>
        /\ UNCHANGED todo
     \/ /\ todo # <<>> /\ Head(todo) \in closed
        /\ Ends("error") /\ todo' = <<>>
     \/ /\ todo # <<>> /\ Head(todo) \notin closed /\ Alive(Head(todo))
        /\ todo' = Tail(todo) /\ UNCHANGED <<ipc, outcome, calls>>
     \/ /\ todo # <<>> /\ Head(todo) \notin closed /\ ~Alive(Head(todo))
        /\ ipc' = "remove" /\ UNCHANGED <<todo, outcome, calls>>
  /\ IdleStep /\ UNCHANGED <<state, empty, parsed, added, processes, queueVars, shortened>>

\* self.processes.remove(process)
RemoveProcess ==
  /\ ipc = "remove"
  /\ \E i \in DOMAIN processes : processes[i] = Head(todo) /\ processes' = RemoveAt(processes, i)
  /\ todo' = Tail(todo) /\ ipc' = "prune"
  /\ shortened' = (shortened \/ stage["main"] \in {"INT", "TERM", "join"})
  /\ IdleStep /\ UNCHANGED <<state, outcome, empty, parsed, added, calls, queueVars>>

\* The other thread is inside get() for ever, with the lock of the readers.
Blocked(c) == \E d \in Threads \ {c} : stage[d] = "blocked" \/ (d = "idle" /\ ipc = "blocked")

\* result_queue.get(timeout=0.25) by thread c finds nothing, or half a message
Empty(c) == (pipe = <<>> /\ ~torn) \/ Blocked(c)
HalfMessage(c) == pipe = <<>> /\ torn /\ ~Blocked(c)

\* parse_next with what the generator yields
parse_next ==
  /\ ipc = "get"
  /\ \/ Empty("idle") /\ empty' = TRUE /\ ipc' = "call"
        /\ UNCHANGED <<outcome, parsed, added, calls, pipe>>
     \/ HalfMessage("idle") /\ ipc' = "blocked"
        /\ UNCHANGED <<outcome, empty, parsed, added, calls, pipe>>
     \/ /\ pipe # <<>> /\ ~Blocked("idle")
        /\ pipe' = Tail(pipe) /\ empty' = FALSE
        /\ IF Head(pipe).ok
           THEN /\ parsed' = parsed + 1 /\ added' = added \cup {Head(pipe).recipe}
                /\ ipc' = "call" /\ UNCHANGED <<outcome, calls>>
           ELSE Ends("error") /\ UNCHANGED <<parsed, added>>
  /\ IdleStep /\ UNCHANGED <<state, todo, processes, buffer, wlock, torn, shortened>>

\* The idle thread is back from shutdown.
IdleReturns ==
  /\ ipc = "shutdown" /\ stage["idle"] \in {"back", "raised"}
  /\ ipc' = "done"
  /\ outcome' = IF stage["idle"] = "raised" THEN "error" ELSE outcome
  /\ IdleStep /\ UNCHANGED <<state, generator, processes, calls, queueVars, shortened>>

\* BBCooker.shutdown, called by the main thread for a command
RequestShutdown ==
  /\ "stop" \in faults /\ ~requested /\ ipc # "done"
  /\ requested' = TRUE /\ state' = "shutdown"
  /\ EnterShutdown("main")
  /\ UNCHANGED <<ipc, outcome, generator, parserObj, procVars, queueVars, evlock, history, faults>>

-----------------------------------------------------------------------------
(***************************************************************************)
(* CookerParser.shutdown, run by thread c.  The joins with a timeout only  *)
(* pass time and are left out.  The loops go over self.processes, from     *)
(* which parse_generator may remove entries meanwhile.                     *)
(***************************************************************************)
Stage(c, from, to) == stage[c] = from /\ stage' = [stage EXCEPT ![c] = to]

ShutdownStep == UNCHANGED <<cooker, generator, processes, history, faults>>

\* if self.haveshutdown: return
TestShutdown(c) ==
  /\ Stage(c, "test", IF haveshutdown THEN "back" ELSE "set")
  /\ ShutdownStep /\ UNCHANGED <<haveshutdown, parser_quit, closed, at, procVars, queueVars, evlock>>

SetShutdown(c) ==
  /\ Stage(c, "set", "fire")
  /\ haveshutdown' = TRUE
  /\ ShutdownStep /\ UNCHANGED <<parser_quit, closed, at, procVars, queueVars, evlock>>

\* ParseCompleted or ParseError needs the lock of the event stream; if that is
\* never released, lock_timeout ends the server.
FireEvent(c) ==
  /\ stage[c] = "fire"
  /\ \/ evlock = None /\ Stage(c, "fire", "drain") /\ UNCHANGED <<ipc, outcome>>
     \/ /\ Orphaned(evlock)
        /\ stage' = [d \in Threads |-> "back"] /\ ipc' = "done" /\ outcome' = "exited"
  /\ UNCHANGED <<state, requested, generator, parserObj, at, procVars, queueVars, evlock, history, faults>>

\* The queue is emptied until nothing comes for a quarter of a second.
Drain(c) ==
  /\ \/ /\ pipe # <<>> /\ ~Blocked(c)
        /\ Stage(c, "drain", "drain") /\ pipe' = Tail(pipe)
     \/ Empty(c) /\ Stage(c, "drain", "quit") /\ UNCHANGED pipe
     \/ HalfMessage(c) /\ Stage(c, "drain", "blocked") /\ UNCHANGED pipe
  /\ ShutdownStep
  /\ UNCHANGED <<haveshutdown, parser_quit, closed, at, procVars, buffer, wlock, torn, evlock>>

Quit(c) ==
  /\ Stage(c, "quit", "INT")
  /\ parser_quit' = TRUE /\ at' = [at EXCEPT ![c] = 1]
  /\ ShutdownStep /\ UNCHANGED <<haveshutdown, closed, procVars, queueVars, evlock>>

Current(c) == processes[at[c]]
LoopOver(c) == at[c] > Len(processes)

\* for process in self.processes: a signal to the ones that still run
Signals(c, sig, next) ==
  /\ stage[c] = sig
  /\ \/ /\ LoopOver(c) /\ Stage(c, sig, next) /\ at' = [at EXCEPT ![c] = 1]
        /\ UNCHANGED <<procVars, buffer, torn>>
     \/ /\ ~LoopOver(c)
        /\ IF Current(c) \in closed
           THEN Stage(c, sig, "raised") /\ UNCHANGED <<at, procVars, buffer, torn>>
           ELSE /\ at' = [at EXCEPT ![c] = @ + 1] /\ UNCHANGED stage
                /\ IF Alive(Current(c))
                   THEN catch_sig(Current(c), sig)
                   ELSE UNCHANGED <<procVars, buffer, torn>>
  /\ ShutdownStep /\ UNCHANGED <<haveshutdown, parser_quit, closed, pipe, wlock, evlock>>

\* Mutant: the last join has a timeout as well.
JoinAll_Timeout(c) ==
  /\ stage[c] = "join"
  /\ \/ LoopOver(c) /\ Stage(c, "join", "back") /\ UNCHANGED <<at, closed>>
     \/ /\ ~LoopOver(c) /\ Stage(c, "join", "join")
        /\ at' = [at EXCEPT ![c] = @ + 1]
        /\ closed' = closed \cup {Current(c)}
  /\ ShutdownStep /\ UNCHANGED <<haveshutdown, parser_quit, procVars, queueVars, evlock>>

\* process.join() without a timeout and process.close()
JoinAll(c) ==
  /\ stage[c] = "join"
  /\ \/ LoopOver(c) /\ Stage(c, "join", "back") /\ UNCHANGED <<at, closed>>
     \/ /\ ~LoopOver(c) /\ Current(c) \in closed
        /\ Stage(c, "join", "raised") /\ UNCHANGED <<at, closed>>
     \/ /\ ~LoopOver(c) /\ Current(c) \notin closed /\ ~Alive(Current(c))
        /\ Stage(c, "join", "join")
        /\ at' = [at EXCEPT ![c] = @ + 1]
        /\ closed' = closed \cup {Current(c)}
  /\ ShutdownStep /\ UNCHANGED <<haveshutdown, parser_quit, procVars, queueVars, evlock>>

\* Mutant: parsers that ignore SIGINT are waited for.
shutdown_NoTerminate(c) ==
  \/ TestShutdown(c) \/ SetShutdown(c) \/ FireEvent(c) \/ Drain(c) \/ Quit(c)
  \/ Signals(c, "INT", "join") \/ JoinAll(c)

shutdown(c) ==
  \/ TestShutdown(c) \/ SetShutdown(c) \/ FireEvent(c) \/ Drain(c) \/ Quit(c)
  \/ Signals(c, "INT", "TERM") \/ Signals(c, "TERM", "join") \/ JoinAll(c)

-----------------------------------------------------------------------------
IdleThread ==
  \/ updateCache \/ AssignParsing \/ parse_generator \/ Prune \/ RemoveProcess \/ parse_next \/ IdleReturns
  \/ shutdown("idle")

Process(p) ==
  NextJob(p) \/ parse(p) \/ put(p) \/ join_thread(p) \/ SendLocks(p) \/ SendUnlocks(p)

Feeder(p) == FeederLocks(p) \/ FeederWrites(p)

Over == ipc = "done" /\ stage["main"] \in {"out", "back", "raised"}

Jammed == Orphaned(wlock)

Next ==
  \/ IdleThread \/ RequestShutdown \/ shutdown("main")
  \/ \E p \in Parsers : Process(p) \/ Feeder(p) \/ Killed(p)

Spec ==
  /\ Init /\ [][Next]_vars
  /\ WF_vars(IdleThread) /\ WF_vars(shutdown("main"))
  /\ \A p \in Parsers : WF_vars(Process(p)) /\ WF_vars(Feeder(p))

-----------------------------------------------------------------------------
\* Parsing is complete only if every recipe is in the cache: no result is lost
\* or counted twice, even if a parser dies or another thread drains the queue.
CompleteMeansAll == outcome = "complete" => added = Recipes

\* "Not all recipes parsed, parser thread killed/died?": nothing but a parser's
\* death or a shutdown request makes a parse incomplete, whatever the order in
\* which results arrive, parsers exit and get() times out.
OnlyAfterKill == outcome = "incomplete" => killed # {} \/ requested

\* "We must not terminate any process or thread holding the write lock for the
\* event stream": none of the signals bitbake sends does.
StreamLockFree == Orphaned(evlock) => evlock \in killed

\* When both threads are done, no parser is left.
ParsersGone ==
  (Over /\ outcome # "exited" /\ ~shortened /\ \A c \in Threads : stage[c] # "raised")
     => \A p \in Parsers : ~Alive(p)

\* Parsing and a shutdown requested meanwhile end, whatever fails, unless a
\* parser dies while it writes or its list is changed under the shutdown.
ParseEnds == <>(Over \/ Jammed \/ shortened)
=============================================================================
