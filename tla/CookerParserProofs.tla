------------------------- MODULE CookerParserProofs -------------------------
(***************************************************************************)
(* The safety of parsing and of its shutdown, for any number of parsers    *)
(* and recipes.                                                            *)
(*                                                                         *)
(* LockInv says who holds the lock of the event stream.  SingleInv says    *)
(* that a recipe is in one place at most: in a parser's list, parsed, in a *)
(* buffer, in the pipe or in the cache; so parsed counts the cache.        *)
(* CalmInv says that it is in one place at least, as long as nobody kills  *)
(* a parser and nobody shuts the parsers down.  PlaceInv says where the    *)
(* two threads are; ListInv, JoinInv and AfterInv say what the shutdown    *)
(* knows of the processes.                                                 *)
(***************************************************************************)
EXTENDS CookerParser, FiniteSetTheorems, SequenceTheorems, TLAPS

Places == {"check", "send", "sending", "parse", "put", "putfailure", "flush", "dead"}
Stages == {"out", "test", "set", "fire", "drain", "quit", "INT", "TERM", "join", "back", "raised", "blocked"}
Results == [recipe : Recipes, ok : BOOLEAN]

\* The places of a parser that has a recipe, and the stages of a shutdown under way
Working == {"send", "sending", "parse", "put", "putfailure"}
Running == {"fire", "drain", "quit", "INT", "TERM", "join", "raised", "blocked"}

ListedIn(s, x) == \E i \in DOMAIN s : s[i] = x
HasResult(s, r) == \E i \in DOMAIN s : s[i].recipe = r
Distinct(s) == \A i, j \in DOMAIN s : s[i].recipe = s[j].recipe => i = j

ProcType ==
  /\ ppc \in [Parsers -> Places] /\ jobs \in [Parsers -> SUBSET Recipes]
  /\ recipe \in [Parsers -> Recipes \cup {None}] /\ signal_received \in [Parsers -> SUBSET {"INT", "TERM"}]
  /\ buffer \in [Parsers -> Seq(Results)] /\ pipe \in Seq(Results)

ThreadType ==
  /\ processes \in Seq(Parsers) /\ todo \in Seq(Parsers)
  /\ stage \in [Threads -> Stages] /\ at \in [Threads -> Nat]
  /\ \A c \in Threads : stage[c] \in {"INT", "TERM", "join"} => at[c] >= 1
  /\ ipc = "remove" => todo # <<>>
  /\ parsed \in Nat /\ added \subseteq Recipes

\* A parser has a recipe when it works on one; a dead one has nothing; and the feeder
\* that holds the lock has something to write.
HoldInv ==
  \A p \in Parsers :
    /\ ppc[p] \in Working <=> recipe[p] # None
    /\ ppc[p] = "dead" => jobs[p] = {} /\ buffer[p] = <<>>
    /\ wlock = p /\ ppc[p] # "dead" => buffer[p] # <<>>

Types == ProcType /\ ThreadType /\ HoldInv

LockInv == \A p \in Parsers : evlock = p => ppc[p] = "sending" \/ (ppc[p] = "dead" /\ p \in killed)

\* What parser p has still to send
Open(p) == jobs[p] \cup {recipe[p]}

SingleInv ==
  /\ \A p \in Parsers :
       /\ jobs[p] \subseteq Jobs[p] /\ recipe[p] \in Jobs[p] \cup {None} /\ recipe[p] \notin jobs[p]
       /\ Distinct(buffer[p])
       /\ \A r \in Recipes : HasResult(buffer[p], r) => r \in Jobs[p] \ Open(p)
  /\ Distinct(pipe)
  /\ \A r \in Recipes : HasResult(pipe, r) \/ r \in added =>
       \A p \in Parsers : r \notin Open(p) /\ ~HasResult(buffer[p], r)
  /\ \A r \in added : ~HasResult(pipe, r)

\* parsed counts what is in the cache.
CountInv == parsed = Cardinality(added)

\* Nobody has interfered.
Calm == killed = {} /\ ~requested /\ ipc \notin {"shutdown", "done"}

\* A recipe of p is in one place at least.
Somewhere(p, r) == r \in Open(p) \/ HasResult(buffer[p], r) \/ HasResult(pipe, r) \/ r \in added

CalmInv ==
  Calm =>
    /\ ~parser_quit
    /\ \A p \in Parsers : signal_received[p] = {} /\ (ppc[p] = "flush" => jobs[p] = {})
    /\ \A p \in Parsers : \A r \in Jobs[p] : Somewhere(p, r)
    /\ ipc \in {"call", "assign", "resume"} /\ empty /\ processes = <<>> => pipe = <<>>

AllDead == \A p \in Parsers : ~Alive(p)

\* Where the threads are
PlaceInv ==
  /\ outcome = "exited" => ipc = "done"
  /\ ipc \notin {"shutdown", "done"} => stage["idle"] = "out" /\ outcome = None
  /\ ~requested /\ outcome # "exited" => stage["main"] = "out"
  /\ ipc = "done" => stage["idle"] \in {"back", "raised"}

\* Only dead processes are, or are about to be, off the list.
ListInv ==
  /\ \A p \in Parsers : ListedIn(processes, p) \/ ~Alive(p)
  /\ ipc = "remove" => ~Alive(Head(todo))

\* The processes the last loop of shutdown has been through have ended.
Joined(c) ==
  stage[c] = "join" /\ ~shortened => \A i \in 1..Len(processes) : i < at[c] => ~Alive(processes[i])

JoinInv == \A c \in Threads : Joined(c)

\* Once haveshutdown is set, somebody is still at it or nobody is left.
AfterInv ==
  outcome # "exited" =>
    /\ \A c \in Threads : stage[c] \in Running \cup {"back"} => haveshutdown
    /\ haveshutdown /\ ~shortened => AllDead \/ \E c \in Threads : stage[c] \in Running

ShutInv == ListInv /\ JoinInv /\ AfterInv

-----------------------------------------------------------------------------
\* A result joins a queue at its end.
LEMMA AppendResult ==
  ASSUME NEW s \in Seq(Results), NEW x \in Results
  PROVE  /\ Append(s, x) \in Seq(Results) /\ Append(s, x) # <<>>
         /\ \A r : HasResult(Append(s, x), r) <=> HasResult(s, r) \/ r = x.recipe
         /\ Distinct(s) /\ ~HasResult(s, x.recipe) => Distinct(Append(s, x))
<1> DEFINE t == Append(s, x)
<1>1. t \in Seq(Results) /\ Len(t) = Len(s) + 1 /\ DOMAIN s = 1..Len(s) /\ DOMAIN t = 1..Len(s) + 1
  OBVIOUS
<1>2. t[Len(s) + 1] = x /\ \A i \in 1..Len(s) : t[i] = s[i]
  OBVIOUS
<1>3. Len(s) \in Nat
  OBVIOUS
<1> HIDE DEF t
<1>4. \A r : HasResult(t, r) <=> HasResult(s, r) \/ r = x.recipe
  <2> TAKE r
  <2>1. ASSUME HasResult(t, r) PROVE HasResult(s, r) \/ r = x.recipe
    <3>1. PICK i \in 1..Len(s) + 1 : t[i].recipe = r
      BY <2>1, <1>1 DEF HasResult
    <3>2. CASE i = Len(s) + 1
      BY <3>1, <3>2, <1>2
    <3>3. CASE i \in 1..Len(s)
      BY <3>1, <3>3, <1>1, <1>2 DEF HasResult
    <3> QED BY <3>2, <3>3, <1>3
  <2>2. ASSUME HasResult(s, r) PROVE HasResult(t, r)
    BY <2>2, <1>1, <1>2, <1>3 DEF HasResult
  <2>3. ASSUME r = x.recipe PROVE HasResult(t, r)
    BY <2>3, <1>1, <1>2, <1>3 DEF HasResult
  <2> QED BY <2>1, <2>2, <2>3
<1>5. ASSUME Distinct(s), ~HasResult(s, x.recipe) PROVE Distinct(t)
  <2> SUFFICES ASSUME NEW i \in 1..Len(s) + 1, NEW j \in 1..Len(s) + 1, t[i].recipe = t[j].recipe
               PROVE  i = j
    BY <1>1 DEF Distinct
  <2>1. CASE i \in 1..Len(s) /\ j \in 1..Len(s)
    BY <2>1, <1>1, <1>2, <1>5 DEF Distinct
  <2>2. CASE i = Len(s) + 1 /\ j \in 1..Len(s)
    BY <2>2, <1>1, <1>2, <1>5 DEF HasResult
  <2>3. CASE j = Len(s) + 1 /\ i \in 1..Len(s)
    BY <2>3, <1>1, <1>2, <1>5 DEF HasResult
  <2> QED BY <2>1, <2>2, <2>3, <1>3
<1>6. t # <<>>
  BY <1>1, <1>3
<1> QED BY <1>1, <1>4, <1>5, <1>6 DEF t

\* A result leaves a queue at its head.
LEMMA TailResult ==
  ASSUME NEW s \in Seq(Results), s # <<>>
  PROVE  /\ Tail(s) \in Seq(Results) /\ Head(s) \in Results
         /\ \A r : HasResult(s, r) <=> HasResult(Tail(s), r) \/ r = Head(s).recipe
         /\ Distinct(s) => Distinct(Tail(s)) /\ ~HasResult(Tail(s), Head(s).recipe)
<1> DEFINE t == Tail(s)
<1>1. Len(s) \in Nat /\ Len(s) >= 1 /\ t \in Seq(Results) /\ Len(t) = Len(s) - 1
  OBVIOUS
<1>2. DOMAIN s = 1..Len(s) /\ DOMAIN t = 1..(Len(s) - 1) /\ s[1] = Head(s) /\ Head(s) \in Results
  OBVIOUS
<1>3. \A i \in 1..(Len(s) - 1) : t[i] = s[i + 1]
  OBVIOUS
<1> HIDE DEF t
<1>4. \A r : HasResult(s, r) <=> HasResult(t, r) \/ r = Head(s).recipe
  <2> TAKE r
  <2>1. ASSUME HasResult(s, r) PROVE HasResult(t, r) \/ r = Head(s).recipe
    <3>1. PICK i \in 1..Len(s) : s[i].recipe = r
      BY <2>1, <1>2 DEF HasResult
    <3>2. CASE i = 1
      BY <3>1, <3>2, <1>2
    <3>3. CASE i - 1 \in 1..(Len(s) - 1)
      <4>1. t[i - 1] = s[i]
        BY <3>3, <1>1, <1>3
      <4> QED BY <4>1, <3>1, <3>3, <1>2 DEF HasResult
    <3> QED BY <3>2, <3>3, <1>1
  <2>2. ASSUME HasResult(t, r) PROVE HasResult(s, r)
    <3>1. PICK i \in 1..(Len(s) - 1) : t[i].recipe = r
      BY <2>2, <1>2 DEF HasResult
    <3> QED BY <3>1, <1>1, <1>2, <1>3 DEF HasResult
  <2>3. ASSUME r = Head(s).recipe PROVE HasResult(s, r)
    BY <2>3, <1>1, <1>2 DEF HasResult
  <2> QED BY <2>1, <2>2, <2>3
<1>5. ASSUME Distinct(s) PROVE Distinct(t) /\ ~HasResult(t, Head(s).recipe)
  <2>1. \A i \in 1..(Len(s) - 1) : i + 1 \in 1..Len(s) /\ i + 1 # 1
    BY <1>1
  <2>2. Distinct(t)
    BY <2>1, <1>1, <1>2, <1>3, <1>5 DEF Distinct
  <2>3. ~HasResult(t, Head(s).recipe)
    <3> SUFFICES ASSUME NEW i \in 1..(Len(s) - 1), t[i].recipe = Head(s).recipe PROVE FALSE
      BY <1>2 DEF HasResult
    <3> QED BY <2>1, <1>1, <1>2, <1>3, <1>5 DEF Distinct
  <2> QED BY <2>2, <2>3
<1> QED BY <1>1, <1>2, <1>4, <1>5 DEF t

\* list.remove: what is not removed stays listed.
LEMMA RemoveListed ==
  ASSUME NEW s \in Seq(Parsers), NEW i \in DOMAIN s
  PROVE  /\ RemoveAt(s, i) \in Seq(Parsers)
         /\ \A p : ListedIn(s, p) /\ p # s[i] => ListedIn(RemoveAt(s, i), p)
<1> DEFINE t == RemoveAt(s, i)
           n == Len(s)
<1>1. n \in Nat /\ DOMAIN s = 1..n /\ i \in 1..n
  OBVIOUS
<1> DEFINE a == SubSeq(s, 1, i - 1)
           b == SubSeq(s, i + 1, n)
<1>a. a \in Seq(Parsers) /\ Len(a) = i - 1 /\ \A j \in 1..(i - 1) : a[j] = s[j]
  BY <1>1
<1>b. b \in Seq(Parsers) /\ Len(b) = n - i /\ \A j \in 1..(n - i) : b[j] = s[i + j]
  BY <1>1
<1>c. t = a \o b
  BY DEF RemoveAt
<1> HIDE DEF a, b, t
<1>2. t \in Seq(Parsers) /\ Len(t) = n - 1
  <2>0. a \in Seq(Parsers) /\ b \in Seq(Parsers)
    BY <1>a, <1>b
  <2>1. t \in Seq(Parsers) /\ Len(t) = Len(a) + Len(b)
    BY <2>0, <1>c, ConcatProperties
  <2> QED BY <2>1, <1>1, <1>a, <1>b
<1>3. /\ \A j \in 1..(i - 1) : t[j] = s[j]
      /\ \A j \in i..(n - 1) : t[j] = s[j + 1]
  <2>1. \A j \in 1..(i - 1) : t[j] = s[j]
    BY <1>1, <1>a, <1>b, <1>c
  <2>2. ASSUME NEW j \in i..(n - 1) PROVE t[j] = s[j + 1]
    <3>1. t[j] = b[j - Len(a)]
      BY <1>1, <1>a, <1>b, <1>c
    <3>2. j - (i - 1) \in 1..(n - i) /\ i + (j - (i - 1)) = j + 1
      BY <1>1
    <3> QED BY <3>1, <3>2, <1>a, <1>b
  <2> QED BY <2>1, <2>2
<1>4. DOMAIN t = 1..(n - 1)
  BY <1>2, <1>3
<1> HIDE DEF n
<1>5. ASSUME NEW p, ListedIn(s, p), p # s[i] PROVE ListedIn(t, p)
  <2>1. PICK j \in 1..n : s[j] = p
    BY <1>5, <1>1 DEF ListedIn
  <2>2. CASE j < i
    BY <2>1, <2>2, <1>1, <1>3, <1>4 DEF ListedIn
  <2>3. CASE j > i
    <3>1. j - 1 \in i..(n - 1) /\ j - 1 \in 1..(n - 1)
      BY <2>3, <1>1
    <3>2. t[j - 1] = s[j]
      BY <3>1, <1>3
    <3> QED BY <3>1, <3>2, <2>1, <1>4 DEF ListedIn
  <2> QED BY <2>1, <2>2, <2>3, <1>1, <1>5
<1> QED BY <1>2, <1>5 DEF t

\* CookerParser.start lists every process it starts.
LEMMA AllListed == SetToSeq(Parsers) \in Seq(Parsers) /\ \A p \in Parsers : ListedIn(SetToSeq(Parsers), p)
<1> DEFINE n == Cardinality(Parsers)
           s == SetToSeq(Parsers)
<1>1. IsFiniteSet(Parsers) /\ n \in Nat /\ ExistsBijection(1..n, Parsers)
  BY ParserAssumption, FS_CardinalityType
<1>2. \E f \in [1..n -> Parsers] : IsInjective(f)
  BY <1>1 DEF ExistsBijection, Bijection, Injection, IsInjective
<1>3. s \in [1..n -> Parsers] /\ IsInjective(s)
  BY <1>2 DEF SetToSeq
<1>4. s \in Injection(1..n, Parsers)
  BY <1>3 DEF Injection, IsInjective
<1>5. Cardinality(1..n) = n
  BY <1>1, FS_Interval
<1>6. s \in Surjection(1..n, Parsers)
  BY <1>4, <1>5, <1>1, FS_Injection
<1>7. \A p \in Parsers : \E i \in 1..n : s[i] = p
  BY <1>6 DEF Surjection
<1>8. s \in Seq(Parsers) /\ DOMAIN s = 1..n
  BY <1>1, <1>3
<1> QED BY <1>7, <1>8 DEF ListedIn
-----------------------------------------------------------------------------
(***************************************************************************)
(* The kinds of steps: the threads of the server that do not touch the     *)
(* parsers, the two that take a result from the queue, a signal to a       *)
(* parser, and the parsers' own steps.                                     *)
(***************************************************************************)
Quiet == UNCHANGED <<procVars, queueVars, evlock, killed, parsed, added>>

Signalled(p, sig) == Alive(p) /\ catch_sig(p, sig) /\ UNCHANGED <<pipe, wlock, evlock, killed, parsed, added>>

LEMMA SignalsSort ==
  ASSUME ThreadType, NEW c \in Threads, NEW sig \in {"INT", "TERM"}, NEW next, Signals(c, sig, next)
  PROVE  \/ Quiet
         \/ ~LoopOver(c) /\ Current(c) \in Parsers /\ stage' = stage /\ Signalled(Current(c), sig)
<1>1. UNCHANGED <<pipe, wlock, evlock, killed, parsed, added>>
  BY DEF Signals, ShutdownStep, generator, history
<1>2. ASSUME ~LoopOver(c) PROVE Current(c) \in Parsers
  <2>1. processes \in Seq(Parsers) /\ at[c] \in Nat /\ at[c] >= 1
    BY DEF ThreadType, Signals
  <2>2. at[c] \in 1..Len(processes)
    BY <2>1, <1>2 DEF LoopOver
  <2> QED BY <2>1, <2>2 DEF Current
<1>3. CASE UNCHANGED <<procVars, buffer, torn>>
  BY <1>1, <1>3 DEF Quiet, queueVars
<1>4. CASE ~LoopOver(c) /\ stage' = stage /\ Alive(Current(c)) /\ catch_sig(Current(c), sig)
  BY <1>1, <1>2, <1>4 DEF Signalled
<1> QED BY <1>3, <1>4 DEF Signals

LEMMA ShutdownSort ==
  ASSUME ThreadType, NEW c \in Threads, shutdown(c)
  PROVE  \/ Quiet
         \/ Drain(c)
         \/ \E p \in Parsers, sig \in {"INT", "TERM"} : Signalled(p, sig)
<1>1. CASE TestShutdown(c) \/ SetShutdown(c) \/ Quit(c) \/ JoinAll(c)
  BY <1>1 DEF TestShutdown, SetShutdown, Quit, JoinAll, Quiet, ShutdownStep, generator, history
<1>2. CASE FireEvent(c)
  BY <1>2 DEF FireEvent, Quiet, generator, history
<1>3. CASE Signals(c, "INT", "TERM")
  BY <1>3, SignalsSort
<1>4. CASE Signals(c, "TERM", "join")
  BY <1>4, SignalsSort
<1> QED BY <1>1, <1>2, <1>3, <1>4 DEF shutdown

LEMMA Sort ==
  ASSUME ThreadType, [Next]_vars
  PROVE  \/ Quiet
         \/ parse_next
         \/ \E c \in Threads : Drain(c)
         \/ \E p \in Parsers, sig \in {"INT", "TERM"} : Signalled(p, sig)
         \/ \E p \in Parsers : Process(p) \/ Feeder(p) \/ Killed(p)
<1>1. CASE updateCache \/ AssignParsing \/ parse_generator \/ Prune \/ RemoveProcess \/ IdleReturns
  BY <1>1 DEF updateCache, AssignParsing, parse_generator, Prune, RemoveProcess, IdleReturns, IdleStep,
              Quiet, generator
<1>2. CASE RequestShutdown
  BY <1>2 DEF RequestShutdown, Quiet, generator, history
<1>3. CASE shutdown("idle")
  BY <1>3, ShutdownSort DEF Threads
<1>4. CASE shutdown("main")
  BY <1>4, ShutdownSort DEF Threads
<1>5. CASE UNCHANGED vars
  BY <1>5 DEF vars, Quiet, generator, history
<1> QED BY <1>1, <1>2, <1>3, <1>4, <1>5 DEF Next, IdleThread

-----------------------------------------------------------------------------
(***************************************************************************)
(* Types of the parsers, and what a parser at each place has.              *)
(***************************************************************************)
LEMMA DieType ==
  ASSUME ProcType, HoldInv, NEW p \in Parsers, Die(p), UNCHANGED <<pipe, wlock>>
  PROVE  ProcType' /\ HoldInv'
<1>1. ProcType'
  <2>1. ppc' \in [Parsers -> Places] /\ jobs' \in [Parsers -> SUBSET Recipes]
    BY DEF ProcType, Die, Places
  <2>2. recipe' \in [Parsers -> Recipes \cup {None}] /\ signal_received' \in [Parsers -> SUBSET {"INT", "TERM"}]
    BY DEF ProcType, Die
  <2>3. buffer' \in [Parsers -> Seq(Results)] /\ pipe' \in Seq(Results)
    BY DEF ProcType, Die
  <2> QED BY <2>1, <2>2, <2>3 DEF ProcType
<1>2. HoldInv'
  BY DEF HoldInv, ProcType, Die, Working
<1> QED BY <1>1, <1>2

LEMMA SignalType ==
  ASSUME ProcType, HoldInv, NEW p \in Parsers, NEW sig \in {"INT", "TERM"}, Signalled(p, sig)
  PROVE  ProcType' /\ HoldInv'
<1>0. UNCHANGED <<pipe, wlock>> /\ ppc[p] # "dead"
  BY DEF Signalled, Alive
<1>1. CASE Die(p)
  BY <1>0, <1>1, DieType
<1>2. CASE UNCHANGED <<procVars, buffer>>
  BY <1>0, <1>2 DEF ProcType, HoldInv, procVars
<1>3. CASE signal_received' = [signal_received EXCEPT ![p] = @ \cup {sig}] /\ UNCHANGED <<ppc, jobs, recipe, buffer>>
  BY <1>0, <1>3 DEF ProcType, HoldInv
<1>4. CASE ppc[p] = "parse" /\ GoTo(p, "putfailure") /\ UNCHANGED <<jobs, recipe, buffer, signal_received>>
  BY <1>0, <1>4 DEF ProcType, HoldInv, GoTo, Places, Working
<1>5. CASE /\ ppc[p] \in {"check", "put", "putfailure"} /\ GoTo(p, "flush")
           /\ recipe' = [recipe EXCEPT ![p] = None] /\ UNCHANGED <<jobs, buffer, signal_received>>
  <2>1. ProcType'
    BY <1>0, <1>5 DEF ProcType, GoTo, Places
  <2>2. HoldInv'
    BY <1>0, <1>5 DEF HoldInv, ProcType, GoTo, Working
  <2> QED BY <2>1, <2>2
<1> QED BY <1>1, <1>2, <1>3, <1>4, <1>5 DEF Signalled, catch_sig, handle_sig

LEMMA ProcessType ==
  ASSUME ProcType, HoldInv, NEW p \in Parsers, Process(p)
  PROVE  ProcType' /\ HoldInv'
<1>1. CASE NextJob(p)
  <2>0. UNCHANGED <<signal_received, buffer, pipe, wlock>> /\ ppc[p] = "check"
    BY <1>1 DEF NextJob, queueVars
  <2>1. CASE GoTo(p, "flush") /\ UNCHANGED <<jobs, recipe>>
    BY <2>0, <2>1 DEF ProcType, HoldInv, GoTo, Places, Working
  <2>2. ASSUME NEW r \in jobs[p], jobs' = [jobs EXCEPT ![p] = @ \ {r}], recipe' = [recipe EXCEPT ![p] = r],
               GoTo(p, IF r \in Noisy THEN "send" ELSE "parse")
        PROVE  ProcType' /\ HoldInv'
    <3>1. r \in Recipes /\ r # None
      BY ParserAssumption DEF ProcType
    <3>2. ppc' \in [Parsers -> Places] /\ jobs' \in [Parsers -> SUBSET Recipes]
      BY <2>2 DEF ProcType, GoTo, Places
    <3>3. recipe' \in [Parsers -> Recipes \cup {None}]
      BY <3>1, <2>2 DEF ProcType
    <3>4. HoldInv'
      BY <3>1, <2>0, <2>2 DEF HoldInv, ProcType, GoTo, Working
    <3> QED BY <3>2, <3>3, <3>4, <2>0 DEF ProcType
  <2> QED BY <1>1, <2>1, <2>2 DEF NextJob
<1>2. CASE parse(p)
  BY <1>2 DEF parse, queueVars, ProcType, HoldInv, GoTo, Places, Working
<1>3. CASE put(p)
  <2>0. UNCHANGED <<jobs, signal_received, pipe, wlock>> /\ ppc[p] \in {"put", "putfailure"}
    BY <1>3 DEF put
  <2>1. recipe[p] \in Recipes
    BY <2>0 DEF ProcType, HoldInv, Working
  <2>2. Result(p) \in Results
    BY <2>1 DEF Result, Results
  <2>3. Append(buffer[p], Result(p)) \in Seq(Results) /\ Append(buffer[p], Result(p)) # <<>>
    BY <2>2, AppendResult DEF ProcType
  <2>4. buffer' \in [Parsers -> Seq(Results)] /\ buffer'[p] # <<>> /\ \A q \in Parsers : q # p => buffer'[q] = buffer[q]
    BY <2>3, <1>3 DEF put, ProcType
  <2>5. recipe' = [recipe EXCEPT ![p] = None] /\ ppc' = [ppc EXCEPT ![p] = "check"]
    BY <1>3 DEF put, GoTo
  <2>6. ProcType'
    BY <2>0, <2>4, <2>5 DEF ProcType, Places
  <2>7. HoldInv'
    BY <2>0, <2>4, <2>5 DEF HoldInv, ProcType, Working
  <2> QED BY <2>6, <2>7
<1>4. CASE join_thread(p)
  BY <1>4, DieType DEF join_thread
<1>5. CASE SendLocks(p)
  <2>1. CASE Die(p) /\ UNCHANGED <<pipe, wlock>>
    BY <2>1, DieType
  <2>2. CASE GoTo(p, "sending") /\ UNCHANGED <<jobs, recipe, signal_received, queueVars>>
    BY <1>5, <2>2 DEF SendLocks, ProcType, HoldInv, GoTo, Places, Working, queueVars
  <2> QED BY <1>5, <2>1, <2>2 DEF SendLocks
<1>6. CASE SendUnlocks(p)
  <2>0. UNCHANGED <<pipe, wlock>> /\ ppc[p] = "sending"
    BY <1>6 DEF SendUnlocks
  <2>1. CASE Die(p)
    BY <2>0, <2>1, DieType
  <2>2. CASE /\ GoTo(p, IF "INT" \in signal_received[p] THEN "putfailure" ELSE "parse")
             /\ signal_received' = [signal_received EXCEPT ![p] = {}]
             /\ UNCHANGED <<jobs, recipe, buffer, torn>>
    BY <2>0, <2>2 DEF ProcType, HoldInv, GoTo, Places, Working
  <2> QED BY <1>6, <2>1, <2>2 DEF SendUnlocks
<1> QED BY <1>1, <1>2, <1>3, <1>4, <1>5, <1>6 DEF Process

LEMMA FeederType ==
  ASSUME ProcType, HoldInv, NEW p \in Parsers, Feeder(p)
  PROVE  ProcType' /\ HoldInv'
<1>1. CASE FeederLocks(p)
  BY <1>1 DEF FeederLocks, ProcType, HoldInv, procVars
<1>2. CASE FeederWrites(p)
  <2>1. buffer[p] \in Seq(Results) /\ buffer[p] # <<>>
    BY <1>2 DEF FeederWrites, ProcType, HoldInv, Alive
  <2>2. Tail(buffer[p]) \in Seq(Results) /\ Head(buffer[p]) \in Results
    BY <2>1, TailResult
  <2>3. pipe' \in Seq(Results)
    BY <2>2, <1>2, AppendResult DEF FeederWrites, ProcType
  <2>4. buffer' \in [Parsers -> Seq(Results)] /\ \A q \in Parsers : q # p => buffer'[q] = buffer[q]
    BY <2>2, <1>2 DEF FeederWrites, ProcType
  <2>5. UNCHANGED <<ppc, jobs, recipe, signal_received>> /\ wlock' = None /\ ppc[p] # "dead"
    BY <1>2 DEF FeederWrites, procVars, Alive
  <2>6. HoldInv'
    BY <2>4, <2>5, ParserAssumption DEF HoldInv
  <2> QED BY <2>3, <2>4, <2>5, <2>6 DEF ProcType
<1> QED BY <1>1, <1>2 DEF Feeder

LEMMA ProcTypeStep ==
  ASSUME ProcType, HoldInv, ThreadType, [Next]_vars
  PROVE  ProcType' /\ HoldInv'
<1>1. CASE Quiet
  BY <1>1 DEF Quiet, ProcType, HoldInv, procVars, queueVars
<1>2. CASE UNCHANGED <<procVars, buffer, wlock>> /\ (UNCHANGED pipe \/ (pipe # <<>> /\ pipe' = Tail(pipe)))
  <2>1. pipe' \in Seq(Results)
    BY <1>2, TailResult DEF ProcType
  <2> QED BY <2>1, <1>2 DEF ProcType, HoldInv, procVars
<1>3. CASE parse_next
  BY <1>2, <1>3 DEF parse_next, IdleStep
<1>4. ASSUME NEW c \in Threads, Drain(c) PROVE ProcType' /\ HoldInv'
  BY <1>2, <1>4 DEF Drain
<1>5. ASSUME NEW p \in Parsers, NEW sig \in {"INT", "TERM"}, Signalled(p, sig) PROVE ProcType' /\ HoldInv'
  BY <1>5, SignalType
<1>6. ASSUME NEW p \in Parsers, Killed(p) PROVE ProcType' /\ HoldInv'
  BY <1>6, DieType DEF Killed
<1> QED BY <1>1, <1>3, <1>4, <1>5, <1>6, ProcessType, FeederType, Sort

-----------------------------------------------------------------------------
(***************************************************************************)
(* Types and places of the two threads.                                    *)
(***************************************************************************)
ParsersOnly == UNCHANGED <<cooker, generator, parserObj, calls, shortened, faults>>

LEMMA ParsersAlone ==
  ASSUME NEW p \in Parsers, Process(p) \/ Feeder(p) \/ Killed(p)
  PROVE  ParsersOnly
BY DEF Process, NextJob, parse, put, join_thread, SendLocks, SendUnlocks, Feeder, FeederLocks, FeederWrites,
       Killed, ParserStep, ParsersOnly, history

LEMMA ShutdownTypes ==
  ASSUME ThreadType, NEW c \in Threads, shutdown(c)
  PROVE  ThreadType'
<1>0. UNCHANGED <<processes, todo, parsed, added>> /\ (ipc' = ipc \/ ipc' = "done")
  BY DEF shutdown, TestShutdown, SetShutdown, FireEvent, Drain, Quit, Signals, JoinAll, ShutdownStep,
         generator, cooker, parserObj
<1>1. CASE UNCHANGED at /\ \E to \in Stages \ {"INT", "TERM", "join"} : stage' = [stage EXCEPT ![c] = to]
  BY <1>0, <1>1 DEF ThreadType
<1>2. CASE at' = [at EXCEPT ![c] = 1] /\ \E to \in Stages : stage' = [stage EXCEPT ![c] = to]
  BY <1>0, <1>2 DEF ThreadType
<1>3. CASE at' = [at EXCEPT ![c] = @ + 1] /\ stage' = stage
  BY <1>0, <1>3 DEF ThreadType
<1>4. CASE TestShutdown(c) \/ SetShutdown(c)
  BY <1>1, <1>4 DEF TestShutdown, SetShutdown, Stage, Stages
<1>5. CASE FireEvent(c)
  <2>1. CASE stage' = [d \in Threads |-> "back"] /\ UNCHANGED at
    BY <1>0, <2>1 DEF ThreadType, Stages
  <2> QED BY <1>1, <1>5, <2>1 DEF FireEvent, Stage, Stages
<1>6. CASE Drain(c)
  BY <1>1, <1>6 DEF Drain, Stage, Stages
<1>7. CASE Quit(c)
  BY <1>2, <1>7 DEF Quit, Stage, Stages
<1>8. ASSUME NEW sig \in {"INT", "TERM"}, NEW next \in {"TERM", "join"}, Signals(c, sig, next)
      PROVE  ThreadType'
  BY <1>1, <1>2, <1>3, <1>8 DEF Signals, Stage, Stages
<1>9. CASE JoinAll(c)
  <2>1. CASE Stage(c, "join", "join") /\ at' = [at EXCEPT ![c] = @ + 1]
    <3>1. stage' = stage
      BY <2>1 DEF Stage, ThreadType
    <3> QED BY <3>1, <2>1, <1>3
  <2> QED BY <1>1, <1>9, <2>1 DEF JoinAll, Stage, Stages
<1> QED BY <1>4, <1>5, <1>6, <1>7, <1>8, <1>9 DEF shutdown

\* The idle thread enters the shutdown, or its stage stays.
LEMMA StagesOfIdle ==
  ASSUME ThreadType, UNCHANGED calls \/ (EnterShutdown("idle") /\ ipc' # "remove")
  PROVE  /\ stage' \in [Threads -> Stages] /\ at' \in [Threads -> Nat]
         /\ \A c \in Threads : stage'[c] \in {"INT", "TERM", "join"} => at'[c] >= 1
BY DEF ThreadType, EnterShutdown, calls, Stages, Threads

LEMMA ThreadTypeStep ==
  ASSUME ProcType, ThreadType, [Next]_vars
  PROVE  ThreadType'
<1>1. CASE updateCache
  <2>1. UNCHANGED <<processes, todo, parsed, added>> /\ ipc' # "remove" /\ (UNCHANGED calls \/ EnterShutdown("idle"))
    BY <1>1 DEF updateCache, Ends, generator
  <2> QED BY <2>1, StagesOfIdle DEF ThreadType
<1>2. CASE AssignParsing \/ IdleReturns
  <2>1. UNCHANGED <<processes, todo, parsed, added, calls>> /\ ipc' # "remove"
    BY <1>2 DEF AssignParsing, IdleReturns, generator
  <2> QED BY <2>1, StagesOfIdle DEF ThreadType
<1>3. CASE parse_generator
  <2>1. /\ UNCHANGED <<processes, parsed, added>> /\ ipc' # "remove" /\ (UNCHANGED calls \/ EnterShutdown("idle"))
        /\ todo' \in {todo, processes}
    BY <1>3 DEF parse_generator, Exhausted, Ends
  <2> QED BY <2>1, StagesOfIdle DEF ThreadType
<1>4. CASE Prune
  <2>1. UNCHANGED <<processes, parsed, added>> /\ (UNCHANGED calls \/ (EnterShutdown("idle") /\ ipc' # "remove"))
    BY <1>4 DEF Prune, Exhausted, Ends
  <2>2. todo' = todo \/ todo' = <<>> \/ (todo # <<>> /\ todo' = Tail(todo))
    BY <1>4 DEF Prune
  <2>3. todo' \in Seq(Parsers)
    <3>1. <<>> \in Seq(Parsers) /\ (todo # <<>> => Tail(todo) \in Seq(Parsers))
      BY DEF ThreadType
    <3> QED BY <3>1, <2>2 DEF ThreadType
  <2>4. ipc' = "remove" => todo' # <<>>
    BY <1>4 DEF Prune, Exhausted, Ends
  <2> QED BY <2>1, <2>3, <2>4, StagesOfIdle DEF ThreadType
<1>5. CASE RemoveProcess
  <2>1. UNCHANGED <<parsed, added, calls>> /\ ipc' # "remove"
    BY <1>5 DEF RemoveProcess
  <2>2. todo' \in Seq(Parsers)
    BY <1>5 DEF RemoveProcess, ThreadType
  <2>3. processes' \in Seq(Parsers)
    BY <1>5, RemoveListed DEF RemoveProcess, ThreadType
  <2> QED BY <2>1, <2>2, <2>3, StagesOfIdle DEF ThreadType
<1>6. CASE parse_next
  <2>1. UNCHANGED <<processes, todo>> /\ ipc' # "remove" /\ (UNCHANGED calls \/ EnterShutdown("idle"))
    BY <1>6 DEF parse_next, Ends
  <2>2. \/ UNCHANGED <<parsed, added>>
        \/ pipe # <<>> /\ parsed' = parsed + 1 /\ added' = added \cup {Head(pipe).recipe}
    BY <1>6 DEF parse_next
  <2>3. pipe # <<>> => Head(pipe).recipe \in Recipes
    BY TailResult DEF ProcType, Results
  <2>4. parsed' \in Nat /\ added' \subseteq Recipes
    BY <2>2, <2>3 DEF ThreadType
  <2> QED BY <2>1, <2>4, StagesOfIdle DEF ThreadType
<1>7. CASE RequestShutdown
  <2>1. UNCHANGED <<processes, todo, parsed, added, ipc, at>> /\ stage' = [stage EXCEPT !["main"] = "test"]
    BY <1>7 DEF RequestShutdown, EnterShutdown, generator, parserObj
  <2> QED BY <2>1 DEF ThreadType, Threads, Stages
<1>8. CASE shutdown("idle") \/ shutdown("main")
  BY <1>8, ShutdownTypes DEF Threads
<1>9. CASE ParsersOnly
  BY <1>9 DEF ParsersOnly, cooker, generator, parserObj, calls, ThreadType
<1>10. CASE UNCHANGED vars
  BY <1>10 DEF vars, cooker, generator, parserObj, calls, ThreadType
<1> QED BY <1>1, <1>2, <1>3, <1>4, <1>5, <1>6, <1>7, <1>8, <1>9, <1>10, ParsersAlone DEF Next, IdleThread

LEMMA PlaceStep ==
  ASSUME ThreadType, PlaceInv, [Next]_vars
  PROVE  PlaceInv'
<1> USE DEF PlaceInv, ThreadType, Threads
<1>1. CASE updateCache
  BY <1>1 DEF updateCache, Ends, EnterShutdown, IdleStep, calls
<1>2. CASE AssignParsing \/ IdleReturns
  BY <1>2 DEF AssignParsing, IdleReturns, IdleStep, calls
<1>3. CASE parse_generator
  BY <1>3 DEF parse_generator, Exhausted, Ends, EnterShutdown, IdleStep, calls
<1>4. CASE Prune
  BY <1>4 DEF Prune, Exhausted, Ends, EnterShutdown, IdleStep, calls
<1>5. CASE RemoveProcess
  BY <1>5 DEF RemoveProcess, IdleStep, calls
<1>6. CASE parse_next
  BY <1>6 DEF parse_next, Ends, EnterShutdown, IdleStep, calls
<1>7. CASE RequestShutdown
  BY <1>7 DEF RequestShutdown, EnterShutdown
<1>8. ASSUME NEW c \in Threads, shutdown(c) PROVE PlaceInv'
  <2>1. CASE FireEvent(c)
    BY <2>1 DEF FireEvent, Stage
  <2>2. ASSUME stage[c] \notin {"out", "back", "raised"}, UNCHANGED <<ipc, outcome, requested>>,
               stage' = stage \/ \E to \in Stages : stage' = [stage EXCEPT ![c] = to]
        PROVE  PlaceInv'
    BY <2>2
  <2>3. CASE TestShutdown(c) \/ SetShutdown(c) \/ Drain(c) \/ Quit(c)
    BY <2>2, <2>3 DEF TestShutdown, SetShutdown, Drain, Quit, Stage, ShutdownStep, cooker, Stages
  <2>4. CASE Signals(c, "INT", "TERM") \/ Signals(c, "TERM", "join")
    BY <2>2, <2>4 DEF Signals, Stage, ShutdownStep, cooker, Stages
  <2>5. CASE JoinAll(c)
    BY <2>2, <2>5 DEF JoinAll, Stage, ShutdownStep, cooker, Stages
  <2> QED BY <1>8, <2>1, <2>3, <2>4, <2>5 DEF shutdown
<1>9. CASE ParsersOnly
  BY <1>9 DEF ParsersOnly, cooker, calls
<1>10. CASE UNCHANGED vars
  BY <1>10 DEF vars, cooker, calls
<1> QED BY <1>1, <1>2, <1>3, <1>4, <1>5, <1>6, <1>7, <1>8, <1>9, <1>10, ParsersAlone DEF Next, IdleThread

-----------------------------------------------------------------------------
(***************************************************************************)
(* The lock of the event stream.                                           *)
(***************************************************************************)
LEMMA LockStep ==
  ASSUME ProcType, ThreadType, LockInv, [Next]_vars
  PROVE  LockInv'
<1>1. CASE UNCHANGED <<procVars, evlock, killed>>
  BY <1>1 DEF LockInv, procVars
<1>2. CASE Quiet \/ parse_next \/ \E c \in Threads : Drain(c)
  BY <1>1, <1>2 DEF Quiet, parse_next, Drain, IdleStep, ShutdownStep, history
<1>3. ASSUME NEW p \in Parsers, ppc[p] # "sending", ppc[p] # "dead", UNCHANGED <<evlock, killed>>,
             \A q \in Parsers : q # p => ppc'[q] = ppc[q]
      PROVE  LockInv'
  BY <1>3 DEF LockInv
<1>4. ASSUME NEW p \in Parsers, NEW sig \in {"INT", "TERM"}, Signalled(p, sig) PROVE LockInv'
  <2>1. CASE ppc[p] \in {"send", "sending"}
    BY <1>4, <2>1 DEF Signalled, catch_sig, LockInv
  <2>2. CASE ppc[p] \notin {"send", "sending"}
    <3>1. handle_sig(p, sig) /\ ppc[p] # "dead" /\ UNCHANGED <<evlock, killed>>
      BY <1>4, <2>2 DEF Signalled, catch_sig, Alive
    <3>2. \A q \in Parsers : q # p => ppc'[q] = ppc[q]
      BY <3>1 DEF handle_sig, Die, GoTo, ProcType, procVars
    <3> QED BY <3>1, <3>2, <2>2, <1>3
  <2> QED BY <2>1, <2>2
<1>5. ASSUME NEW p \in Parsers, Process(p) \/ Feeder(p) \/ Killed(p) PROVE LockInv'
  <2>1. CASE NextJob(p) \/ parse(p) \/ put(p) \/ join_thread(p)
    <3>1. ppc[p] \notin {"sending", "dead"} /\ UNCHANGED <<evlock, killed>>
      BY <2>1 DEF NextJob, parse, put, join_thread, ParserStep, history
    <3>2. \A q \in Parsers : q # p => ppc'[q] = ppc[q]
      BY <2>1 DEF NextJob, parse, put, join_thread, Die, GoTo, ProcType
    <3> QED BY <3>1, <3>2, <1>3
  <2>2. CASE SendLocks(p)
    BY <2>2 DEF SendLocks, GoTo, Die, ParserStep, history, LockInv, ProcType
  <2>3. CASE SendUnlocks(p)
    BY <2>3, ParserAssumption DEF SendUnlocks, ParserStep, history, LockInv
  <2>4. CASE Feeder(p)
    BY <2>4, <1>1 DEF Feeder, FeederLocks, FeederWrites, ParserStep, history
  <2>5. CASE Killed(p)
    BY <2>5 DEF Killed, Die, LockInv, ProcType
  <2> QED BY <1>5, <2>1, <2>2, <2>3, <2>4, <2>5 DEF Process
<1> QED BY <1>2, <1>4, <1>5, Sort

-----------------------------------------------------------------------------
(***************************************************************************)
(* A recipe is in one place at most.                                       *)
(***************************************************************************)
LEMMA EmptyHasNone == Distinct(<<>>) /\ \A r : ~HasResult(<<>>, r)
BY DEF Distinct, HasResult

\* A parser gives up recipes or results.
LEMMA SingleLess ==
  ASSUME ProcType, SingleInv, NEW p \in Parsers, UNCHANGED <<pipe, added>>,
         \A q \in Parsers : q # p => UNCHANGED <<jobs[q], recipe[q], buffer[q]>>,
         jobs'[p] \subseteq jobs[p], recipe'[p] \in {recipe[p], None}, buffer'[p] \in {buffer[p], <<>>}
  PROVE  SingleInv'
<1>1. None \notin Recipes /\ \A q \in Parsers : jobs[q] \subseteq Recipes
  BY ParserAssumption DEF ProcType
<1>2. \A q \in Parsers : jobs'[q] \subseteq jobs[q] /\ recipe'[q] \in {recipe[q], None}
  OBVIOUS
<1>3. \A q \in Parsers : (Distinct(buffer[q]) => Distinct(buffer'[q])) /\ \A r : HasResult(buffer'[q], r) => HasResult(buffer[q], r)
  BY EmptyHasNone
<1>4. \A q \in Parsers : \A r \in Recipes : r \in Open(q)' => r \in Open(q)
  BY <1>1, <1>2 DEF Open
<1>5. ASSUME NEW q \in Parsers
      PROVE  /\ jobs'[q] \subseteq Jobs[q] /\ recipe'[q] \in Jobs[q] \cup {None} /\ recipe'[q] \notin jobs'[q]
             /\ Distinct(buffer'[q])
             /\ \A r \in Recipes : HasResult(buffer'[q], r) => r \in Jobs[q] /\ r \notin Open(q)'
  BY <1>1, <1>2, <1>3, <1>4 DEF SingleInv
<1> QED BY <1>3, <1>4, <1>5 DEF SingleInv

\* A result leaves the pipe; perhaps its recipe gets into the cache.
LEMMA SingleTaken ==
  ASSUME ProcType, SingleInv, pipe # <<>>, pipe' = Tail(pipe), UNCHANGED <<procVars, buffer>>,
         added' \in {added, added \cup {Head(pipe).recipe}}
  PROVE  SingleInv'
<1>1. /\ \A r : HasResult(pipe, r) <=> HasResult(pipe', r) \/ r = Head(pipe).recipe
      /\ Distinct(pipe') /\ ~HasResult(pipe', Head(pipe).recipe)
  BY TailResult DEF ProcType, SingleInv
<1>2. UNCHANGED <<jobs, recipe, buffer>> /\ \A q \in Parsers : Open(q)' = Open(q)
  BY DEF procVars, Open
<1>3. ASSUME NEW q \in Parsers
      PROVE  /\ jobs'[q] \subseteq Jobs[q] /\ recipe'[q] \in Jobs[q] \cup {None} /\ recipe'[q] \notin jobs'[q]
             /\ Distinct(buffer'[q])
             /\ \A r \in Recipes : HasResult(buffer'[q], r) => r \in Jobs[q] \ Open(q)'
  BY <1>2 DEF SingleInv
<1>4. \A r \in Recipes : HasResult(pipe', r) \/ r \in added' => HasResult(pipe, r) \/ r \in added
  BY <1>1
<1>5. \A r \in Recipes : HasResult(pipe', r) \/ r \in added' =>
        \A p \in Parsers : r \notin Open(p)' /\ ~HasResult(buffer'[p], r)
  BY <1>2, <1>4 DEF SingleInv
<1>6. \A r \in added' : ~HasResult(pipe', r)
  BY <1>1 DEF SingleInv
<1> QED BY <1>1, <1>3, <1>5, <1>6 DEF SingleInv

\* jobs.pop()
LEMMA SinglePop ==
  ASSUME ProcType, HoldInv, SingleInv, NEW p \in Parsers, NEW r \in jobs[p], ppc[p] = "check",
         jobs' = [jobs EXCEPT ![p] = @ \ {r}], recipe' = [recipe EXCEPT ![p] = r], UNCHANGED <<buffer, pipe, added>>
  PROVE  SingleInv'
<1>1. recipe[p] = None /\ r \in Recipes /\ r \in Jobs[p]
  BY DEF HoldInv, Working, ProcType, SingleInv
<1>2. jobs'[p] = jobs[p] \ {r} /\ recipe'[p] = r /\ \A q \in Parsers : q # p => jobs'[q] = jobs[q] /\ recipe'[q] = recipe[q]
  BY DEF ProcType
<1>3. \A q \in Parsers : \A x \in Recipes : x \in Open(q)' <=> x \in Open(q)
  BY <1>1, <1>2, ParserAssumption DEF Open
<1>4. ASSUME NEW q \in Parsers
      PROVE  /\ jobs'[q] \subseteq Jobs[q] /\ recipe'[q] \in Jobs[q] \cup {None} /\ recipe'[q] \notin jobs'[q]
             /\ Distinct(buffer'[q])
             /\ \A x \in Recipes : HasResult(buffer'[q], x) => x \in Jobs[q] \ Open(q)'
  <2>1. CASE q = p
    BY <2>1, <1>1, <1>2, <1>3 DEF SingleInv
  <2>2. CASE q # p
    BY <2>2, <1>2, <1>3 DEF SingleInv
  <2> QED BY <2>1, <2>2
<1> QED BY <1>3, <1>4 DEF SingleInv

\* results.put: the recipe goes from the parser to its buffer.
LEMMA SinglePut ==
  ASSUME ProcType, HoldInv, SingleInv, NEW p \in Parsers, put(p)
  PROVE  SingleInv'
<1>1. /\ UNCHANGED <<jobs, pipe, added>> /\ recipe' = [recipe EXCEPT ![p] = None]
      /\ buffer' = [buffer EXCEPT ![p] = Append(@, Result(p))] /\ recipe[p] # None
  BY DEF put, ParserStep, generator, HoldInv, Working
<1>2. recipe[p] \in Recipes /\ recipe[p] \in Jobs[p] /\ recipe[p] \notin jobs[p] /\ None \notin Recipes
  BY <1>1, ParserAssumption DEF SingleInv, ProcType
<1>3. Result(p) \in Results /\ Result(p).recipe = recipe[p]
  BY <1>2 DEF Result, Results
<1>4. buffer[p] \in Seq(Results) /\ ~HasResult(buffer[p], recipe[p])
  BY <1>2 DEF ProcType, SingleInv, Open
<1>5. Distinct(buffer'[p]) /\ \A r : HasResult(buffer'[p], r) <=> HasResult(buffer[p], r) \/ r = recipe[p]
  <2>1. buffer'[p] = Append(buffer[p], Result(p))
    BY <1>1 DEF ProcType
  <2> QED BY <2>1, <1>3, <1>4, AppendResult DEF SingleInv
<1>6. recipe'[p] = None /\ \A q \in Parsers : q # p => recipe'[q] = recipe[q] /\ buffer'[q] = buffer[q]
  BY <1>1 DEF ProcType
<1>7. Open(p)' = jobs[p] \cup {None} /\ \A q \in Parsers : q # p => Open(q)' = Open(q)
  BY <1>1, <1>6 DEF Open
<1>8. \A r \in Recipes : r \in Open(p)' => r \in Open(p)
  BY <1>2, <1>7 DEF Open
<1>9. \A r \in Recipes : HasResult(buffer'[p], r) => r \in Jobs[p] \ Open(p)'
  <2> TAKE r \in Recipes
  <2>1. CASE HasResult(buffer[p], r)
    BY <2>1, <1>8 DEF SingleInv
  <2>2. CASE r = recipe[p]
    BY <2>2, <1>2, <1>7
  <2> QED BY <2>1, <2>2, <1>5
<1>10. ASSUME NEW q \in Parsers
       PROVE  /\ jobs'[q] \subseteq Jobs[q] /\ recipe'[q] \in Jobs[q] \cup {None} /\ recipe'[q] \notin jobs'[q]
              /\ Distinct(buffer'[q])
              /\ \A r \in Recipes : HasResult(buffer'[q], r) => r \in Jobs[q] \ Open(q)'
  <2>1. CASE q = p
    <3>1. None \notin jobs[p]
      BY <1>2 DEF ProcType
    <3> QED BY <2>1, <3>1, <1>1, <1>5, <1>6, <1>9 DEF SingleInv
  <2>2. CASE q # p
    BY <2>2, <1>1, <1>6, <1>7 DEF SingleInv
  <2> QED BY <2>1, <2>2
<1>11. ASSUME NEW r \in Recipes, HasResult(pipe, r) \/ r \in added, NEW q \in Parsers
       PROVE  r \notin Open(q)' /\ ~HasResult(buffer'[q], r)
  <2>1. r \notin Open(q) /\ ~HasResult(buffer[q], r)
    BY <1>11 DEF SingleInv
  <2>2. CASE q = p
    <3>1. r # recipe[p]
      BY <2>1, <2>2 DEF Open
    <3> QED BY <2>1, <2>2, <3>1, <1>5, <1>8
  <2>3. CASE q # p
    BY <2>1, <2>3, <1>6, <1>7
  <2> QED BY <2>2, <2>3
<1> QED BY <1>1, <1>10, <1>11 DEF SingleInv

\* The feeder writes a result: it goes from the buffer to the pipe.
LEMMA SingleWritten ==
  ASSUME ProcType, HoldInv, SingleInv, NEW p \in Parsers, FeederWrites(p)
  PROVE  SingleInv'
<1> DEFINE x == Head(buffer[p])
<1>1. /\ UNCHANGED <<jobs, recipe, added>> /\ pipe' = Append(pipe, x)
      /\ buffer' = [buffer EXCEPT ![p] = Tail(@)]
  BY DEF FeederWrites, ParserStep, generator, procVars
<1>2. buffer[p] \in Seq(Results) /\ buffer[p] # <<>> /\ pipe \in Seq(Results)
  BY DEF FeederWrites, ProcType, HoldInv, Alive
<1>3. buffer'[p] = Tail(buffer[p]) /\ \A q \in Parsers : q # p => buffer'[q] = buffer[q]
  BY <1>1 DEF ProcType
<1>4. /\ x \in Results /\ x.recipe \in Recipes
      /\ \A r : HasResult(buffer[p], r) <=> HasResult(buffer'[p], r) \/ r = x.recipe
      /\ Distinct(buffer'[p]) /\ ~HasResult(buffer'[p], x.recipe)
  <2>1. Distinct(buffer[p])
    BY DEF SingleInv
  <2>2. /\ x \in Results
        /\ \A r : HasResult(buffer[p], r) <=> HasResult(Tail(buffer[p]), r) \/ r = x.recipe
        /\ Distinct(Tail(buffer[p])) /\ ~HasResult(Tail(buffer[p]), x.recipe)
    BY <2>1, <1>2, TailResult
  <2>3. x.recipe \in Recipes
    BY <2>2 DEF Results
  <2> QED BY <2>2, <2>3, <1>3
<1> HIDE DEF x
<1>5. HasResult(buffer[p], x.recipe) /\ x.recipe \in Jobs[p] \ Open(p)
  BY <1>4 DEF SingleInv
<1>6. ~HasResult(pipe, x.recipe) /\ x.recipe \notin added
  BY <1>4, <1>5 DEF SingleInv
<1>7. Distinct(pipe') /\ \A r : HasResult(pipe', r) <=> HasResult(pipe, r) \/ r = x.recipe
  BY <1>1, <1>2, <1>4, <1>6, AppendResult DEF SingleInv
<1>8. \A q \in Parsers : Open(q)' = Open(q)
  BY <1>1 DEF Open
<1>9. ASSUME NEW q \in Parsers
      PROVE  /\ jobs'[q] \subseteq Jobs[q] /\ recipe'[q] \in Jobs[q] \cup {None} /\ recipe'[q] \notin jobs'[q]
             /\ Distinct(buffer'[q])
             /\ \A r \in Recipes : HasResult(buffer'[q], r) => r \in Jobs[q] \ Open(q)'
  BY <1>1, <1>3, <1>4, <1>8 DEF SingleInv
<1>10. ASSUME NEW q \in Parsers PROVE x.recipe \notin Open(q)' /\ ~HasResult(buffer'[q], x.recipe)
  <2>1. CASE q = p
    BY <2>1, <1>4, <1>5, <1>8
  <2>2. CASE q # p
    <3>1. x.recipe \notin Jobs[q] /\ x.recipe # None
      BY <2>2, <1>4, <1>5, ParserAssumption
    <3> QED BY <2>2, <3>1, <1>3, <1>4, <1>8 DEF SingleInv, Open
  <2> QED BY <2>1, <2>2
<1>11. ASSUME NEW r \in Recipes, HasResult(pipe', r) \/ r \in added', NEW q \in Parsers
       PROVE  r \notin Open(q)' /\ ~HasResult(buffer'[q], r)
  <2>1. CASE r = x.recipe
    BY <2>1, <1>10
  <2>2. CASE HasResult(pipe, r) \/ r \in added
    <3>1. r \notin Open(q) /\ ~HasResult(buffer[q], r)
      BY <2>2 DEF SingleInv
    <3> QED BY <3>1, <1>3, <1>4, <1>8
  <2> QED BY <2>1, <2>2, <1>1, <1>7, <1>11
<1>12. \A r \in added' : ~HasResult(pipe', r)
  BY <1>1, <1>6, <1>7 DEF SingleInv
<1> QED BY <1>7, <1>9, <1>11, <1>12 DEF SingleInv

LEMMA SingleStep ==
  ASSUME ProcType, HoldInv, ThreadType, SingleInv, [Next]_vars
  PROVE  SingleInv'
<1>1. CASE UNCHANGED <<jobs, recipe, buffer, pipe, added>>
  BY <1>1 DEF SingleInv, Open
<1>2. CASE Quiet
  BY <1>1, <1>2 DEF Quiet, procVars, queueVars
<1>3. CASE parse_next
  <2>1. UNCHANGED <<procVars, buffer>>
    BY <1>3 DEF parse_next, IdleStep
  <2>2. CASE UNCHANGED <<pipe, added>>
    BY <1>1, <2>1, <2>2 DEF procVars
  <2>3. CASE pipe # <<>> /\ pipe' = Tail(pipe) /\ added' \in {added, added \cup {Head(pipe).recipe}}
    BY <2>1, <2>3, SingleTaken
  <2> QED BY <1>3, <2>2, <2>3 DEF parse_next
<1>4. ASSUME NEW c \in Threads, Drain(c) PROVE SingleInv'
  <2>1. UNCHANGED <<procVars, buffer, added>>
    BY <1>4 DEF Drain, ShutdownStep, generator
  <2>2. CASE UNCHANGED pipe
    BY <1>1, <2>1, <2>2 DEF procVars
  <2>3. CASE pipe # <<>> /\ pipe' = Tail(pipe)
    BY <2>1, <2>3, SingleTaken
  <2> QED BY <1>4, <2>2, <2>3 DEF Drain
<1>5. ASSUME NEW p \in Parsers, Die(p), UNCHANGED <<pipe, added>> PROVE SingleInv'
  <2>1. /\ \A q \in Parsers : q # p => UNCHANGED <<jobs[q], recipe[q], buffer[q]>>
        /\ jobs'[p] = {} /\ recipe'[p] = None /\ buffer'[p] = <<>>
    BY <1>5 DEF Die, ProcType
  <2> QED BY <2>1, <1>5, SingleLess
<1>6. ASSUME NEW p \in Parsers, NEW sig \in {"INT", "TERM"}, Signalled(p, sig) PROVE SingleInv'
  <2>0. UNCHANGED <<pipe, added>>
    BY <1>6 DEF Signalled
  <2>1. CASE UNCHANGED <<jobs, recipe, buffer>>
    BY <1>1, <2>0, <2>1
  <2>2. CASE recipe' = [recipe EXCEPT ![p] = None] /\ UNCHANGED <<jobs, buffer>>
    <3>1. recipe'[p] = None /\ \A q \in Parsers : q # p => recipe'[q] = recipe[q]
      BY <2>2 DEF ProcType
    <3> QED BY <3>1, <2>0, <2>2, SingleLess
  <2>3. CASE Die(p)
    BY <1>5, <2>0, <2>3
  <2> QED BY <1>6, <2>1, <2>2, <2>3 DEF Signalled, catch_sig, handle_sig, procVars
<1>7. ASSUME NEW p \in Parsers, Process(p) PROVE SingleInv'
  <2>0. UNCHANGED added
    BY <1>7 DEF Process, NextJob, parse, put, join_thread, SendLocks, SendUnlocks, ParserStep, generator
  <2>1. CASE NextJob(p)
    BY <1>1, <2>0, <2>1, SinglePop DEF NextJob, queueVars
  <2>2. CASE parse(p)
    BY <1>1, <2>0, <2>2 DEF parse, queueVars
  <2>3. CASE put(p)
    BY <2>3, SinglePut
  <2>4. CASE join_thread(p)
    BY <1>5, <2>0, <2>4 DEF join_thread
  <2>5. CASE SendLocks(p)
    BY <1>1, <1>5, <2>0, <2>5 DEF SendLocks, queueVars
  <2>6. CASE SendUnlocks(p)
    BY <1>1, <1>5, <2>0, <2>6 DEF SendUnlocks
  <2> QED BY <1>7, <2>1, <2>2, <2>3, <2>4, <2>5, <2>6 DEF Process
<1>8. ASSUME NEW p \in Parsers, Feeder(p) PROVE SingleInv'
  <2>1. CASE FeederLocks(p)
    BY <1>1, <2>1 DEF FeederLocks, ParserStep, procVars, generator
  <2> QED BY <1>8, <2>1, SingleWritten DEF Feeder
<1>9. ASSUME NEW p \in Parsers, Killed(p) PROVE SingleInv'
  BY <1>5, <1>9 DEF Killed, generator
<1> QED BY <1>2, <1>3, <1>4, <1>6, <1>7, <1>8, <1>9, Sort

-----------------------------------------------------------------------------
(***************************************************************************)
(* So every result that is counted is a new recipe in the cache.           *)
(***************************************************************************)
LEMMA AddedFinite ==
  ASSUME ThreadType
  PROVE  IsFiniteSet(added) /\ Cardinality(added) \in Nat /\ (Cardinality(added) >= ToParse => added = Recipes)
<1>1. IsFiniteSet(Recipes) /\ added \in SUBSET Recipes
  BY ParserAssumption DEF ThreadType
<1>2. /\ IsFiniteSet(added) /\ Cardinality(added) <= Cardinality(Recipes)
      /\ Cardinality(Recipes) = Cardinality(added) => Recipes = added
  BY <1>1, FS_Subset
<1>3. Cardinality(added) \in Nat /\ Cardinality(Recipes) \in Nat
  BY <1>1, <1>2, FS_CardinalityType
<1> QED BY <1>2, <1>3 DEF ToParse

LEMMA CountStep ==
  ASSUME ProcType, ThreadType, SingleInv, CountInv, [Next]_vars
  PROVE  CountInv'
<1>1. CASE UNCHANGED <<parsed, added>>
  BY <1>1 DEF CountInv
<1>2. CASE parse_next
  <2>1. CASE pipe # <<>> /\ parsed' = parsed + 1 /\ added' = added \cup {Head(pipe).recipe}
    <3>1. HasResult(pipe, Head(pipe).recipe)
      BY <2>1, TailResult DEF ProcType
    <3>2. Head(pipe).recipe \notin added
      BY <3>1 DEF SingleInv
    <3>3. Cardinality(added') = Cardinality(added) + 1
      BY <2>1, <3>2, AddedFinite, FS_AddElement
    <3> QED BY <2>1, <3>3 DEF CountInv
  <2> QED BY <1>1, <1>2, <2>1 DEF parse_next
<1>3. ASSUME NEW p \in Parsers, Process(p) \/ Feeder(p) \/ Killed(p) PROVE CountInv'
  BY <1>1, <1>3, ParsersAlone DEF ParsersOnly, generator
<1> QED BY <1>1, <1>2, <1>3, Sort DEF Quiet, Drain, Signalled, ShutdownStep, generator

-----------------------------------------------------------------------------
(***************************************************************************)
(* A recipe is in one place at least while nobody interferes.              *)
(***************************************************************************)
\* Interference is not undone.
LEMMA Monotone ==
  ASSUME [Next]_vars
  PROVE  /\ requested => requested'
         /\ killed \subseteq killed'
         /\ ipc \in {"shutdown", "done"} => ipc' \in {"shutdown", "done"}
<1>1. ASSUME NEW c \in Threads, shutdown(c)
      PROVE  UNCHANGED <<requested, killed>> /\ (ipc' = ipc \/ ipc' = "done")
  BY <1>1 DEF shutdown, TestShutdown, SetShutdown, FireEvent, Drain, Quit, Signals, JoinAll, ShutdownStep, cooker, history
<1>2. CASE RequestShutdown \/ UNCHANGED vars
  BY <1>2 DEF RequestShutdown, vars, cooker, history
<1>3. CASE IdleThread /\ ~shutdown("idle")
  BY <1>3 DEF IdleThread, updateCache, AssignParsing, parse_generator, Prune, RemoveProcess, parse_next, IdleReturns,
              IdleStep
<1>4. ASSUME NEW p \in Parsers, Process(p) \/ Feeder(p) \/ Killed(p)
      PROVE  UNCHANGED <<requested, ipc>> /\ killed \subseteq killed'
  <2>1. UNCHANGED <<requested, ipc>>
    BY <1>4, ParsersAlone DEF ParsersOnly, cooker
  <2>2. killed \subseteq killed'
    BY <1>4 DEF Process, NextJob, parse, put, join_thread, SendLocks, SendUnlocks, Feeder, FeederLocks, FeederWrites,
                Killed, ParserStep, history
  <2> QED BY <2>1, <2>2
<1> QED BY <1>1, <1>2, <1>3, <1>4 DEF Next, Threads

\* While nobody interferes no thread is in a shutdown.
LEMMA CalmMeansOut ==
  ASSUME PlaceInv, Calm, NEW c \in Threads
  PROVE  stage[c] = "out" /\ ~shutdown(c)
<1>1. stage[c] = "out"
  BY DEF PlaceInv, Calm, Threads
<1>2. ~shutdown(c)
  BY <1>1 DEF shutdown, TestShutdown, SetShutdown, FireEvent, Drain, Quit, Signals, JoinAll, Stage
<1> QED BY <1>1, <1>2

\* A dead parser has nothing left.
LEMMA DeadHasNothing ==
  ASSUME HoldInv, NEW p \in Parsers, ~Alive(p), NEW r \in Recipes
  PROVE  r \notin Open(p) /\ ~HasResult(buffer[p], r)
BY EmptyHasNone, ParserAssumption DEF HoldInv, Alive, Open, Working

CalmProcs == \A p \in Parsers : signal_received[p] = {} /\ (ppc[p] = "flush" => jobs[p] = {})

LEMMA CalmProcess ==
  ASSUME ProcType, HoldInv, LockInv, CalmInv, Calm, Calm', NEW p \in Parsers, Process(p) \/ Feeder(p) \/ Killed(p)
  PROVE  CalmProcs' /\ \A q \in Parsers : \A r \in Jobs[q] : Somewhere(q, r)'
<1> DEFINE Goal == CalmProcs' /\ \A q \in Parsers : \A r \in Jobs[q] : Somewhere(q, r)'
<1>0. /\ ~parser_quit /\ CalmProcs /\ \A q \in Parsers : \A r \in Jobs[q] : Somewhere(q, r)
      /\ UNCHANGED added /\ killed = {} /\ killed' = {} /\ \A q \in Parsers : Jobs[q] \subseteq Recipes
  BY ParsersAlone, ParserAssumption DEF CalmInv, Calm, CalmProcs, ParsersOnly, generator
\* Only parser p moves, and keeps what it has.
<1>1. ASSUME UNCHANGED <<jobs, recipe, buffer, pipe, signal_received>>,
             \A q \in Parsers : ppc'[q] = "flush" => ppc[q] = "flush" \/ jobs[q] = {}
      PROVE  Goal
  BY <1>0, <1>1 DEF Somewhere, Open, CalmProcs
<1>2. ASSUME Die(p), ppc[p] = "flush", buffer[p] = <<>>, UNCHANGED pipe PROVE Goal
  <2>1. recipe[p] = None /\ jobs[p] = {}
    BY <1>0, <1>2 DEF HoldInv, Working, CalmProcs
  <2>2. UNCHANGED <<jobs, recipe, buffer, signal_received>>
    BY <2>1, <1>0, <1>2 DEF Die, ProcType, CalmProcs
  <2>3. \A q \in Parsers : ppc'[q] = "flush" => ppc[q] = "flush"
    BY <1>2 DEF Die, ProcType
  <2> QED BY <2>2, <2>3, <1>1, <1>2
<1>3. CASE NextJob(p)
  <2>1. CASE GoTo(p, "flush") /\ UNCHANGED <<jobs, recipe>> /\ jobs[p] = {}
    BY <1>1, <1>3, <2>1 DEF NextJob, GoTo, ProcType, queueVars
  <2>2. ASSUME NEW r \in jobs[p], jobs' = [jobs EXCEPT ![p] = @ \ {r}], recipe' = [recipe EXCEPT ![p] = r],
               GoTo(p, IF r \in Noisy THEN "send" ELSE "parse")
        PROVE  Goal
    <3>1. UNCHANGED <<signal_received, buffer, pipe>> /\ ppc[p] = "check" /\ recipe[p] = None
      BY <1>3 DEF NextJob, queueVars, HoldInv, Working
    <3>2. CalmProcs'
      BY <2>2, <3>1, <1>0 DEF CalmProcs, GoTo, ProcType
    <3>3. \A q \in Parsers : \A x \in Recipes : x \in Open(q) => x \in Open(q)'
      BY <2>2, <3>1, ParserAssumption DEF Open, ProcType
    <3> QED BY <3>1, <3>2, <3>3, <1>0 DEF Somewhere
  <2> QED BY <1>0, <1>3, <2>1, <2>2 DEF NextJob
<1>4. CASE parse(p)
  BY <1>1, <1>4 DEF parse, GoTo, ProcType, queueVars
<1>5. CASE put(p)
  <2>1. /\ UNCHANGED <<jobs, signal_received, pipe>> /\ recipe' = [recipe EXCEPT ![p] = None]
        /\ ppc' = [ppc EXCEPT ![p] = "check"]
        /\ buffer' = [buffer EXCEPT ![p] = Append(@, Result(p))] /\ recipe[p] # None
    BY <1>5 DEF put, GoTo, HoldInv, Working
  <2>2. CalmProcs'
    BY <2>1, <1>0 DEF CalmProcs, ProcType
  <2>3. Result(p) \in Results /\ Result(p).recipe = recipe[p] /\ buffer[p] \in Seq(Results)
    BY <2>1 DEF Result, Results, ProcType
  <2>4. \A r : HasResult(buffer'[p], r) <=> HasResult(buffer[p], r) \/ r = recipe[p]
    <3>1. buffer'[p] = Append(buffer[p], Result(p))
      BY <2>1 DEF ProcType
    <3> QED BY <3>1, <2>3, AppendResult
  <2>5. \A q \in Parsers : q # p => recipe'[q] = recipe[q] /\ buffer'[q] = buffer[q]
    BY <2>1 DEF ProcType
  <2>6. ASSUME NEW q \in Parsers, NEW r \in Jobs[q] PROVE Somewhere(q, r)'
    <3>1. CASE q = p
      BY <3>1, <2>1, <2>4, <2>6, <1>0 DEF Somewhere, Open
    <3>2. CASE q # p
      BY <3>2, <2>1, <2>5, <2>6, <1>0 DEF Somewhere, Open
    <3> QED BY <3>1, <3>2
  <2> QED BY <2>2, <2>6
<1>6. CASE join_thread(p)
  BY <1>2, <1>6 DEF join_thread
<1>7. CASE SendLocks(p)
  <2>1. ~Orphaned(evlock)
    BY <1>0 DEF Orphaned, LockInv, Alive
  <2> QED BY <2>1, <1>1, <1>7 DEF SendLocks, GoTo, ProcType, queueVars
<1>8. CASE SendUnlocks(p)
  <2>1. signal_received[p] = {}
    BY <1>0 DEF CalmProcs
  <2>2. signal_received' = signal_received /\ GoTo(p, "parse") /\ UNCHANGED <<jobs, recipe, buffer, pipe>>
    BY <2>1, <1>8 DEF SendUnlocks, ProcType
  <2> QED BY <2>2, <1>1 DEF GoTo, ProcType
<1>9. CASE FeederLocks(p)
  BY <1>1, <1>9 DEF FeederLocks, procVars
<1>10. CASE FeederWrites(p)
  <2>1. /\ UNCHANGED <<ppc, jobs, recipe, signal_received>> /\ pipe' = Append(pipe, Head(buffer[p]))
        /\ buffer' = [buffer EXCEPT ![p] = Tail(@)]
    BY <1>10 DEF FeederWrites, procVars
  <2>2. buffer[p] \in Seq(Results) /\ buffer[p] # <<>> /\ pipe \in Seq(Results)
    BY <1>10 DEF FeederWrites, ProcType, HoldInv, Alive
  <2>3. buffer'[p] = Tail(buffer[p]) /\ \A q \in Parsers : q # p => buffer'[q] = buffer[q]
    BY <2>1 DEF ProcType
  <2>4. Head(buffer[p]) \in Results /\ \A r : HasResult(buffer[p], r) <=> HasResult(buffer'[p], r) \/ r = Head(buffer[p]).recipe
    BY <2>2, <2>3, TailResult
  <2>5. \A r : HasResult(pipe', r) <=> HasResult(pipe, r) \/ r = Head(buffer[p]).recipe
    BY <2>1, <2>2, <2>4, AppendResult
  <2>6. ASSUME NEW q \in Parsers, NEW r \in Jobs[q] PROVE Somewhere(q, r)'
    BY <2>1, <2>3, <2>4, <2>5, <2>6, <1>0 DEF Somewhere, Open
  <2> QED BY <2>1, <2>6, <1>0 DEF CalmProcs
<1>11. ~Killed(p)
  BY <1>0 DEF Killed
<1> QED BY <1>3, <1>4, <1>5, <1>6, <1>7, <1>8, <1>9, <1>10, <1>11 DEF Process, Feeder

\* The last process has gone from the list: no parser moves any more.
LEMMA NoneListed ==
  ASSUME ShutInv, processes = <<>>, NEW p \in Parsers
  PROVE  ~Alive(p) /\ ~(Process(p) \/ Feeder(p) \/ Killed(p))
<1>1. ~Alive(p)
  BY DEF ShutInv, ListInv, ListedIn
<1> QED BY <1>1 DEF Alive, Process, NextJob, parse, put, join_thread, SendLocks, SendUnlocks, Feeder, FeederLocks,
                    FeederWrites, Killed

LEMMA CalmStep ==
  ASSUME ProcType, HoldInv, LockInv, PlaceInv, ShutInv, CalmInv, [Next]_vars
  PROVE  CalmInv'
<1> SUFFICES ASSUME Calm' PROVE CalmInv'
  BY DEF CalmInv
<1>0. Calm
  BY Monotone DEF Calm
<1>1. /\ ~parser_quit /\ CalmProcs /\ \A p \in Parsers : \A r \in Jobs[p] : Somewhere(p, r)
      /\ ipc \in {"call", "assign", "resume"} /\ empty /\ processes = <<>> => pipe = <<>>
  BY <1>0 DEF CalmInv, CalmProcs
<1>2. ~shutdown("idle") /\ ~shutdown("main") /\ stage["main"] = "out" /\ ~RequestShutdown
  BY <1>0, CalmMeansOut DEF Threads, RequestShutdown, Calm
<1>3. ASSUME UNCHANGED <<procVars, buffer, pipe, added, parser_quit>>,
             ipc' \in {"call", "assign", "resume"} /\ empty' /\ processes' = <<>> => pipe = <<>>
      PROVE  CalmInv'
  BY <1>1, <1>3 DEF CalmInv, CalmProcs, Somewhere, Open, procVars
<1>4. CASE updateCache \/ AssignParsing
  BY <1>1, <1>3, <1>4 DEF updateCache, AssignParsing, Ends, Calm, IdleStep, queueVars, generator
<1>5. CASE parse_generator \/ Prune \/ RemoveProcess
  BY <1>3, <1>5 DEF parse_generator, Prune, RemoveProcess, Exhausted, Ends, Calm, IdleStep, queueVars
<1>6. CASE parse_next
  <2>0. ~Blocked("idle") /\ UNCHANGED <<procVars, buffer, parser_quit>>
    BY <1>2, <1>6 DEF Blocked, Threads, parse_next, IdleStep
  <2>1. CASE Empty("idle") /\ UNCHANGED <<added, pipe>>
    BY <2>0, <2>1, <1>3 DEF Empty
  <2>2. CASE ipc' = "blocked" /\ UNCHANGED <<added, pipe>>
    BY <2>0, <2>2, <1>3
  <2>3. CASE pipe # <<>> /\ pipe' = Tail(pipe) /\ empty' = FALSE /\ added' = added \cup {Head(pipe).recipe}
    <3>1. \A r : HasResult(pipe, r) <=> HasResult(pipe', r) \/ r = Head(pipe).recipe
      BY <2>3, TailResult DEF ProcType
    <3>2. \A p \in Parsers : \A r \in Jobs[p] : Somewhere(p, r)'
      BY <3>1, <2>0, <2>3, <1>1 DEF Somewhere, Open, procVars
    <3> QED BY <3>2, <2>0, <2>3, <1>1 DEF CalmInv, CalmProcs, procVars
  <2> QED BY <1>6, <2>1, <2>2, <2>3 DEF parse_next, Ends, Calm
<1>7. ~IdleReturns
  BY <1>0 DEF IdleReturns, Calm
<1>8. ASSUME NEW p \in Parsers, Process(p) \/ Feeder(p) \/ Killed(p) PROVE CalmInv'
  <2>1. UNCHANGED <<parser_quit, processes>> /\ processes # <<>>
    BY <1>8, ParsersAlone, NoneListed DEF ParsersOnly, parserObj
  <2>2. CalmProcs' /\ \A q \in Parsers : \A r \in Jobs[q] : Somewhere(q, r)'
    BY <1>0, <1>8, CalmProcess
  <2> QED BY <2>1, <2>2, <1>1 DEF CalmInv, CalmProcs
<1>9. CASE UNCHANGED vars
  BY <1>1, <1>3, <1>9 DEF vars, cooker, generator, parserObj, queueVars
<1> QED BY <1>2, <1>4, <1>5, <1>6, <1>7, <1>8, <1>9 DEF Next, IdleThread

-----------------------------------------------------------------------------
(***************************************************************************)
(* How parsing ends.                                                       *)
(***************************************************************************)
OutcomeInv == CompleteMeansAll /\ OnlyAfterKill

\* The loop of parse_generator is over and results are missing.
LEMMA MissingMeansKilled ==
  ASSUME HoldInv, ThreadType, CountInv, ShutInv, CalmInv, ipc = "resume", processes = <<>>, empty, ~(parsed >= ToParse)
  PROVE  killed # {} \/ requested
<1> SUFFICES ASSUME Calm PROVE FALSE
  BY DEF Calm
<1>1. pipe = <<>> /\ \A p \in Parsers : \A r \in Jobs[p] : Somewhere(p, r)
  BY DEF CalmInv
<1>2. ASSUME NEW p \in Parsers, NEW r \in Jobs[p] PROVE r \in added
  <2>1. r \in Recipes /\ ~Alive(p)
    BY NoneListed DEF Recipes
  <2>2. r \notin Open(p) /\ ~HasResult(buffer[p], r) /\ ~HasResult(pipe, r)
    BY <2>1, <1>1, DeadHasNothing, EmptyHasNone
  <2> QED BY <2>2, <1>1 DEF Somewhere
<1>3. added = Recipes
  BY <1>2 DEF Recipes, ThreadType
<1>4. ToParse \in Nat /\ parsed = ToParse
  BY <1>3, AddedFinite DEF CountInv, ToParse
<1> QED BY <1>4

LEMMA OutcomeStep ==
  ASSUME HoldInv, ThreadType, CountInv, PlaceInv, ShutInv, CalmInv, OutcomeInv, [Next]_vars
  PROVE  OutcomeInv'
<1>0. None \notin {"complete", "incomplete"}
  BY ParserAssumption
<1>1. requested => requested'
  BY Monotone
<1>2. killed \subseteq killed'
  BY Monotone
\* The verdict stays, or is another one.
<1>3. ASSUME outcome' = outcome \/ outcome' \notin {"complete", "incomplete"}, UNCHANGED added PROVE OutcomeInv'
  BY <1>1, <1>2, <1>3 DEF OutcomeInv, CompleteMeansAll, OnlyAfterKill
<1>4. ASSUME Exhausted, UNCHANGED added, parsed >= ToParse \/ (ipc = "resume" /\ processes = <<>> /\ empty)
      PROVE  OutcomeInv'
  <2>1. CASE parsed >= ToParse
    <3>1. added = Recipes /\ outcome' = "complete"
      BY <2>1, <1>4, AddedFinite DEF CountInv, Exhausted, Ends
    <3> QED BY <3>1, <1>4 DEF OutcomeInv, CompleteMeansAll, OnlyAfterKill
  <2>2. CASE ~(parsed >= ToParse)
    <3>1. (killed # {} \/ requested) /\ outcome' = "incomplete"
      BY <2>2, <1>4, MissingMeansKilled DEF Exhausted, Ends
    <3> QED BY <3>1, <1>1, <1>2, <1>4 DEF OutcomeInv, CompleteMeansAll, OnlyAfterKill
  <2> QED BY <2>1, <2>2
<1>5. CASE updateCache \/ AssignParsing \/ RemoveProcess
  BY <1>3, <1>5 DEF updateCache, AssignParsing, RemoveProcess, Ends, generator
<1>6. CASE parse_generator
  BY <1>3, <1>4, <1>6 DEF parse_generator, MoreToCome
<1>7. CASE Prune
  BY <1>3, <1>4, <1>7 DEF Prune, Ends
<1>8. CASE parse_next
  <2>1. outcome = None /\ outcome' \in {outcome, "error"}
    BY <1>8 DEF parse_next, Ends, PlaceInv
  <2> QED BY <2>1, <1>0 DEF OutcomeInv, CompleteMeansAll, OnlyAfterKill
<1>9. CASE IdleReturns
  BY <1>3, <1>9 DEF IdleReturns, generator
<1>10. CASE RequestShutdown
  BY <1>3, <1>10 DEF RequestShutdown, generator
<1>11. ASSUME NEW c \in Threads, shutdown(c) PROVE OutcomeInv'
  <2>1. CASE FireEvent(c)
    BY <2>1, <1>3 DEF FireEvent, generator
  <2> QED BY <2>1, <1>3, <1>11 DEF shutdown, TestShutdown, SetShutdown, Drain, Quit, Signals, JoinAll, ShutdownStep,
                                   cooker, generator
<1>12. ASSUME NEW p \in Parsers, Process(p) \/ Feeder(p) \/ Killed(p) PROVE OutcomeInv'
  BY <1>3, <1>12, ParsersAlone DEF ParsersOnly, cooker, generator
<1>13. CASE UNCHANGED vars
  BY <1>3, <1>13 DEF vars, cooker, generator
<1> QED BY <1>5, <1>6, <1>7, <1>8, <1>9, <1>10, <1>11, <1>12, <1>13 DEF Next, IdleThread, Threads

-----------------------------------------------------------------------------
(***************************************************************************)
(* What the shutdown knows of the processes.                               *)
(***************************************************************************)
LEMMA DeadStays ==
  ASSUME ProcType, ThreadType, [Next]_vars, NEW p \in Parsers, ~Alive(p)
  PROVE  ~Alive(p)'
<1>1. CASE UNCHANGED ppc
  BY <1>1 DEF Alive
<1>2. ASSUME NEW q \in Parsers, Alive(q), \A x \in Parsers : x # q => ppc'[x] = ppc[x] PROVE ~Alive(p)'
  BY <1>2 DEF Alive
<1>3. ASSUME NEW q \in Parsers, NEW sig \in {"INT", "TERM"}, Signalled(q, sig) PROVE ~Alive(p)'
  <2>1. Alive(q) /\ \A x \in Parsers : x # q => ppc'[x] = ppc[x]
    BY <1>3 DEF Signalled, catch_sig, handle_sig, GoTo, Die, ProcType, procVars
  <2> QED BY <2>1, <1>2
<1>4. ASSUME NEW q \in Parsers, Process(q) \/ Killed(q) PROVE ~Alive(p)'
  <2>1. Alive(q)
    BY <1>4 DEF Alive, Process, NextJob, parse, put, join_thread, SendLocks, SendUnlocks, Killed
  <2>2. (\E place : GoTo(q, place)) \/ Die(q)
    BY <1>4 DEF Process, NextJob, parse, put, join_thread, SendLocks, SendUnlocks, Killed
  <2>3. \A x \in Parsers : x # q => ppc'[x] = ppc[x]
    BY <2>2 DEF GoTo, Die, ProcType
  <2> QED BY <2>1, <2>3, <1>2
<1>5. ASSUME NEW q \in Parsers, Feeder(q) PROVE ~Alive(p)'
  BY <1>1, <1>5 DEF Feeder, FeederLocks, FeederWrites, procVars
<1>6. CASE Quiet \/ parse_next \/ \E c \in Threads : Drain(c)
  BY <1>1, <1>6 DEF Quiet, parse_next, Drain, IdleStep, procVars
<1> QED BY <1>3, <1>4, <1>5, <1>6, Sort

\* A step of shutdown by c leaves the list and the idle thread's work alone.
LEMMA ShutdownLeaves ==
  ASSUME NEW c \in Threads, shutdown(c)
  PROVE  UNCHANGED <<processes, todo, shortened, parsed, added>> /\ (ipc' = ipc \/ ipc' = "done")
BY DEF shutdown, TestShutdown, SetShutdown, FireEvent, Drain, Quit, Signals, JoinAll, ShutdownStep,
       generator, cooker, parserObj, history

LEMMA ListStep ==
  ASSUME ProcType, ThreadType, ListInv, [Next]_vars
  PROVE  ListInv'
<1>1. ASSUME UNCHANGED <<processes, todo>>, ipc' = "remove" => ipc = "remove" PROVE ListInv'
  <2>1. \A p \in Parsers : ListedIn(processes, p)' \/ ~Alive(p)'
    BY <1>1, DeadStays DEF ListInv, ListedIn
  <2>2. ipc' = "remove" => ~Alive(Head(todo))'
    <3> SUFFICES ASSUME ipc = "remove" PROVE ~Alive(Head(todo))'
      BY <1>1
    <3>1. Head(todo) \in Parsers
      BY DEF ThreadType
    <3>2. Head(todo)' = Head(todo)
      BY <1>1
    <3> QED BY <3>1, <3>2, DeadStays DEF ListInv, Alive
  <2> QED BY <2>1, <2>2 DEF ListInv
<1>2. CASE updateCache \/ AssignParsing \/ IdleReturns \/ parse_next
  BY <1>1, <1>2 DEF updateCache, AssignParsing, IdleReturns, parse_next, Ends, generator
<1>3. CASE parse_generator
  <2>1. UNCHANGED <<processes, ppc>> /\ ipc' # "remove"
    BY <1>3 DEF parse_generator, Exhausted, Ends, IdleStep, procVars
  <2> QED BY <2>1 DEF ListInv, ListedIn, Alive
<1>4. CASE Prune
  <2>1. UNCHANGED <<processes, ppc>>
    BY <1>4 DEF Prune, IdleStep, procVars
  <2>2. ipc' = "remove" => ~Alive(Head(todo)) /\ todo' = todo
    BY <1>4 DEF Prune, Exhausted, Ends
  <2> QED BY <2>1, <2>2 DEF ListInv, ListedIn, Alive
<1>5. CASE RemoveProcess
  <2>1. UNCHANGED ppc /\ ipc' = "prune" /\ ipc = "remove"
    BY <1>5 DEF RemoveProcess, IdleStep, procVars
  <2>2. PICK i \in DOMAIN processes : processes[i] = Head(todo) /\ processes' = RemoveAt(processes, i)
    BY <1>5 DEF RemoveProcess
  <2>3. \A p : ListedIn(processes, p) /\ p # Head(todo) => ListedIn(processes', p)
    BY <2>2, RemoveListed DEF ThreadType
  <2>4. ~Alive(Head(todo))
    BY <2>1 DEF ListInv
  <2>5. \A p \in Parsers : ListedIn(processes', p) \/ ~Alive(p)
    BY <2>3, <2>4 DEF ListInv
  <2> QED BY <2>1, <2>5 DEF ListInv, ListedIn, Alive
<1>6. CASE RequestShutdown
  BY <1>1, <1>6 DEF RequestShutdown, generator, parserObj
<1>7. ASSUME NEW c \in Threads, shutdown(c) PROVE ListInv'
  BY <1>1, <1>7, ShutdownLeaves
<1>8. ASSUME NEW p \in Parsers, Process(p) \/ Feeder(p) \/ Killed(p) PROVE ListInv'
  BY <1>1, <1>8, ParsersAlone DEF ParsersOnly, cooker, generator, parserObj
<1>9. CASE UNCHANGED vars
  BY <1>1, <1>9 DEF vars, cooker, generator, parserObj
<1> QED BY <1>2, <1>3, <1>4, <1>5, <1>6, <1>7, <1>8, <1>9 DEF Next, IdleThread, Threads

LEMMA JoinStep ==
  ASSUME ProcType, ThreadType, PlaceInv, JoinInv, [Next]_vars
  PROVE  JoinInv'
<1>0. \A i \in 1..Len(processes) : processes[i] \in Parsers
  BY DEF ThreadType
<1>1. ASSUME NEW c \in Threads, UNCHANGED <<processes, shortened, stage[c], at[c]>> PROVE Joined(c)'
  <2> SUFFICES ASSUME stage[c] = "join", ~shortened, NEW i \in 1..Len(processes), i < at[c]
               PROVE  ~Alive(processes[i])'
    BY <1>1 DEF Joined, Alive
  <2> QED BY <1>0, <1>1, DeadStays DEF JoinInv, Joined, Alive
<1>2. CASE UNCHANGED <<processes, shortened, calls>>
  BY <1>1, <1>2 DEF JoinInv, calls
<1>3. ASSUME EnterShutdown("idle"), UNCHANGED <<processes, shortened>> PROVE JoinInv'
  <2>1. Joined("idle")' /\ Joined("main")'
    BY <1>1, <1>3 DEF EnterShutdown, ThreadType, Threads, Joined
  <2> QED BY <2>1 DEF JoinInv, Threads
<1>4. CASE IdleThread /\ ~shutdown("idle") /\ ~RemoveProcess
  BY <1>2, <1>3, <1>4 DEF IdleThread, updateCache, AssignParsing, parse_generator, Prune, parse_next, IdleReturns,
                          Exhausted, Ends
<1>5. CASE RemoveProcess
  <2>1. Joined("idle")' /\ Joined("main")'
    BY <1>5 DEF RemoveProcess, PlaceInv, calls, Joined
  <2> QED BY <2>1 DEF JoinInv, Threads
<1>6. CASE RequestShutdown
  <2>1. UNCHANGED <<processes, shortened, at>> /\ stage' = [stage EXCEPT !["main"] = "test"]
    BY <1>6 DEF RequestShutdown, EnterShutdown, parserObj, history
  <2>2. Joined("idle")' /\ Joined("main")'
    BY <1>1, <2>1 DEF ThreadType, Threads, Joined
  <2> QED BY <2>2 DEF JoinInv, Threads
<1>7. ASSUME NEW c \in Threads, shutdown(c) PROVE JoinInv'
  <2>0. UNCHANGED <<processes, shortened>>
    BY <1>7, ShutdownLeaves
  <2>1. CASE FireEvent(c) /\ stage' = [d \in Threads |-> "back"]
    BY <2>1 DEF JoinInv, Joined
  <2>2. ASSUME \A d \in Threads : d # c => UNCHANGED <<stage[d], at[d]>>, Joined(c)' PROVE JoinInv'
    BY <2>0, <2>2, <1>1 DEF JoinInv
  <2>3. ASSUME \E to : to # "join" /\ stage' = [stage EXCEPT ![c] = to], UNCHANGED at \/ at' = [at EXCEPT ![c] = 1]
        PROVE  JoinInv'
    <3>1. stage'[c] # "join" /\ \A d \in Threads : d # c => UNCHANGED <<stage[d], at[d]>>
      BY <2>3 DEF ThreadType
    <3> QED BY <3>1, <2>2 DEF Joined
  <2>4. CASE TestShutdown(c) \/ SetShutdown(c) \/ Drain(c) \/ Quit(c) \/ (FireEvent(c) /\ Stage(c, "fire", "drain"))
    BY <2>3, <2>4 DEF TestShutdown, SetShutdown, Drain, Quit, FireEvent, Stage
  <2>5. ASSUME NEW sig \in {"INT", "TERM"}, NEW next, Signals(c, sig, next) PROVE JoinInv'
    <3>1. stage[c] = sig
      BY <2>5 DEF Signals
    <3>2. CASE at' = [at EXCEPT ![c] = 1] /\ Stage(c, sig, next)
      <4>1. at'[c] = 1 /\ \A d \in Threads : d # c => UNCHANGED <<stage[d], at[d]>>
        BY <3>2 DEF Stage, ThreadType
      <4>2. Joined(c)'
        BY <4>1, <2>0 DEF ThreadType, Joined
      <4> QED BY <4>1, <4>2, <2>2
    <3>3. CASE Stage(c, sig, "raised") /\ UNCHANGED at
      BY <2>3, <3>3 DEF Stage
    <3>4. CASE UNCHANGED stage /\ at' = [at EXCEPT ![c] = @ + 1]
      <4>1. stage'[c] # "join" /\ \A d \in Threads : d # c => UNCHANGED <<stage[d], at[d]>>
        BY <3>1, <3>4 DEF ThreadType
      <4> QED BY <4>1, <2>2 DEF Joined
    <3> QED BY <2>5, <3>2, <3>3, <3>4 DEF Signals
  <2>6. CASE JoinAll(c)
    <3>1. CASE UNCHANGED at /\ (Stage(c, "join", "back") \/ Stage(c, "join", "raised"))
      BY <2>3, <3>1 DEF Stage
    <3>2. CASE ~LoopOver(c) /\ ~Alive(Current(c)) /\ Stage(c, "join", "join") /\ at' = [at EXCEPT ![c] = @ + 1]
      <4>1. at'[c] = at[c] + 1 /\ at[c] \in Nat /\ \A d \in Threads : d # c => UNCHANGED <<stage[d], at[d]>>
        BY <3>2 DEF Stage, ThreadType
      <4>2. ppc' = ppc
        BY <2>6 DEF JoinAll, procVars
      <4>3. ASSUME ~shortened, NEW i \in 1..Len(processes), i < at[c] + 1 PROVE ~Alive(processes[i])
        <5>1. CASE i = at[c]
          BY <5>1, <3>2 DEF Current
        <5>2. CASE i < at[c]
          BY <5>2, <4>3, <2>6 DEF JoinInv, Joined, JoinAll
        <5> QED BY <4>1, <4>3, <5>1, <5>2
      <4>4. Joined(c)'
        BY <4>1, <4>2, <4>3, <2>0 DEF Alive, Joined
      <4> QED BY <4>1, <4>4, <2>2
    <3> QED BY <2>6, <3>1, <3>2 DEF JoinAll
  <2> QED BY <1>7, <2>1, <2>4, <2>5, <2>6 DEF shutdown, FireEvent
<1>8. ASSUME NEW p \in Parsers, Process(p) \/ Feeder(p) \/ Killed(p) PROVE JoinInv'
  BY <1>2, <1>8, ParsersAlone DEF ParsersOnly, parserObj
<1>9. CASE UNCHANGED vars
  BY <1>2, <1>9 DEF vars, parserObj, history
<1> QED BY <1>4, <1>5, <1>6, <1>7, <1>8, <1>9 DEF Next, IdleThread, Threads

LEMMA AfterStep ==
  ASSUME ProcType, ThreadType, PlaceInv, ListInv, JoinInv, AfterInv, [Next]_vars
  PROVE  AfterInv'
<1>0. AllDead => AllDead'
  <2> SUFFICES ASSUME AllDead, NEW p \in Parsers PROVE ~Alive(p)'
    BY DEF AllDead
  <2> QED BY DeadStays DEF AllDead
<1>1. ASSUME outcome = "exited" => outcome' = "exited", UNCHANGED <<stage, haveshutdown>>, ~shortened' => ~shortened
      PROVE  AfterInv'
  BY <1>0, <1>1 DEF AfterInv
<1>2. ASSUME NEW c \in Threads, stage[c] = "out", stage' = [stage EXCEPT ![c] = "test"], outcome # "exited",
             UNCHANGED <<haveshutdown, shortened>>
      PROVE  AfterInv'
  <2>1. stage'[c] = "test" /\ \A d \in Threads : d # c => stage'[d] = stage[d]
    BY <1>2 DEF ThreadType
  <2> QED BY <2>1, <1>0, <1>2 DEF AfterInv, Running
<1>3. ASSUME outcome # "exited", ipc \notin {"shutdown", "done"}, UNCHANGED calls \/ EnterShutdown("idle"),
             UNCHANGED <<haveshutdown, shortened>>
      PROVE  AfterInv'
  BY <1>1, <1>2, <1>3 DEF PlaceInv, EnterShutdown, calls, Threads
<1>4. CASE updateCache \/ AssignParsing \/ parse_generator \/ Prune \/ parse_next
  <2>1. ipc \notin {"shutdown", "done"} /\ UNCHANGED <<haveshutdown, shortened>>
    BY <1>4 DEF updateCache, AssignParsing, parse_generator, Prune, parse_next, IdleStep
  <2>2. UNCHANGED calls \/ EnterShutdown("idle")
    BY <1>4 DEF updateCache, AssignParsing, parse_generator, Prune, parse_next, Exhausted, Ends
  <2> QED BY <2>1, <2>2, <1>3 DEF PlaceInv
<1>5. CASE RemoveProcess
  BY <1>1, <1>5 DEF RemoveProcess, IdleStep, calls
<1>6. CASE IdleReturns
  BY <1>1, <1>6 DEF IdleReturns, IdleStep, calls, PlaceInv
<1>7. CASE RequestShutdown
  <2>1. outcome # "exited" /\ stage["main"] = "out"
    BY <1>7 DEF RequestShutdown, PlaceInv
  <2> QED BY <2>1, <1>2, <1>7 DEF RequestShutdown, EnterShutdown, Threads, parserObj, history
<1>8. ASSUME NEW c \in Threads, shutdown(c) PROVE AfterInv'
  <2>0. UNCHANGED <<processes, shortened>>
    BY <1>8, ShutdownLeaves
  <2>1. CASE TestShutdown(c)
    <3>1. /\ UNCHANGED <<outcome, haveshutdown>> /\ stage[c] = "test"
          /\ stage' = [stage EXCEPT ![c] = IF haveshutdown THEN "back" ELSE "set"]
      BY <2>1 DEF TestShutdown, Stage, ShutdownStep, cooker
    <3>2. /\ stage'[c] \in {"back", "set"} /\ (stage'[c] = "back" => haveshutdown)
          /\ \A d \in Threads : d # c => stage'[d] = stage[d]
      BY <3>1 DEF ThreadType
    <3>3. \A d \in Threads : stage[d] \in Running => stage'[d] \in Running
      BY <3>1, <3>2 DEF Running
    <3>4. \A d \in Threads : stage'[d] \in Running \cup {"back"} => stage[d] \in Running \cup {"back"} \/ haveshutdown
      BY <3>2 DEF Running
    <3> QED BY <3>1, <3>3, <3>4, <2>0, <1>0 DEF AfterInv
  <2>2. CASE SetShutdown(c)
    <3>1. UNCHANGED outcome /\ haveshutdown' = TRUE /\ stage' = [stage EXCEPT ![c] = "fire"]
      BY <2>2 DEF SetShutdown, Stage, ShutdownStep, cooker
    <3>2. stage'[c] \in Running
      BY <3>1 DEF ThreadType, Running
    <3> QED BY <3>1, <3>2 DEF AfterInv
  <2>3. ASSUME UNCHANGED <<outcome, haveshutdown>>, stage[c] \in Running,
               stage' = stage \/ \E to \in Running : stage' = [stage EXCEPT ![c] = to]
        PROVE  AfterInv'
    <3>1. stage'[c] \in Running
      BY <2>3 DEF ThreadType
    <3> QED BY <2>3, <3>1 DEF AfterInv
  <2>4. CASE FireEvent(c)
    <3>1. CASE outcome' = "exited"
      BY <3>1 DEF AfterInv
    <3> QED BY <2>3, <2>4, <3>1 DEF FireEvent, Stage, parserObj, Running
  <2>5. CASE Drain(c) \/ Quit(c)
    BY <2>3, <2>5 DEF Drain, Quit, Stage, ShutdownStep, cooker, Running
  <2>6. CASE Signals(c, "INT", "TERM") \/ Signals(c, "TERM", "join")
    <3>1. UNCHANGED <<outcome, haveshutdown>> /\ stage[c] \in Running
      BY <2>6 DEF Signals, ShutdownStep, cooker, Running
    <3>2. stage' = stage \/ \E to \in Running : stage' = [stage EXCEPT ![c] = to]
      BY <2>6 DEF Signals, Stage, Running
    <3> QED BY <3>1, <3>2, <2>3
  <2>7. CASE JoinAll(c)
    <3>1. UNCHANGED <<outcome, haveshutdown, ppc>> /\ stage[c] = "join"
      BY <2>7 DEF JoinAll, ShutdownStep, cooker, procVars
    <3>2. CASE LoopOver(c) /\ Stage(c, "join", "back")
      <4>1. ASSUME ~shortened PROVE AllDead
        <5>1. \A i \in 1..Len(processes) : ~Alive(processes[i])
          <6>1. at[c] \in Nat /\ Len(processes) \in Nat /\ at[c] > Len(processes)
            BY <3>2 DEF LoopOver, ThreadType
          <6>2. \A i \in 1..Len(processes) : i < at[c]
            BY <6>1
          <6> QED BY <6>2, <3>1, <4>1 DEF JoinInv, Joined
        <5>2. DOMAIN processes = 1..Len(processes)
          BY DEF ThreadType
        <5>3. \A p \in Parsers : ListedIn(processes, p) => ~Alive(p)
          BY <5>1, <5>2 DEF ListedIn
        <5> QED BY <5>3 DEF AllDead, ListInv
      <4>2. \A d \in Threads : stage'[d] \in Running \cup {"back"} => stage[d] \in Running \cup {"back"}
        BY <3>1, <3>2 DEF Stage, ThreadType, Running
      <4> QED BY <4>1, <4>2, <3>1, <2>0, <1>0 DEF AfterInv
    <3>3. CASE Stage(c, "join", "raised") \/ Stage(c, "join", "join")
      BY <2>3, <3>1, <3>3 DEF Stage, Running
    <3> QED BY <2>7, <3>2, <3>3 DEF JoinAll
  <2> QED BY <1>8, <2>1, <2>2, <2>4, <2>5, <2>6, <2>7 DEF shutdown
<1>9. ASSUME NEW p \in Parsers, Process(p) \/ Feeder(p) \/ Killed(p) PROVE AfterInv'
  BY <1>1, <1>9, ParsersAlone DEF ParsersOnly, cooker, parserObj, calls
<1>10. CASE UNCHANGED vars
  BY <1>1, <1>10 DEF vars, cooker, parserObj, calls, history
<1> QED BY <1>4, <1>5, <1>6, <1>7, <1>8, <1>9, <1>10 DEF Next, IdleThread, Threads

-----------------------------------------------------------------------------
(***************************************************************************)
(* The theorems.                                                           *)
(***************************************************************************)
IInv ==
  /\ Types /\ LockInv /\ SingleInv /\ CountInv
  /\ PlaceInv /\ CalmInv /\ ShutInv /\ OutcomeInv

LEMMA InitHolds == Init => IInv
<1> SUFFICES ASSUME Init PROVE IInv
  OBVIOUS
<1> USE DEF Init
<1>1. <<>> \in Seq(Results) /\ <<>> \in Seq(Parsers) /\ Jobs \in [Parsers -> SUBSET Recipes]
  BY ParserAssumption
<1>2. ProcType
  BY <1>1 DEF ProcType, Places
<1>3. ThreadType
  BY <1>1, AllListed DEF ThreadType, Stages, Threads
<1>4. HoldInv
  BY ParserAssumption DEF HoldInv, Working
<1>5. LockInv
  BY ParserAssumption DEF LockInv
<1>6. SingleInv
  <2>1. \A p \in Parsers : recipe[p] \notin jobs[p]
    BY <1>1, ParserAssumption
  <2> QED BY <2>1, EmptyHasNone DEF SingleInv
<1>7. CountInv
  BY FS_EmptySet DEF CountInv
<1>8. PlaceInv
  BY ParserAssumption DEF PlaceInv, Threads
<1>9. CalmInv
  BY DEF CalmInv, Somewhere, Open
<1>10. ShutInv
  BY AllListed, ParserAssumption DEF ShutInv, ListInv, JoinInv, Joined, AfterInv, Threads, Running
<1>11. OutcomeInv
  BY ParserAssumption DEF OutcomeInv, CompleteMeansAll, OnlyAfterKill
<1> QED BY <1>2, <1>3, <1>4, <1>5, <1>6, <1>7, <1>8, <1>9, <1>10, <1>11 DEF IInv, Types

LEMMA StepHolds == IInv /\ [Next]_vars => IInv'
<1> SUFFICES ASSUME IInv, [Next]_vars PROVE IInv'
  OBVIOUS
<1> USE DEF IInv, Types, ShutInv
<1>1. ProcType' /\ HoldInv'
  BY ProcTypeStep
<1>2. ThreadType'
  BY ThreadTypeStep
<1>3. LockInv'
  BY LockStep
<1>4. SingleInv' /\ CountInv'
  BY SingleStep, CountStep
<1>5. PlaceInv'
  BY PlaceStep
<1>6. CalmInv'
  BY CalmStep
<1>7. ListInv' /\ JoinInv' /\ AfterInv'
  BY ListStep, JoinStep, AfterStep
<1>8. OutcomeInv'
  BY OutcomeStep
<1> QED BY <1>1, <1>2, <1>3, <1>4, <1>5, <1>6, <1>7, <1>8

\* Where every recipe, every parser and both threads are is as IInv says, in every
\* reachable state.
THEOREM Invariant == Spec => []IInv
<1> QED BY InitHolds, StepHolds, PTL DEF Spec

\* "Parsing is complete" is only said when the results of all recipes are in the
\* cache: parsed, which parse_generator compares with toparse, counts recipes.
THEOREM Complete == Spec => []CompleteMeansAll
<1>1. IInv => CompleteMeansAll
  BY DEF IInv, OutcomeInv
<1> QED BY <1>1, Invariant, PTL

\* parse_generator finds results missing only after a parser has been killed or a
\* shutdown has been requested.
THEOREM Incomplete == Spec => []OnlyAfterKill
<1>1. IInv => OnlyAfterKill
  BY DEF IInv, OutcomeInv
<1> QED BY <1>1, Invariant, PTL

\* No signal that shutdown sends ends a parser with the lock of the event stream.
THEOREM LockFree == Spec => []StreamLockFree
<1>1. IInv => StreamLockFree
  BY DEF IInv, LockInv, StreamLockFree, Orphaned, Alive
<1> QED BY <1>1, Invariant, PTL

\* When the threads are back from shutdown no parser is left, unless the list of
\* processes was changed or a closed process was met on the way.
THEOREM Gone == Spec => []ParsersGone
<1>1. IInv => ParsersGone
  <2> SUFFICES ASSUME IInv, Over, outcome # "exited", ~shortened, \A c \in Threads : stage[c] # "raised"
               PROVE  AllDead
    BY DEF ParsersGone, AllDead
  <2>1. stage["idle"] = "back" /\ stage["main"] \in {"out", "back"}
    BY DEF IInv, PlaceInv, Over, Threads
  <2>2. haveshutdown /\ ~\E c \in Threads : stage[c] \in Running
    BY <2>1 DEF IInv, ShutInv, AfterInv, Threads, Running
  <2> QED BY <2>2 DEF IInv, ShutInv, AfterInv
<1> QED BY <1>1, Invariant, PTL
=============================================================================
