----------------------------- MODULE HashServer -----------------------------
(***************************************************************************)
(* The hash equivalence server (hashserv/server.py) over either of its     *)
(* databases (hashserv/sqlite.py, hashserv/sqlalchemy.py), and the builds  *)
(* that ask it (SignatureGeneratorUniHashMixIn in bb/siggen.py).           *)
(*                                                                         *)
(* A build asks which unihash stands for a taskhash, runs the task, and    *)
(* reports the hash of its output; the server answers with the unihash of  *)
(* a task that had the same output before.  All builds that share the      *)
(* server reuse each other's results on that ground.                       *)
(*                                                                         *)
(* The server is one asyncio loop.  The coroutines of sqlite.py never      *)
(* suspend, so a handler runs to its end or to its next question to the    *)
(* upstream server; those of sqlalchemy.py suspend at every transaction.   *)
(* `loop' names the client whose handler has the loop to itself.           *)
(*                                                                         *)
(* A hash stands for a (method, hash) pair: every query compares both.     *)
(* Left out: the requests that change nothing (gc-status, statistics,      *)
(* get-db-usage, exists-stream), the users and their tokens, and the       *)
(* columns of outhashes_v2 that only describe the task.                    *)
(***************************************************************************)
EXTENDS Naturals, Sequences

CONSTANTS
  Clients,    \* connections of builds
  Reporters,  \* those that may report; the others have no REPORT_PERM
  Hashes,     \* taskhashes; a unihash is one of them
  Outs,       \* output hashes
  Output,     \* the outputs a task can have
  Class,      \* what tasks are really equivalent: see ClassAssumption
  Marks,      \* names of garbage collections
  Ages,       \* the values of max_age in clean-unused
  Servers,    \* how a server may be set up and used: see ServerAssumption
  MaxNow,     \* bound: rows added to outhashes_v2
  MaxQueue,   \* bound: items in backfill_queue
  None

ASSUME NoneAssumption == None \notin Clients \cup Hashes \cup Outs \cup Marks
ASSUME ReporterAssumption == Reporters \subseteq Clients
ASSUME OutputAssumption == Output \in [Hashes -> SUBSET Outs]

\* Tasks with a common output are equivalent.  A finer Class makes Sound stronger.
ASSUME ClassAssumption ==
  \A s, t \in Hashes : Output[s] \cap Output[t] # {} => Class[s] = Class[t]
ASSUME ServerAssumption == Servers \subseteq
  [backend : {"sqlite", "sqlalchemy"},
   upstream : BOOLEAN,               \* it has an upstream server
   clients : SUBSET Clients,         \* who asks it,
   tasks : SUBSET Hashes,            \* about which tasks,
   uses : SUBSET {"get", "equiv", "gc", "clean", "remove", "restart", "forget"}]
                                     \* and what else happens to it
ASSUME BoundAssumption == MaxNow \in Nat /\ MaxQueue \in Nat /\ Ages \subseteq Nat

VARIABLES
  server,    \* one of Servers
  loop,      \* the client whose handler does not suspend, or None
  \* the database
  created,   \* outhashes_v2: when the row of a task and an output was created, or 0
  now,       \* the latest time in it
  uni,       \* unihashes_v3: the unihash of a task, or None
  mark,      \* the gc_mark of that row, or None for the empty one
  gc,        \* the gc-mark in the table config
  \* the backfill task of the server
  queue, filling, found,
  \* the upstream server
  up, upRow, \* its unihashes, and a task it knows with some output
  \* the handler of a client's request
  pc,        \* the call it makes next, or "idle"
  task, out, \* the taskhash and outhash of the request
  known,     \* the unihash the build has for task: data["unihash"]
  local,     \* unihash in the handler
  row,       \* the taskhash of the row upstream sent
  admin,     \* an administrator's request that is half done
  \* history
  said,      \* the unihashes that builds were told for a task that is in the table
  kept,      \* the rows a garbage collection has promised to keep
  meddled    \* equivalences were declared, or outputs removed, by hand

database == <<created, now, uni, mark, gc>>
backfill == <<queue, filling, found>>
remote == <<up, upRow>>
handler == <<pc, task, out, known, local, row>>
history == <<said, kept, meddled>>
vars == <<server, loop, database, backfill, remote, handler, admin, history>>

backend == server.backend
upstream == server.upstream

NoAdmin == [op |-> "none"]

Init ==
  /\ server \in Servers
  /\ loop = None
  /\ created = [t \in Hashes |-> [o \in Outs |-> 0]] /\ now = 0
  /\ uni = [t \in Hashes |-> None] /\ mark = [t \in Hashes |-> None] /\ gc = None
  /\ queue = <<>> /\ filling = None /\ found = None
  /\ up = [t \in Hashes |-> None] /\ upRow = [o \in Outs |-> None]
  /\ pc = [c \in Clients |-> "idle"]
  /\ task = [c \in Clients |-> None] /\ out = [c \in Clients |-> None]
  /\ known = [c \in Clients |-> None] /\ local = [c \in Clients |-> None]
  /\ row = [c \in Clients |-> None]
  /\ admin = NoAdmin
  /\ said = [t \in Hashes |-> {}] /\ kept = [m \in Marks |-> {}] /\ meddled = FALSE

-----------------------------------------------------------------------------
(* The loop and the database                                               *)

\* The handler of c may run.
Runs(c, p) == loop \in {None, c} /\ pc[c] = p

\* It goes on with call p, after suspending if the database's call suspends.
GoOn(c, p) ==
  /\ pc' = [pc EXCEPT ![c] = p]
  /\ loop' = IF backend = "sqlite" THEN c ELSE None

\* It waits for the upstream server.
Await(c, p) == pc' = [pc EXCEPT ![c] = p] /\ loop' = None

\* What the handler leaves behind is garbage.
Over(c) ==
  /\ Await(c, "idle")
  /\ local' = [local EXCEPT ![c] = None]
  /\ row' = [row EXCEPT ![c] = None]
  /\ out' = [out EXCEPT ![c] = None]

\* The build is told u, and uses it from now on: for what its output is, or for what
\* its task is.
Tell(c, u) == Over(c) /\ known' = [known EXCEPT ![c] = u] /\ UNCHANGED said

Answer(c, u) ==
  /\ Over(c)
  /\ known' = [known EXCEPT ![c] = u]
  /\ said' = [said EXCEPT ![task[c]] = @ \cup {u}]

\* An exception ends the connection; the build learns nothing.
Drop(c) == Over(c) /\ UNCHANGED <<known, said>>

\* Mutant: the row is inserted without a mark.
insert_unihash_NoMark(t, u) ==
  IF uni[t] = None
  THEN /\ uni' = [uni EXCEPT ![t] = u]
       /\ kept' = [m \in Marks |-> IF m = gc THEN kept[m] \cup {t} ELSE kept[m]]
       /\ UNCHANGED mark
  ELSE UNCHANGED <<uni, mark, kept>>

\* INSERT OR IGNORE INTO unihashes_v3: the row gets the mark of the current collection.
insert_unihash(t, u) ==
  IF uni[t] = None
  THEN /\ uni' = [uni EXCEPT ![t] = u]
       /\ mark' = [mark EXCEPT ![t] = gc]
       /\ kept' = [m \in Marks |-> IF m = gc THEN kept[m] \cup {t} ELSE kept[m]]
  ELSE UNCHANGED <<uni, mark, kept>>

\* INSERT OR IGNORE INTO outhashes_v2, with the time of creation
insert_outhash(t, o, at) ==
  IF created[t][o] = 0
  THEN /\ now < MaxNow
       /\ now' = now + 1
       /\ created' = [created EXCEPT ![t][o] = at]
  ELSE UNCHANGED <<created, now>>

\* Mutant: the outhash is not part of the condition.
Joined_AnyOutput(s, o) == (\E p \in Outs : created[s][p] # 0) /\ uni[s] # None

\* The join of the tables: s has output o and a unihash.
Joined(s, o) == created[s][o] # 0 /\ uni[s] # None

\* ORDER BY created ASC LIMIT 1, over the rows of the tasks in S.
Oldest(s, S, o) == s \in S /\ Joined(s, o) /\ \A r \in S : Joined(r, o) => created[s][o] <= created[r][o]

\* DELETE FROM unihashes_v3 the rows of the tasks in S.
DeleteUnihashes(S) ==
  /\ uni' = [t \in Hashes |-> IF t \in S THEN None ELSE uni[t]]
  /\ mark' = [t \in Hashes |-> IF t \in S THEN None ELSE mark[t]]
  /\ said' = [t \in Hashes |-> IF t \in S THEN {} ELSE said[t]]
  /\ kept' = [m \in Marks |-> kept[m] \ S]

\* DELETE FROM outhashes_v2 the rows in S.
DeleteOuthashes(S) == created' = [t \in Hashes |-> [o \in Outs |-> IF <<t, o>> \in S THEN 0 ELSE created[t][o]]]

-----------------------------------------------------------------------------
(* Requests of builds                                                      *)

\* handle_get_stream, for a build that begins a task (get_unihashes): without a
\* unihash it uses the taskhash.
handle_get_stream(c, t) ==
  /\ Runs(c, "idle")
  /\ task' = [task EXCEPT ![c] = t]
  /\ \/ /\ uni[t] # None
        /\ Over(c)
        /\ known' = [known EXCEPT ![c] = uni[t]]
        /\ said' = [said EXCEPT ![t] = @ \cup {uni[t]}]
     \/ /\ uni[t] = None /\ upstream
        /\ Await(c, "stream_up")
        /\ known' = [known EXCEPT ![c] = t]
        /\ UNCHANGED <<local, row, out, said>>
     \/ /\ uni[t] = None /\ ~upstream
        /\ Over(c)
        /\ known' = [known EXCEPT ![c] = t]
        /\ UNCHANGED said
  /\ UNCHANGED <<server, database, backfill, remote, admin, kept, meddled>>

\* The upstream server's answer arrives; the database gets it later.
stream_answer(c) ==
  /\ Runs(c, "stream_answer")
  /\ IF local[c] # None
     THEN Answer(c, local[c]) /\ Len(queue) < MaxQueue /\ queue' = Append(queue, task[c])
     ELSE Drop(c) /\ UNCHANGED queue
  /\ UNCHANGED <<server, database, filling, found, remote, task, admin, kept, meddled>>

\* handle_get
handle_get(c) ==
  /\ Runs(c, "idle") /\ task[c] # None
  /\ GoOn(c, "get_unihash")
  /\ UNCHANGED <<server, database, backfill, remote, task, out, known, local, row, admin, history>>

\* get_unihash, for handle_get and at the end of handle_report, which answers with
\* what was reported when there is no row.
get_unihash(c) ==
  LET t == task[c] IN
  /\ Runs(c, "get_unihash")
  /\ \/ uni[t] # None /\ Answer(c, uni[t])
     \/ /\ uni[t] = None /\ upstream
        /\ Await(c, "taskhash_up")
        /\ UNCHANGED <<task, out, known, local, row, said>>
     \/ uni[t] = None /\ ~upstream /\ out[c] # None /\ Answer(c, known[c])
     \/ uni[t] = None /\ ~upstream /\ out[c] = None /\ Drop(c)
  /\ UNCHANGED <<server, database, backfill, remote, task, admin, kept, meddled>>

\* get_unihash stores the upstream server's answer and hands it on.  It does not
\* expect None.
taskhash_answer(c) ==
  /\ Runs(c, "taskhash_answer")
  /\ IF local[c] # None
     THEN Answer(c, local[c]) /\ insert_unihash(task[c], local[c])
     ELSE Drop(c) /\ UNCHANGED <<uni, mark, kept>>
  /\ UNCHANGED <<server, created, now, gc, backfill, remote, task, admin, meddled>>

\* handle_report begins with the output.  The cursor's lastrowid is never what it
\* was before, so sqlite.py takes every row to be new.
handle_report(c, o) ==
  /\ Runs(c, "idle") /\ c \in Reporters /\ task[c] # None
  /\ out' = [out EXCEPT ![c] = o]
  /\ insert_outhash(task[c], o, now + 1)
  /\ GoOn(c, IF backend = "sqlite" \/ created[task[c]][o] = 0
             THEN "get_equivalent_for_outhash" ELSE "get_unihash")
  /\ UNCHANGED <<server, uni, mark, gc, backfill, remote, task, known, local, row, admin, history>>

\* Mutant: the reported unihash wins.
get_equivalent_for_outhash_Keep(c) ==
  /\ Runs(c, "get_equivalent_for_outhash")
  /\ local' = [local EXCEPT ![c] = known[c]]
  /\ GoOn(c, "insert_unihash")
  /\ UNCHANGED <<server, database, backfill, remote, task, out, known, row, admin, history>>

\* The unihash of the oldest other task with this output, or else the reported one,
\* unless the upstream server knows better.
get_equivalent_for_outhash(c) ==
  LET others == Hashes \ {task[c]} IN
  /\ Runs(c, "get_equivalent_for_outhash")
  /\ \/ /\ \E s \in others : Oldest(s, others, out[c]) /\ local' = [local EXCEPT ![c] = uni[s]]
        /\ GoOn(c, "insert_unihash")
     \/ /\ \A s \in others : ~Joined(s, out[c])
        /\ local' = [local EXCEPT ![c] = known[c]]
        /\ IF upstream THEN Await(c, "outhash_up") ELSE GoOn(c, "insert_unihash")
  /\ UNCHANGED <<server, database, backfill, remote, task, out, known, row, admin, history>>

\* Mutant: the answer is what was to be inserted, not what is in the table.
report_insert_unihash_NoLookup(c) ==
  /\ Runs(c, "insert_unihash")
  /\ insert_unihash(task[c], local[c])
  /\ Answer(c, local[c])
  /\ UNCHANGED <<server, created, now, gc, backfill, remote, task, admin, meddled>>

report_insert_unihash(c) ==
  /\ Runs(c, "insert_unihash")
  /\ insert_unihash(task[c], local[c])
  /\ GoOn(c, "get_unihash")
  /\ UNCHANGED <<server, created, now, gc, backfill, remote, task, out, known, local, row,
                 admin, said, meddled>>

\* report_readonly: those who may only read are told the unihash of the oldest task
\* with this output, whatever the table says of their own; without one, what they
\* reported.
report_readonly(c, o) ==
  /\ Runs(c, "idle") /\ c \notin Reporters /\ task[c] # None
  /\ \/ \E s \in Hashes : Oldest(s, Hashes, o) /\ Tell(c, uni[s])
     \/ /\ \A s \in Hashes : ~Joined(s, o)
        /\ upstream
        /\ Await(c, "row_up")
        /\ out' = [out EXCEPT ![c] = o]
        /\ UNCHANGED <<known, local, row, said>>
     \/ (\A s \in Hashes : ~Joined(s, o)) /\ ~upstream /\ Drop(c)
  /\ UNCHANGED <<server, database, backfill, remote, task, admin, kept, meddled>>

\* update_unified stores the row the upstream server sent, if any.
update_unified(c) ==
  /\ Runs(c, "update_unified")
  /\ IF row[c] # None
     THEN /\ insert_unihash(row[c], local[c])
          /\ GoOn(c, "update_outhash")
          /\ UNCHANGED <<known, local, row, out, said>>
     ELSE Drop(c) /\ UNCHANGED <<uni, mark, kept>>
  /\ UNCHANGED <<server, created, now, gc, backfill, remote, task, admin, meddled>>

\* The time of creation is the upstream server's.
update_outhash(c) ==
  /\ Runs(c, "update_outhash")
  /\ \E at \in 1..(now + 1) : insert_outhash(row[c], out[c], at)
  /\ Tell(c, local[c])
  /\ UNCHANGED <<server, uni, mark, gc, backfill, remote, task, admin, kept, meddled>>

\* handle_equivreport: a build has used the result of u for this task, whose inputs
\* turned out to be equivalent (process_possible_migrations).
handle_equivreport(c, u) ==
  /\ Runs(c, "idle") /\ c \in Reporters /\ task[c] # None /\ Class[u] = Class[task[c]]
  /\ insert_unihash(task[c], u)
  /\ local' = [local EXCEPT ![c] = u]
  /\ meddled' = TRUE
  /\ GoOn(c, "get_equivalent")
  /\ UNCHANGED <<server, created, now, gc, backfill, remote, task, out, known, row, admin, said>>

\* The build takes up the unihash it wanted, and no other.  A row that is gone again
\* is an exception.
get_equivalent(c) ==
  /\ Runs(c, "get_equivalent")
  /\ IF uni[task[c]] = local[c] THEN Answer(c, local[c]) ELSE Drop(c)
  /\ UNCHANGED <<server, database, backfill, remote, task, admin, kept, meddled>>

-----------------------------------------------------------------------------
(* The upstream server, and the task that asks it in the background        *)

\* The upstream server reads its database; its answer is on the way.
UpstreamReads(c) ==
  /\ \/ /\ pc[c] = "stream_up" \/ pc[c] = "taskhash_up"
        /\ local' = [local EXCEPT ![c] = up[task[c]]]
        /\ pc' = [pc EXCEPT ![c] = IF @ = "stream_up" THEN "stream_answer" ELSE "taskhash_answer"]
        /\ UNCHANGED row
     \/ /\ pc[c] = "outhash_up"
        /\ local' = IF upRow[out[c]] = None THEN local ELSE [local EXCEPT ![c] = up[upRow[out[c]]]]
        /\ pc' = [pc EXCEPT ![c] = "insert_unihash"]
        /\ UNCHANGED row
     \/ /\ pc[c] = "row_up"
        /\ row' = [row EXCEPT ![c] = upRow[out[c]]]
        /\ local' = IF upRow[out[c]] = None THEN local ELSE [local EXCEPT ![c] = up[upRow[out[c]]]]
        /\ pc' = [pc EXCEPT ![c] = "update_unified"]
  /\ UNCHANGED <<server, loop, database, backfill, remote, task, out, known, admin, history>>

\* The upstream server is told a unihash, by builds of its own.
UpstreamLearns(t, u) ==
  /\ upstream /\ up[t] = None /\ Class[u] = Class[t]
  /\ up' = [up EXCEPT ![t] = u]
  /\ \/ \E o \in Output[t] : upRow[o] = None /\ upRow' = [upRow EXCEPT ![o] = t]
     \/ UNCHANGED upRow
  /\ UNCHANGED <<server, loop, database, backfill, handler, admin, history>>

\* The upstream server collects garbage.
UpstreamForgets(t) ==
  /\ upstream /\ up[t] # None
  /\ up' = [up EXCEPT ![t] = None]
  /\ upRow' = [o \in Outs |-> IF upRow[o] = t THEN None ELSE upRow[o]]
  /\ UNCHANGED <<server, loop, database, backfill, handler, admin, history>>

\* The upstream server cannot be reached: _send_wrapper gives up.
UpstreamFails(c) ==
  /\ loop = None /\ pc[c] \in {"stream_up", "taskhash_up", "outhash_up", "row_up"}
  /\ Drop(c)
  /\ UNCHANGED <<server, database, backfill, remote, task, admin, kept, meddled>>

\* backfill_worker_task takes an item and asks; the answer is stored.
BackfillAsks ==
  /\ loop = None /\ filling = None /\ queue # <<>>
  /\ filling' = Head(queue) /\ queue' = Tail(queue)
  /\ found' = up[Head(queue)]
  /\ UNCHANGED <<server, loop, database, remote, handler, admin, history>>

BackfillStores ==
  /\ loop = None /\ filling # None
  /\ IF found # None THEN insert_unihash(filling, found) ELSE UNCHANGED <<uni, mark, kept>>
  /\ filling' = None /\ found' = None
  /\ UNCHANGED <<server, loop, created, now, gc, queue, remote, handler, admin, said, meddled>>

\* The server is killed, or an exception in backfill_worker_task (the upstream server
\* cannot be reached) ends asyncio.gather and with it the process; it is started
\* again.  What is committed stays.
Restart ==
  /\ loop' = None /\ admin' = NoAdmin
  /\ queue' = <<>> /\ filling' = None /\ found' = None
  /\ pc' = [c \in Clients |-> "idle"]
  /\ local' = [c \in Clients |-> None] /\ row' = [c \in Clients |-> None] /\ out' = [c \in Clients |-> None]
  /\ UNCHANGED <<server, database, remote, task, known, history>>

-----------------------------------------------------------------------------
(* Requests of administrators                                              *)

\* handle_gc_mark: the collection m begins or goes on, and keeps the rows with unihash
\* u.  Without a condition (None) it keeps none.
handle_gc_mark(m, u) ==
  LET rows == {t \in Hashes : uni[t] # None /\ uni[t] = u} IN
  /\ loop = None
  /\ gc' = m
  /\ mark' = [t \in Hashes |-> IF t \in rows THEN m ELSE mark[t]]
  /\ kept' = [kept EXCEPT ![m] = (IF gc = m THEN @ ELSE {}) \cup rows]
  /\ UNCHANGED <<server, loop, created, now, uni, backfill, remote, handler, admin, said, meddled>>

\* gc_sweep deletes what has not the current mark, and nothing when there is none.
gc_sweep ==
  /\ DeleteUnihashes(IF gc = None THEN {} ELSE {t \in Hashes : uni[t] # None /\ mark[t] # gc})
  /\ gc' = None

\* handle_gc_sweep compares the marks first, in a transaction of its own.
handle_gc_sweep(m) ==
  /\ loop = None /\ gc = m
  /\ IF backend = "sqlite"
     THEN gc_sweep /\ UNCHANGED admin
     ELSE /\ admin = NoAdmin /\ admin' = [op |-> "sweep", mark |-> m]
          /\ UNCHANGED <<uni, mark, gc, said, kept>>
  /\ UNCHANGED <<server, loop, created, now, backfill, remote, handler, meddled>>

finish_gc_sweep ==
  /\ loop = None /\ admin.op = "sweep"
  /\ gc_sweep
  /\ admin' = NoAdmin
  /\ UNCHANGED <<server, loop, created, now, backfill, remote, handler, meddled>>

\* handle_clean_unused: outputs of tasks without a unihash, created before
\* datetime.now() - timedelta(seconds=-max_age); the clock has passed the latest row.
handle_clean_unused(age) ==
  /\ loop = None
  /\ DeleteOuthashes({p \in Hashes \X Outs : created[p[1]][p[2]] <= now + age /\ uni[p[1]] = None})
  /\ UNCHANGED <<server, loop, now, uni, mark, gc, backfill, remote, handler, admin, history>>

\* handle_remove with a unihash, an outhash or a taskhash for a condition.  The last is
\* in both tables: one transaction in sqlite.py, two in sqlalchemy.py.
RemoveUnihash(u) ==
  /\ loop = None
  /\ DeleteUnihashes({t \in Hashes : uni[t] # None /\ uni[t] = u})
  /\ UNCHANGED <<server, loop, created, now, gc, backfill, remote, handler, admin, meddled>>

RemoveOuthash(o) ==
  /\ loop = None
  /\ DeleteOuthashes(Hashes \X {o})
  /\ meddled' = TRUE
  /\ UNCHANGED <<server, loop, now, uni, mark, gc, backfill, remote, handler, admin, said, kept>>

RemoveTaskhash(t) ==
  /\ loop = None
  /\ DeleteUnihashes({t})
  /\ IF backend = "sqlite"
     THEN DeleteOuthashes({t} \X Outs) /\ UNCHANGED admin
     ELSE admin = NoAdmin /\ admin' = [op |-> "remove", task |-> t] /\ UNCHANGED created
  /\ UNCHANGED <<server, loop, now, gc, backfill, remote, handler, meddled>>

finish_remove ==
  /\ loop = None /\ admin.op = "remove"
  /\ DeleteOuthashes({admin.task} \X Outs)
  /\ admin' = NoAdmin
  /\ UNCHANGED <<server, loop, now, uni, mark, gc, backfill, remote, handler, history>>

-----------------------------------------------------------------------------

Build(c) ==
  \/ \E t \in server.tasks : handle_get_stream(c, t) \/ ("equiv" \in server.uses /\ handle_equivreport(c, t))
  \/ "get" \in server.uses /\ handle_get(c)
  \/ \E o \in Outs : task[c] # None /\ o \in Output[task[c]] /\ (handle_report(c, o) \/ report_readonly(c, o))

Handler(c) ==
  \/ stream_answer(c) \/ get_unihash(c) \/ taskhash_answer(c)
  \/ get_equivalent_for_outhash(c) \/ report_insert_unihash(c) \/ get_equivalent(c)
  \/ update_unified(c) \/ update_outhash(c)

Admin ==
  \/ /\ "gc" \in server.uses
     /\ \E m \in Marks : handle_gc_sweep(m) \/ \E u \in server.tasks \cup {None} : handle_gc_mark(m, u)
  \/ /\ "clean" \in server.uses
     /\ \E age \in Ages : handle_clean_unused(age)
  \/ /\ "remove" \in server.uses
     /\ \/ \E t \in server.tasks : RemoveUnihash(t) \/ RemoveTaskhash(t)
        \/ \E o \in Outs : RemoveOuthash(o)
  \/ finish_gc_sweep \/ finish_remove

Next ==
  \/ \E c \in server.clients : Build(c) \/ Handler(c) \/ UpstreamReads(c) \/ UpstreamFails(c)
  \/ \E t, u \in server.tasks : UpstreamLearns(t, u)
  \/ "forget" \in server.uses /\ \E t \in server.tasks : UpstreamForgets(t)
  \/ BackfillAsks \/ BackfillStores
  \/ Admin
  \/ "restart" \in server.uses /\ Restart

Spec == Init /\ [][Next]_vars

-----------------------------------------------------------------------------

Places == {"idle", "stream_up", "stream_answer", "get_unihash", "taskhash_up", "taskhash_answer",
           "get_equivalent_for_outhash", "outhash_up", "insert_unihash", "row_up", "update_unified",
           "update_outhash", "get_equivalent"}

Maybe(S) == S \cup {None}

TypeOK ==
  /\ server \in Servers
  /\ loop \in Maybe(Clients)
  /\ created \in [Hashes -> [Outs -> 0..MaxNow]] /\ now \in 0..MaxNow
  /\ uni \in [Hashes -> Maybe(Hashes)] /\ mark \in [Hashes -> Maybe(Marks)] /\ gc \in Maybe(Marks)
  /\ queue \in Seq(Hashes) /\ filling \in Maybe(Hashes) /\ found \in Maybe(Hashes)
  /\ up \in [Hashes -> Maybe(Hashes)] /\ upRow \in [Outs -> Maybe(Hashes)]
  /\ pc \in [Clients -> Places]
  /\ task \in [Clients -> Maybe(Hashes)] /\ out \in [Clients -> Maybe(Outs)]
  /\ known \in [Clients -> Maybe(Hashes)] /\ local \in [Clients -> Maybe(Hashes)]
  /\ row \in [Clients -> Maybe(Hashes)]
  /\ admin \in {NoAdmin} \cup [op : {"sweep"}, mark : Marks] \cup [op : {"remove"}, task : Hashes]
  /\ said \in [Hashes -> SUBSET Hashes] /\ kept \in [Marks -> SUBSET Hashes] /\ meddled \in BOOLEAN

\* No build is ever sent to the result of a task that is not equivalent to its own:
\* whatever is stored, reported late, filled in from upstream, swept away and reported
\* again, a unihash belongs to the class of its task (handle_report, get_outhash,
\* backfill_worker_task).
Sound ==
  /\ \A t \in Hashes : uni[t] # None => Class[uni[t]] = Class[t]
  /\ \A c \in Clients : task[c] # None => known[c] # None /\ Class[known[c]] = Class[task[c]]

\* Over sqlite, without an upstream server, all builds are told the same unihash for a
\* task as long as its row is there, and it is the one of the row (the lookup at the end
\* of handle_report).
AnswersAgree ==
  backend = "sqlite" /\ ~upstream => \A t \in Hashes : said[t] \subseteq {uni[t]}

\* Tasks that always have the same one output share a unihash, unless someone declared
\* otherwise (get_equivalent_for_outhash).
Shared == \A s, t \in Hashes :
  uni[s] # None /\ uni[t] # None /\ (\E o \in Outs : Output[s] = {o} /\ Output[t] = {o})
    => uni[s] = uni[t]

\* Over sqlite, without an upstream server, equal outputs share a unihash.
OutputsShare == backend = "sqlite" /\ ~upstream /\ ~meddled => Shared

\* The sweep of the collection m.
Swept(m) ==
  /\ gc' = None
  /\ \/ gc = m /\ backend = "sqlite"
     \/ admin # NoAdmin /\ admin' = NoAdmin /\ admin.op = "sweep" /\ admin.mark = m

\* A sweep keeps what the collection it finishes has promised to keep: the rows that
\* gc-mark matched, and those that were added since.
Keeps == \A m \in Marks : Swept(m) => \A t \in kept[m] : uni'[t] # None

\* This holds over sqlite, where handle_gc_sweep does not suspend.
GCKeeps == [][backend = "sqlite" => Keeps]_vars

=============================================================================
