-------------------------- MODULE HashServerProofs --------------------------
(***************************************************************************)
(* What HashServer promises, for any number of clients, tasks, outputs and *)
(* collections.  The argument has four layers.                             *)
(*                                                                         *)
(* HandlerInv says what a handler holds at each of its calls: TypeOK is    *)
(* not inductive without it.  ClassInv follows a unihash wherever it is    *)
(* kept: in the database, in a handler, in the backfill task and upstream. *)
(* AloneInv says that over sqlite, without an upstream server, at most one *)
(* handler is under way.  On it rest AnswersAgree and, with ShareInv,      *)
(* OutputsShare.  GCInv says that what a collection keeps is marked.       *)
(***************************************************************************)
EXTENDS HashServer, TLAPS

\* What the handler of a request holds at each of its calls
HandlerInv ==
  /\ \A c \in Clients :
       /\ pc[c] = "idle" => out[c] = None /\ local[c] = None /\ row[c] = None
       /\ pc[c] # "idle" => task[c] # None
       /\ task[c] # None => known[c] # None
       /\ pc[c] \in {"outhash_up", "insert_unihash", "get_equivalent", "update_outhash"} => local[c] # None
       /\ pc[c] \in {"get_equivalent_for_outhash", "outhash_up", "insert_unihash", "row_up",
                     "update_unified", "update_outhash"} => out[c] # None
       /\ pc[c] = "update_unified" /\ row[c] # None => local[c] # None
       /\ pc[c] = "update_outhash" => row[c] # None
  /\ \A o \in Outs : upRow[o] # None => up[upRow[o]] # None
  /\ filling = None => found = None

\* A unihash in the database, or the upstream server's, is of the class of its task,
\* and an output is one its task can have.
DbClass ==
  /\ \A t \in Hashes : uni[t] # None => Class[uni[t]] = Class[t]
  /\ \A t \in Hashes, o \in Outs : created[t][o] # 0 => o \in Output[t]

UpClass ==
  /\ \A t \in Hashes : up[t] # None => Class[up[t]] = Class[t]
  /\ \A o \in Outs : upRow[o] # None => o \in Output[upRow[o]]
  /\ found # None => Class[found] = Class[filling]

\* So is what a build has, and what a handler holds for it.
BuildClass ==
  \A c \in Clients :
    /\ task[c] # None => Class[known[c]] = Class[task[c]]
    /\ out[c] # None => out[c] \in Output[task[c]]
    /\ local[c] # None => Class[local[c]] = Class[task[c]]
    /\ pc[c] \in {"update_unified", "update_outhash"} /\ row[c] # None => out[c] \in Output[row[c]]

ClassInv == DbClass /\ UpClass /\ BuildClass

\* Over sqlite, without an upstream server, a request is handled in one go.
Alone == backend = "sqlite" /\ ~upstream

AloneInv ==
  Alone =>
    /\ queue = <<>> /\ filling = None
    /\ \A c \in Clients :
         /\ pc[c] # "idle" => loop = c
         /\ pc[c] \in {"idle", "get_equivalent_for_outhash", "insert_unihash", "get_unihash", "get_equivalent"}
         /\ pc[c] = "get_unihash" /\ out[c] # None => uni[task[c]] # None

\* A task that can have the only output of another task always has that output too.
\* OutputsShare needs it: a task with outputs x and y whose row was made again after its
\* output y is found by its older output x, and its unihash then divides those of the
\* tasks that only have x.
Deterministic == \A s, t \in Hashes, o \in Outs : Output[s] = {o} /\ o \in Output[t] => Output[t] = {o}

ShareInv ==
  Alone /\ ~meddled =>
    /\ \A t \in Hashes, o \in Outs : uni[t] # None /\ Output[t] = {o} => created[t][o] # 0
    /\ \A c \in Clients : pc[c] \in {"get_equivalent_for_outhash", "insert_unihash"} =>
         created[task[c]][out[c]] # 0
    /\ \A c \in Clients : pc[c] = "insert_unihash" /\ Output[task[c]] = {out[c]} =>
         \A s \in Hashes \ {task[c]} : Joined(s, out[c]) => uni[s] = local[c]

\* What a collection over sqlite has promised to keep is there, and marked.
GCInv ==
  /\ backend = "sqlite" => admin = NoAdmin
  /\ \A m \in Marks : \A t \in kept[m] : uni[t] # None /\ (gc = m => mark[t] = m)

-----------------------------------------------------------------------------
(* Types *)

\* What a step may be
LEMMA NextCases ==
  ASSUME TypeOK, Next
  PROVE  \/ \E c \in Clients, t \in Hashes : handle_get_stream(c, t) \/ handle_equivreport(c, t)
         \/ \E c \in Clients, o \in Outs :
              /\ task[c] # None /\ o \in Output[task[c]]
              /\ handle_report(c, o) \/ report_readonly(c, o)
         \/ \E c \in Clients : handle_get(c) \/ Handler(c) \/ UpstreamReads(c) \/ UpstreamFails(c)
         \/ \E t, u \in Hashes : UpstreamLearns(t, u)
         \/ \E t \in Hashes : UpstreamForgets(t) \/ RemoveUnihash(t) \/ RemoveTaskhash(t)
         \/ BackfillAsks \/ BackfillStores
         \/ \E m \in Marks : handle_gc_sweep(m) \/ \E u \in Maybe(Hashes) : handle_gc_mark(m, u)
         \/ \E age \in Ages : handle_clean_unused(age)
         \/ \E o \in Outs : RemoveOuthash(o)
         \/ finish_gc_sweep \/ finish_remove \/ Restart
<1>1. server.clients \subseteq Clients /\ server.tasks \subseteq Hashes
  BY ServerAssumption DEF TypeOK
<1>2. CASE \E c \in server.clients : Build(c) \/ Handler(c) \/ UpstreamReads(c) \/ UpstreamFails(c)
  BY <1>1, <1>2 DEF Build
<1>3. CASE \E t, u \in server.tasks : UpstreamLearns(t, u)
  BY <1>1, <1>3
<1>4. CASE \E t \in server.tasks : UpstreamForgets(t)
  BY <1>1, <1>4
<1>5. CASE Admin
  BY <1>1, <1>5 DEF Admin, Maybe
<1> QED BY <1>2, <1>3, <1>4, <1>5 DEF Next

LEMMA InitType == Init => TypeOK
<1> SUFFICES ASSUME Init PROVE TypeOK
  OBVIOUS
<1>1. 0 \in 0..MaxNow
  BY BoundAssumption
<1>2. /\ server \in Servers /\ loop \in Maybe(Clients) /\ gc \in Maybe(Marks)
      /\ filling \in Maybe(Hashes) /\ found \in Maybe(Hashes) /\ queue \in Seq(Hashes)
      /\ admin = NoAdmin
  BY DEF Init, Maybe
<1>3. created \in [Hashes -> [Outs -> 0..MaxNow]] /\ now \in 0..MaxNow
  BY <1>1 DEF Init
<1>4. /\ uni \in [Hashes -> Maybe(Hashes)] /\ mark \in [Hashes -> Maybe(Marks)]
      /\ up \in [Hashes -> Maybe(Hashes)] /\ upRow \in [Outs -> Maybe(Hashes)]
  BY DEF Init, Maybe
<1>5. /\ pc \in [Clients -> Places] /\ task \in [Clients -> Maybe(Hashes)] /\ out \in [Clients -> Maybe(Outs)]
      /\ known \in [Clients -> Maybe(Hashes)] /\ local \in [Clients -> Maybe(Hashes)]
      /\ row \in [Clients -> Maybe(Hashes)]
  BY DEF Init, Maybe, Places
<1>6. said \in [Hashes -> SUBSET Hashes] /\ kept \in [Marks -> SUBSET Hashes]
  BY DEF Init
<1>7. meddled \in BOOLEAN
  BY Zenon DEF Init
<1> QED BY <1>2, <1>3, <1>4, <1>5, <1>6, <1>7, Zenon DEF TypeOK

LEMMA InsertType ==
  ASSUME TypeOK, NEW t \in Hashes, NEW u \in Maybe(Hashes), insert_unihash(t, u)
  PROVE  /\ uni' \in [Hashes -> Maybe(Hashes)] /\ mark' \in [Hashes -> Maybe(Marks)]
         /\ kept' \in [Marks -> SUBSET Hashes]
<1>1. CASE uni[t] = None
  <2>1. /\ uni' = [uni EXCEPT ![t] = u] /\ mark' = [mark EXCEPT ![t] = gc]
        /\ kept' = [m \in Marks |-> IF m = gc THEN kept[m] \cup {t} ELSE kept[m]]
    BY <1>1 DEF insert_unihash
  <2> QED BY <2>1 DEF TypeOK
<1> QED BY <1>1 DEF TypeOK, insert_unihash

LEMMA OuthashType ==
  ASSUME TypeOK, NEW t \in Hashes, NEW o \in Outs, NEW at \in 1..(now + 1), insert_outhash(t, o, at)
  PROVE  created' \in [Hashes -> [Outs -> 0..MaxNow]] /\ now' \in 0..MaxNow
<1>1. CASE created[t][o] = 0
  <2>1. at \in 0..MaxNow /\ now + 1 \in 0..MaxNow /\ now' = now + 1
    BY <1>1, BoundAssumption DEF TypeOK, insert_outhash
  <2>2. created' = [created EXCEPT ![t][o] = at]
    BY <1>1 DEF insert_outhash
  <2> QED BY <2>1, <2>2 DEF TypeOK
<1> QED BY <1>1 DEF TypeOK, insert_outhash

LEMMA DeleteType ==
  ASSUME TypeOK, NEW S \in SUBSET Hashes, DeleteUnihashes(S)
  PROVE  /\ uni' \in [Hashes -> Maybe(Hashes)] /\ mark' \in [Hashes -> Maybe(Marks)]
         /\ said' \in [Hashes -> SUBSET Hashes] /\ kept' \in [Marks -> SUBSET Hashes]
BY DEF TypeOK, DeleteUnihashes, Maybe

LEMMA DeleteOutType ==
  ASSUME TypeOK, NEW S, DeleteOuthashes(S)
  PROVE  created' \in [Hashes -> [Outs -> 0..MaxNow]]
<1>1. 0 \in 0..MaxNow
  BY BoundAssumption
<1> QED BY <1>1 DEF TypeOK, DeleteOuthashes

LEMMA GoOnType ==
  ASSUME TypeOK, NEW c \in Clients, NEW p \in Places, GoOn(c, p) \/ Await(c, p)
  PROVE  pc' \in [Clients -> Places] /\ loop' \in Maybe(Clients)
<1>1. pc' = [pc EXCEPT ![c] = p] /\ loop' \in {c, None}
  BY DEF GoOn, Await
<1> QED BY <1>1 DEF TypeOK, Maybe

LEMMA OverType ==
  ASSUME TypeOK, NEW c \in Clients, Over(c)
  PROVE  /\ pc' \in [Clients -> Places] /\ loop' \in Maybe(Clients)
         /\ local' \in [Clients -> Maybe(Hashes)] /\ row' \in [Clients -> Maybe(Hashes)]
         /\ out' \in [Clients -> Maybe(Outs)]
BY DEF TypeOK, Over, Await, Maybe, Places

LEMMA AnswerType ==
  ASSUME TypeOK, NEW c \in Clients, task[c] \in Hashes,
         NEW u \in Hashes, Answer(c, u) \/ Tell(c, u) \/ Drop(c)
  PROVE  /\ known' \in [Clients -> Maybe(Hashes)]
         /\ said' \in [Hashes -> SUBSET Hashes]
<1>1. known' = known \/ known' = [known EXCEPT ![c] = u]
  BY DEF Answer, Tell, Drop
<1>2. said' = said \/ said' = [said EXCEPT ![task[c]] = @ \cup {u}]
  BY DEF Answer, Tell, Drop
<1>3. known \in [Clients -> Maybe(Hashes)] /\ said \in [Hashes -> SUBSET Hashes]
  BY DEF TypeOK
<1>4. known' \in [Clients -> Maybe(Hashes)]
  BY <1>1, <1>3 DEF Maybe
<1>5. said' \in [Hashes -> SUBSET Hashes]
  BY <1>2, <1>3
<1> QED BY <1>4, <1>5

LEMMA NextType == TypeOK /\ HandlerInv /\ [Next]_vars => TypeOK'
<1> SUFFICES ASSUME TypeOK, HandlerInv, [Next]_vars PROVE TypeOK'
  OBVIOUS
<1> USE NoneAssumption
<1>0. \A c \in Clients :
        /\ task[c] # None => task[c] \in Hashes /\ known[c] \in Hashes
        /\ local[c] # None => local[c] \in Hashes
        /\ row[c] # None => row[c] \in Hashes
        /\ out[c] # None => out[c] \in Outs
  BY DEF TypeOK, HandlerInv, Maybe
<1>1. ASSUME NEW c \in Clients, NEW t \in Hashes, handle_get_stream(c, t) PROVE TypeOK'
  <2>1. task' \in [Clients -> Maybe(Hashes)]
    BY <1>1 DEF handle_get_stream, TypeOK, Maybe
  <2>2. "stream_up" \in Places
    BY DEF Places
  <2>3. CASE uni[t] # None
    <3>1. /\ Over(c) /\ known' = [known EXCEPT ![c] = uni[t]]
          /\ said' = [said EXCEPT ![t] = @ \cup {uni[t]}]
      BY <1>1, <2>3 DEF handle_get_stream
    <3>2. uni[t] \in Hashes
      BY <2>3 DEF TypeOK, Maybe
    <3>3. known' \in [Clients -> Maybe(Hashes)]
      BY <3>1, <3>2 DEF TypeOK, Maybe
    <3>4. said' \in [Hashes -> SUBSET Hashes]
      <4>1. said \in [Hashes -> SUBSET Hashes]
        BY DEF TypeOK
      <4> QED BY <3>1, <3>2, <4>1
    <3> QED BY <1>1, <2>1, <3>1, <3>3, <3>4, OverType DEF handle_get_stream, TypeOK, database, backfill, remote
  <2>4. CASE uni[t] = None
    <3>1. known' \in [Clients -> Maybe(Hashes)] /\ said' = said
      <4>1. known' = [known EXCEPT ![c] = t] /\ said' = said
        BY <1>1, <2>4 DEF handle_get_stream
      <4> QED BY <4>1 DEF TypeOK, Maybe
    <3>2. Over(c) \/ (Await(c, "stream_up") /\ UNCHANGED <<local, row, out>>)
      BY <1>1, <2>4 DEF handle_get_stream
    <3> QED BY <1>1, <2>1, <2>2, <3>1, <3>2, OverType, GoOnType DEF handle_get_stream, TypeOK, database, backfill, remote
  <2> QED BY <2>3, <2>4
<1>2. ASSUME NEW c \in Clients, NEW u \in Hashes, handle_equivreport(c, u) PROVE TypeOK'
  <2>1. "get_equivalent" \in Places /\ task[c] \in Hashes /\ u \in Maybe(Hashes)
    BY <1>0, <1>2 DEF Places, handle_equivreport, Maybe
  <2>2. local' \in [Clients -> Maybe(Hashes)] /\ meddled' \in BOOLEAN
    BY <1>2, <2>1 DEF handle_equivreport, TypeOK
  <2> QED BY <1>2, <2>1, <2>2, InsertType, GoOnType DEF handle_equivreport, TypeOK, backfill, remote
<1>3. ASSUME NEW c \in Clients, NEW o \in Outs, task[c] # None, handle_report(c, o) PROVE TypeOK'
  <2>1. "get_equivalent_for_outhash" \in Places /\ "get_unihash" \in Places /\ task[c] \in Hashes
    BY <1>0, <1>3 DEF Places
  <2>2. out' \in [Clients -> Maybe(Outs)]
    BY <1>3 DEF handle_report, TypeOK, Maybe
  <2>3. now + 1 \in 1..(now + 1)
    BY BoundAssumption DEF TypeOK
  <2>4. created' \in [Hashes -> [Outs -> 0..MaxNow]] /\ now' \in 0..MaxNow
    BY <1>3, <2>1, <2>3, OuthashType DEF handle_report
  <2>5. pc' \in [Clients -> Places] /\ loop' \in Maybe(Clients)
    BY <1>3, <2>1, GoOnType DEF handle_report
  <2> QED BY <1>3, <2>2, <2>4, <2>5 DEF handle_report, TypeOK, backfill, remote, history
<1>4. ASSUME NEW c \in Clients, NEW o \in Outs, task[c] # None, report_readonly(c, o) PROVE TypeOK'
  <2>1. "row_up" \in Places /\ task[c] \in Hashes
    BY <1>0, <1>4 DEF Places
  <2>2. CASE \E s \in Hashes : Oldest(s, Hashes, o) /\ Tell(c, uni[s])
    <3>1. PICK s \in Hashes : Oldest(s, Hashes, o) /\ Tell(c, uni[s])
      BY <2>2
    <3>2. uni[s] \in Hashes
      BY <3>1 DEF Oldest, Joined, TypeOK, Maybe
    <3> QED BY <1>4, <2>1, <3>1, <3>2, OverType, AnswerType
            DEF report_readonly, Tell, TypeOK, database, backfill, remote
  <2>3. CASE Await(c, "row_up") /\ out' = [out EXCEPT ![c] = o] /\ UNCHANGED <<known, local, row, said>>
    <3>1. out' \in [Clients -> Maybe(Outs)]
      BY <2>3 DEF TypeOK, Maybe
    <3> QED BY <1>4, <2>1, <2>3, <3>1, GoOnType DEF report_readonly, TypeOK, database, backfill, remote
  <2>4. CASE Drop(c)
    BY <1>4, <2>4, OverType DEF report_readonly, Drop, TypeOK, database, backfill, remote
  <2> QED BY <1>4, <2>2, <2>3, <2>4 DEF report_readonly
<1>5. ASSUME NEW c \in Clients, handle_get(c) PROVE TypeOK'
  <2>1. "get_unihash" \in Places
    BY DEF Places
  <2> QED BY <1>5, <2>1, GoOnType DEF handle_get, TypeOK, database, backfill, remote, history
<1>6. ASSUME NEW c \in Clients, stream_answer(c) PROVE TypeOK'
  <2>1. pc[c] # "idle" /\ task[c] \in Hashes
    BY <1>0, <1>6 DEF stream_answer, Runs, HandlerInv
  <2>2. /\ queue' \in Seq(Hashes)
        /\ known' \in [Clients -> Maybe(Hashes)] /\ said' \in [Hashes -> SUBSET Hashes] /\ Over(c)
    <3>1. CASE local[c] # None
      <4>1. local[c] \in Hashes /\ Answer(c, local[c]) /\ queue' = Append(queue, task[c])
        BY <1>0, <1>6, <3>1 DEF stream_answer
      <4>2. queue' \in Seq(Hashes)
        BY <2>1, <4>1 DEF TypeOK
      <4> QED BY <2>1, <4>1, <4>2, AnswerType DEF Answer
    <3>2. CASE local[c] = None
      BY <1>6, <3>2 DEF stream_answer, Drop, TypeOK
    <3> QED BY <3>1, <3>2
  <2> QED BY <1>6, <2>2, OverType DEF stream_answer, TypeOK, database, remote
<1>7. ASSUME NEW c \in Clients, get_unihash(c) PROVE TypeOK'
  <2>1. task[c] \in Hashes /\ known[c] \in Hashes /\ "taskhash_up" \in Places
    BY <1>0, <1>7 DEF get_unihash, Runs, HandlerInv, Places
  <2>2. CASE \E u \in Hashes : Answer(c, u) \/ Drop(c)
    BY <1>7, <2>1, <2>2, OverType, AnswerType
       DEF get_unihash, Answer, Drop, TypeOK, database, backfill, remote
  <2>3. CASE Await(c, "taskhash_up") /\ UNCHANGED <<task, out, known, local, row, said>>
    BY <1>7, <2>1, <2>3, GoOnType DEF get_unihash, TypeOK, database, backfill, remote
  <2>4. uni[task[c]] \in Maybe(Hashes)
    BY <2>1 DEF TypeOK
  <2> QED BY <1>7, <2>1, <2>2, <2>3, <2>4 DEF get_unihash, Maybe
<1>8. ASSUME NEW c \in Clients, taskhash_answer(c) PROVE TypeOK'
  <2>1. task[c] \in Hashes
    BY <1>0, <1>8 DEF taskhash_answer, Runs, HandlerInv
  <2>2. CASE local[c] # None
    <3>1. local[c] \in Hashes /\ local[c] \in Maybe(Hashes)
      BY <1>0, <2>2 DEF Maybe
    <3>2. Answer(c, local[c]) /\ insert_unihash(task[c], local[c])
      BY <1>8, <2>2 DEF taskhash_answer
    <3> QED BY <1>8, <2>1, <3>1, <3>2, OverType, AnswerType, InsertType
            DEF taskhash_answer, Answer, TypeOK, backfill, remote
  <2>3. CASE local[c] = None
    BY <1>8, <2>3, OverType DEF taskhash_answer, Drop, TypeOK, backfill, remote
  <2> QED BY <2>2, <2>3
<1>9. ASSUME NEW c \in Clients, get_equivalent_for_outhash(c) PROVE TypeOK'
  <2>1. task[c] \in Hashes /\ known[c] \in Hashes /\ "insert_unihash" \in Places /\ "outhash_up" \in Places
    BY <1>0, <1>9 DEF get_equivalent_for_outhash, Runs, HandlerInv, Places
  <2>2. \E u \in Maybe(Hashes) : local' = [local EXCEPT ![c] = u]
    BY <1>9, <2>1 DEF get_equivalent_for_outhash, Oldest, TypeOK, Maybe
  <2>3. local' \in [Clients -> Maybe(Hashes)]
    BY <2>2 DEF TypeOK
  <2>4. \E q \in Places : GoOn(c, q) \/ Await(c, q)
    BY <1>9, <2>1 DEF get_equivalent_for_outhash
  <2> QED BY <1>9, <2>3, <2>4, GoOnType
          DEF get_equivalent_for_outhash, TypeOK, database, backfill, remote, history
<1>10. ASSUME NEW c \in Clients, report_insert_unihash(c) PROVE TypeOK'
  <2>1. task[c] \in Hashes /\ local[c] \in Maybe(Hashes) /\ "get_unihash" \in Places
    BY <1>0, <1>10 DEF report_insert_unihash, Runs, HandlerInv, Places, TypeOK
  <2> QED BY <1>10, <2>1, GoOnType, InsertType DEF report_insert_unihash, TypeOK, backfill, remote
<1>11. ASSUME NEW c \in Clients, get_equivalent(c) PROVE TypeOK'
  <2>1. task[c] \in Hashes /\ local[c] \in Hashes
    BY <1>0, <1>11 DEF get_equivalent, Runs, HandlerInv
  <2> QED BY <1>11, <2>1, OverType, AnswerType
          DEF get_equivalent, Answer, Drop, TypeOK, database, backfill, remote
<1>12. ASSUME NEW c \in Clients, update_unified(c) PROVE TypeOK'
  <2>1. CASE row[c] # None
    <3>1. row[c] \in Hashes /\ local[c] \in Maybe(Hashes) /\ "update_outhash" \in Places
      BY <1>0, <2>1 DEF TypeOK, Places
    <3> QED BY <1>12, <2>1, <3>1, GoOnType, InsertType DEF update_unified, TypeOK, backfill, remote
  <2>2. CASE row[c] = None
    BY <1>12, <2>2, OverType DEF update_unified, Drop, TypeOK, backfill, remote
  <2> QED BY <2>1, <2>2
<1>13. ASSUME NEW c \in Clients, update_outhash(c) PROVE TypeOK'
  <2>1. /\ row[c] \in Hashes /\ local[c] \in Hashes /\ out[c] \in Outs /\ task[c] \in Hashes
        /\ Tell(c, local[c])
    BY <1>0, <1>13 DEF update_outhash, Runs, HandlerInv
  <2>2. created' \in [Hashes -> [Outs -> 0..MaxNow]] /\ now' \in 0..MaxNow
    BY <1>13, <2>1, OuthashType DEF update_outhash
  <2> QED BY <1>13, <2>1, <2>2, OverType, AnswerType DEF update_outhash, Tell, TypeOK, backfill, remote
<1>14. ASSUME NEW c \in Clients, UpstreamReads(c) PROVE TypeOK'
  <2>1. CASE pc[c] = "stream_up" \/ pc[c] = "taskhash_up"
    <3>1. task[c] \in Hashes
      BY <1>0, <2>1 DEF HandlerInv
    <3>2. /\ local' = [local EXCEPT ![c] = up[task[c]]] /\ row' = row
          /\ \E q \in Places : pc' = [pc EXCEPT ![c] = q]
      BY <1>14, <2>1 DEF UpstreamReads, Places
    <3>3. local' \in [Clients -> Maybe(Hashes)] /\ pc' \in [Clients -> Places]
      BY <3>1, <3>2 DEF TypeOK
    <3> QED BY <1>14, <3>2, <3>3 DEF UpstreamReads, TypeOK, database, backfill, remote, history
  <2>2. CASE pc[c] = "outhash_up" \/ pc[c] = "row_up"
    <3>1. out[c] \in Outs /\ upRow[out[c]] \in Maybe(Hashes)
      BY <1>0, <2>2 DEF HandlerInv, TypeOK
    <3>2. upRow[out[c]] # None => up[upRow[out[c]]] \in Maybe(Hashes)
      BY <3>1 DEF TypeOK, Maybe
    <3>3. /\ \E q \in Places : pc' = [pc EXCEPT ![c] = q]
          /\ row' = row \/ row' = [row EXCEPT ![c] = upRow[out[c]]]
          /\ local' = local \/ (upRow[out[c]] # None /\ local' = [local EXCEPT ![c] = up[upRow[out[c]]]])
      BY <1>14, <2>2 DEF UpstreamReads, Places
    <3>4. /\ local' \in [Clients -> Maybe(Hashes)] /\ row' \in [Clients -> Maybe(Hashes)]
          /\ pc' \in [Clients -> Places]
      <4>1. /\ local \in [Clients -> Maybe(Hashes)] /\ row \in [Clients -> Maybe(Hashes)]
            /\ pc \in [Clients -> Places]
        BY DEF TypeOK
      <4> QED BY <3>1, <3>2, <3>3, <4>1
    <3> QED BY <1>14, <3>4 DEF UpstreamReads, TypeOK, database, backfill, remote, history
  <2> QED BY <1>14, <2>1, <2>2 DEF UpstreamReads
<1>15. ASSUME NEW c \in Clients, UpstreamFails(c) PROVE TypeOK'
  BY <1>15, OverType DEF UpstreamFails, Drop, TypeOK, database, backfill, remote
<1>16. ASSUME NEW t \in Hashes, NEW u \in Hashes, UpstreamLearns(t, u) PROVE TypeOK'
  <2>1. up' \in [Hashes -> Maybe(Hashes)] /\ upRow' \in [Outs -> Maybe(Hashes)]
    <3>1. up \in [Hashes -> Maybe(Hashes)] /\ upRow \in [Outs -> Maybe(Hashes)]
      BY DEF TypeOK
    <3>2. u \in Maybe(Hashes) /\ t \in Maybe(Hashes)
      BY DEF Maybe
    <3>3. up' = [up EXCEPT ![t] = u] /\ (upRow' = upRow \/ \E o \in Outs : upRow' = [upRow EXCEPT ![o] = t])
      BY <1>16, OutputAssumption DEF UpstreamLearns
    <3> QED BY <3>1, <3>2, <3>3
  <2> QED BY <1>16, <2>1 DEF UpstreamLearns, TypeOK, database, backfill, handler, history
<1>17. ASSUME NEW t \in Hashes, UpstreamForgets(t) PROVE TypeOK'
  <2>1. up' \in [Hashes -> Maybe(Hashes)] /\ upRow' \in [Outs -> Maybe(Hashes)]
    BY <1>17 DEF UpstreamForgets, TypeOK, Maybe
  <2> QED BY <1>17, <2>1 DEF UpstreamForgets, TypeOK, database, backfill, handler, history
<1>18. CASE BackfillAsks
  <2>1. Head(queue) \in Hashes /\ Tail(queue) \in Seq(Hashes)
    BY <1>18 DEF BackfillAsks, TypeOK
  <2>2. up[Head(queue)] \in Maybe(Hashes)
    BY <2>1 DEF TypeOK
  <2> QED BY <1>18, <2>1, <2>2 DEF BackfillAsks, TypeOK, Maybe, database, remote, handler, history
<1>19. CASE BackfillStores
  <2>1. filling \in Hashes /\ found \in Maybe(Hashes)
    BY <1>19 DEF BackfillStores, TypeOK, Maybe
  <2>2. /\ uni' \in [Hashes -> Maybe(Hashes)] /\ mark' \in [Hashes -> Maybe(Marks)]
        /\ kept' \in [Marks -> SUBSET Hashes]
    BY <1>19, <2>1, InsertType DEF BackfillStores, TypeOK
  <2>3. filling' \in Maybe(Hashes) /\ found' \in Maybe(Hashes)
    BY <1>19 DEF BackfillStores, Maybe
  <2> QED BY <1>19, <2>2, <2>3 DEF BackfillStores, TypeOK, remote, handler
<1>20. ASSUME NEW m \in Marks, handle_gc_sweep(m) PROVE TypeOK'
  <2>1. CASE backend = "sqlite"
    <3>1. gc_sweep /\ admin' = admin
      BY <1>20, <2>1 DEF handle_gc_sweep
    <3>2. PICK S \in SUBSET Hashes : DeleteUnihashes(S)
      BY <3>1 DEF gc_sweep
    <3>3. gc' \in Maybe(Marks)
      BY <3>1 DEF gc_sweep, Maybe
    <3> QED BY <1>20, <3>1, <3>2, <3>3, DeleteType DEF handle_gc_sweep, TypeOK, backfill, remote, handler
  <2>2. CASE backend # "sqlite"
    <3>1. admin' = [op |-> "sweep", mark |-> m] /\ UNCHANGED <<uni, mark, gc, said, kept>>
      BY <1>20, <2>2 DEF handle_gc_sweep
    <3>2. admin' \in [op : {"sweep"}, mark : Marks]
      BY <3>1
    <3> QED BY <1>20, <3>1, <3>2 DEF handle_gc_sweep, TypeOK, backfill, remote, handler
  <2> QED BY <2>1, <2>2
<1>21. ASSUME NEW m \in Marks, NEW u \in Maybe(Hashes), handle_gc_mark(m, u) PROVE TypeOK'
  <2> DEFINE rows == {t \in Hashes : uni[t] # None /\ uni[t] = u}
  <2>1. /\ gc' = m /\ mark' = [t \in Hashes |-> IF t \in rows THEN m ELSE mark[t]]
        /\ kept' = [kept EXCEPT ![m] = (IF gc = m THEN @ ELSE {}) \cup rows]
    BY <1>21 DEF handle_gc_mark
  <2>2. mark' \in [Hashes -> Maybe(Marks)] /\ gc' \in Maybe(Marks)
    BY <2>1 DEF TypeOK, Maybe
  <2>3. kept' \in [Marks -> SUBSET Hashes]
    <3>1. kept \in [Marks -> SUBSET Hashes] /\ rows \subseteq Hashes
      BY DEF TypeOK
    <3> QED BY <2>1, <3>1
  <2> QED BY <1>21, <2>2, <2>3 DEF handle_gc_mark, TypeOK, backfill, remote, handler
<1>22. ASSUME NEW age \in Ages, handle_clean_unused(age) PROVE TypeOK'
  BY <1>22, DeleteOutType DEF handle_clean_unused, TypeOK, backfill, remote, handler, history
<1>23. ASSUME NEW u \in Hashes, RemoveUnihash(u) PROVE TypeOK'
  <2>1. PICK S \in SUBSET Hashes : DeleteUnihashes(S)
    BY <1>23 DEF RemoveUnihash
  <2> QED BY <1>23, <2>1, DeleteType DEF RemoveUnihash, TypeOK, backfill, remote, handler
<1>24. ASSUME NEW o \in Outs, RemoveOuthash(o) PROVE TypeOK'
  <2>1. meddled' \in BOOLEAN
    BY <1>24, Zenon DEF RemoveOuthash
  <2> QED BY <1>24, <2>1, DeleteOutType DEF RemoveOuthash, TypeOK, backfill, remote, handler
<1>25. ASSUME NEW t \in Hashes, RemoveTaskhash(t) PROVE TypeOK'
  <2>1. DeleteUnihashes({t}) /\ {t} \in SUBSET Hashes
    BY <1>25 DEF RemoveTaskhash
  <2>2. created' \in [Hashes -> [Outs -> 0..MaxNow]]
    BY <1>25, DeleteOutType DEF RemoveTaskhash, TypeOK
  <2>3. admin' = admin \/ admin' \in [op : {"remove"}, task : Hashes]
    BY <1>25 DEF RemoveTaskhash
  <2> QED BY <1>25, <2>1, <2>2, <2>3, DeleteType DEF RemoveTaskhash, TypeOK, backfill, remote, handler
<1>26. CASE finish_gc_sweep
  <2>1. PICK S \in SUBSET Hashes : DeleteUnihashes(S)
    BY <1>26 DEF finish_gc_sweep, gc_sweep
  <2>2. gc' \in Maybe(Marks) /\ admin' = NoAdmin
    BY <1>26 DEF finish_gc_sweep, gc_sweep, Maybe
  <2> QED BY <1>26, <2>1, <2>2, DeleteType DEF finish_gc_sweep, TypeOK, backfill, remote, handler
<1>27. CASE finish_remove
  <2>1. created' \in [Hashes -> [Outs -> 0..MaxNow]] /\ admin' = NoAdmin
    BY <1>27, DeleteOutType DEF finish_remove
  <2> QED BY <1>27, <2>1 DEF finish_remove, TypeOK, backfill, remote, handler, history
<1>28. CASE Restart
  <2>1. pc' \in [Clients -> Places] /\ loop' \in Maybe(Clients) /\ admin' = NoAdmin
    BY <1>28 DEF Restart, Places, Maybe
  <2>2. /\ queue' \in Seq(Hashes) /\ filling' \in Maybe(Hashes) /\ found' \in Maybe(Hashes)
        /\ local' \in [Clients -> Maybe(Hashes)] /\ row' \in [Clients -> Maybe(Hashes)]
        /\ out' \in [Clients -> Maybe(Outs)]
    BY <1>28 DEF Restart, Maybe
  <2> QED BY <1>28, <2>1, <2>2 DEF Restart, TypeOK, database, remote, history
<1>29. CASE UNCHANGED vars
  BY <1>29 DEF TypeOK, vars, database, backfill, remote, handler, history
<1> QED
  BY <1>1, <1>2, <1>3, <1>4, <1>5, <1>6, <1>7, <1>8, <1>9, <1>10, <1>11, <1>12, <1>13, <1>14,
     <1>15, <1>16, <1>17, <1>18, <1>19, <1>20, <1>21, <1>22, <1>23, <1>24, <1>25, <1>26, <1>27,
     <1>28, <1>29, NextCases DEF Handler

-----------------------------------------------------------------------------
(* What handlers hold *)

LEMMA InitHandler == Init => HandlerInv
BY DEF Init, HandlerInv

LEMMA OverHandler ==
  ASSUME TypeOK, HandlerInv, NEW c \in Clients, Over(c), task' = task,
         known' = known \/ \E u \in Hashes : known' = [known EXCEPT ![c] = u],
         UNCHANGED <<filling, found, up, upRow>>
  PROVE  HandlerInv'
BY NoneAssumption DEF TypeOK, Maybe, HandlerInv, Over, Await

LEMMA HandlerStep ==
  ASSUME TypeOK, HandlerInv, Next
  PROVE  HandlerInv'
<1> USE NoneAssumption DEF HandlerInv, TypeOK, Maybe
<1>1. ASSUME NEW c \in Clients, NEW t \in Hashes, handle_get_stream(c, t) PROVE HandlerInv'
  BY <1>1 DEF handle_get_stream, Runs, Over, Await, backfill, remote
<1>2. ASSUME NEW c \in Clients, NEW u \in Hashes, handle_equivreport(c, u) PROVE HandlerInv'
  BY <1>2 DEF handle_equivreport, Runs, GoOn, backfill, remote
<1>3. ASSUME NEW c \in Clients, NEW o \in Outs, task[c] # None, handle_report(c, o) PROVE HandlerInv'
  BY <1>3 DEF handle_report, Runs, GoOn, backfill, remote
<1>4. ASSUME NEW c \in Clients, NEW o \in Outs, task[c] # None, report_readonly(c, o) PROVE HandlerInv'
  BY <1>4 DEF report_readonly, Runs, Tell, Drop, Over, Await, Oldest, Joined, backfill, remote
<1>5. ASSUME NEW c \in Clients, handle_get(c) PROVE HandlerInv'
  BY <1>5 DEF handle_get, Runs, GoOn, backfill, remote
<1>6. ASSUME NEW c \in Clients, stream_answer(c) PROVE HandlerInv'
  <2>1. local[c] # None => local[c] \in Hashes
    OBVIOUS
  <2>2. Over(c) /\ (known' = known \/ \E u \in Hashes : known' = [known EXCEPT ![c] = u])
    BY <1>6, <2>1 DEF stream_answer, Answer, Drop
  <2> QED BY <1>6, <2>2, TypeOK, HandlerInv, OverHandler DEF stream_answer, remote
<1>7. ASSUME NEW c \in Clients, get_unihash(c) PROVE HandlerInv'
  <2>1. task[c] \in Hashes /\ known[c] \in Hashes /\ (uni[task[c]] # None => uni[task[c]] \in Hashes)
    BY <1>7 DEF get_unihash, Runs
  <2>2. CASE Await(c, "taskhash_up") /\ UNCHANGED <<task, out, known, local, row, said>>
    BY <1>7, <2>2 DEF get_unihash, Runs, Await, backfill, remote
  <2>3. CASE Over(c) /\ (known' = known \/ \E u \in Hashes : known' = [known EXCEPT ![c] = u])
    BY <1>7, <2>3, OverHandler DEF get_unihash, backfill, remote
  <2> QED BY <1>7, <2>1, <2>2, <2>3 DEF get_unihash, Answer, Drop
<1>8. ASSUME NEW c \in Clients, taskhash_answer(c) PROVE HandlerInv'
  <2>1. local[c] # None => local[c] \in Hashes
    OBVIOUS
  <2>2. Over(c) /\ (known' = known \/ \E u \in Hashes : known' = [known EXCEPT ![c] = u])
    BY <1>8, <2>1 DEF taskhash_answer, Answer, Drop
  <2> QED BY <1>8, <2>2, OverHandler DEF taskhash_answer, backfill, remote
<1>9. ASSUME NEW c \in Clients, get_equivalent_for_outhash(c) PROVE HandlerInv'
  BY <1>9 DEF get_equivalent_for_outhash, Runs, GoOn, Await, Oldest, Joined, backfill, remote
<1>10. ASSUME NEW c \in Clients, report_insert_unihash(c) PROVE HandlerInv'
  BY <1>10 DEF report_insert_unihash, Runs, GoOn, backfill, remote
<1>11. ASSUME NEW c \in Clients, get_equivalent(c) PROVE HandlerInv'
  <2>1. local[c] \in Hashes
    BY <1>11 DEF get_equivalent, Runs
  <2>2. Over(c) /\ (known' = known \/ \E u \in Hashes : known' = [known EXCEPT ![c] = u])
    BY <1>11, <2>1 DEF get_equivalent, Answer, Drop
  <2> QED BY <1>11, <2>2, OverHandler DEF get_equivalent, backfill, remote
<1>12. ASSUME NEW c \in Clients, update_unified(c) PROVE HandlerInv'
  <2>1. CASE row[c] # None
    <3>1. /\ pc[c] = "update_unified" /\ pc' = [pc EXCEPT ![c] = "update_outhash"]
          /\ UNCHANGED <<task, out, known, local, row, filling, found, up, upRow>>
      BY <1>12, <2>1 DEF update_unified, Runs, GoOn, backfill, remote
    <3> QED BY <2>1, <3>1
  <2>2. CASE row[c] = None
    BY <1>12, <2>2, OverHandler DEF update_unified, Drop, backfill, remote
  <2> QED BY <2>1, <2>2
<1>13. ASSUME NEW c \in Clients, update_outhash(c) PROVE HandlerInv'
  BY <1>13 DEF update_outhash, Runs, Tell, Over, Await, backfill, remote
<1>14. ASSUME NEW c \in Clients, UpstreamReads(c) PROVE HandlerInv'
  BY <1>14 DEF UpstreamReads, backfill, remote
<1>15. ASSUME NEW c \in Clients, UpstreamFails(c) PROVE HandlerInv'
  BY <1>15 DEF UpstreamFails, Drop, Over, Await, backfill, remote
<1>16. ASSUME NEW t \in Hashes, NEW u \in Hashes, UpstreamLearns(t, u) PROVE HandlerInv'
  <2>1. UNCHANGED <<pc, task, out, known, local, row, filling, found>>
    BY <1>16 DEF UpstreamLearns, backfill, handler
  <2>2. /\ up' = [up EXCEPT ![t] = u]
        /\ upRow' = upRow \/ \E o \in Outs : upRow' = [upRow EXCEPT ![o] = t]
    BY <1>16, OutputAssumption DEF UpstreamLearns
  <2>3. \A o \in Outs : upRow'[o] # None => up'[upRow'[o]] # None
    <3> SUFFICES ASSUME NEW o \in Outs, upRow'[o] # None PROVE up'[upRow'[o]] # None
      OBVIOUS
    <3>1. CASE upRow'[o] = t
      BY <2>2, <3>1
    <3>2. CASE upRow'[o] # t
      <4>1. upRow'[o] = upRow[o]
        BY <2>2, <3>2
      <4> QED BY <2>2, <3>2, <4>1
    <3> QED BY <3>1, <3>2
  <2> QED BY <2>1, <2>3
<1>17. ASSUME NEW t \in Hashes, UpstreamForgets(t) PROVE HandlerInv'
  BY <1>17 DEF UpstreamForgets, backfill, handler
<1>18. CASE BackfillAsks
  BY <1>18 DEF BackfillAsks, remote, handler
<1>19. CASE BackfillStores
  BY <1>19 DEF BackfillStores, remote, handler
<1>20. CASE Restart
  BY <1>20 DEF Restart, remote
<1>21. ASSUME UNCHANGED <<filling, found, remote, handler>> PROVE HandlerInv'
  BY <1>21 DEF remote, handler
<1> QED
  BY <1>1, <1>2, <1>3, <1>4, <1>5, <1>6, <1>7, <1>8, <1>9, <1>10, <1>11, <1>12, <1>13, <1>14,
     <1>15, <1>16, <1>17, <1>18, <1>19, <1>20, <1>21, NextCases
     DEF Handler, handle_gc_sweep, handle_gc_mark, handle_clean_unused, RemoveUnihash, RemoveTaskhash,
         RemoveOuthash, finish_gc_sweep, finish_remove, backfill

-----------------------------------------------------------------------------
(* Classes *)

\* Two tasks that can have an output in common are equivalent.
LEMMA SameOutput ==
  ASSUME NEW s \in Hashes, NEW t \in Hashes, NEW o, o \in Output[s], o \in Output[t]
  PROVE  Class[s] = Class[t]
BY ClassAssumption

LEMMA InsertClass ==
  ASSUME TypeOK, DbClass, NEW t \in Hashes, NEW u, Class[u] = Class[t], insert_unihash(t, u),
         created' = created
  PROVE  DbClass'
BY DEF TypeOK, DbClass, insert_unihash

LEMMA OuthashClass ==
  ASSUME TypeOK, DbClass, NEW t \in Hashes, NEW o \in Output[t], NEW at, insert_outhash(t, o, at), uni' = uni
  PROVE  DbClass'
<1>1. o \in Outs
  BY OutputAssumption
<1>2. created \in [Hashes -> [Outs -> 0..MaxNow]]
  BY DEF TypeOK
<1>3. CASE created[t][o] = 0
  <2>1. created' = [created EXCEPT ![t][o] = at]
    BY <1>3 DEF insert_outhash
  <2>2. ASSUME NEW s \in Hashes, NEW p \in Outs, created'[s][p] # 0 PROVE p \in Output[s]
    <3>1. CASE s = t /\ p = o
      BY <3>1
    <3>2. CASE ~(s = t /\ p = o)
      <4>1. created'[s][p] = created[s][p]
        BY <1>1, <1>2, <2>1, <3>2
      <4> QED BY <2>2, <4>1 DEF DbClass
    <3> QED BY <3>1, <3>2
  <2> QED BY <2>2 DEF DbClass
<1>4. CASE created[t][o] # 0
  BY <1>4 DEF DbClass, insert_outhash
<1> QED BY <1>3, <1>4

LEMMA DeleteClass ==
  ASSUME TypeOK, DbClass, NEW S,
         DeleteUnihashes(S) \/ uni' = uni,
         (\E R : DeleteOuthashes(R)) \/ created' = created
  PROVE  DbClass'
<1>1. \A t \in Hashes : uni'[t] # None => uni'[t] = uni[t]
  BY DEF TypeOK, DeleteUnihashes
<1>2. \A t \in Hashes, o \in Outs : created'[t][o] # 0 => created'[t][o] = created[t][o]
  <2>1. CASE \E R : DeleteOuthashes(R)
    <3>1. PICK R : DeleteOuthashes(R)
      BY <2>1
    <3> QED BY <3>1 DEF DeleteOuthashes
  <2> QED BY <2>1
<1> QED BY <1>1, <1>2 DEF DbClass

LEMMA DbStep ==
  ASSUME TypeOK, HandlerInv, ClassInv, Next
  PROVE  DbClass'
<1> USE NoneAssumption
<1>0. DbClass /\ UpClass /\ BuildClass
  BY DEF ClassInv
<1>1. ASSUME NEW c \in Clients, NEW u \in Hashes, handle_equivreport(c, u) PROVE DbClass'
  BY <1>0, <1>1, InsertClass DEF handle_equivreport, TypeOK, Maybe
<1>2. ASSUME NEW c \in Clients, NEW o \in Outs, task[c] # None, o \in Output[task[c]], handle_report(c, o)
      PROVE  DbClass'
  BY <1>0, <1>2, OuthashClass DEF handle_report, TypeOK, Maybe
<1>3. ASSUME NEW c \in Clients, taskhash_answer(c) PROVE DbClass'
  <2>1. task[c] \in Hashes
    BY <1>3 DEF taskhash_answer, Runs, HandlerInv, TypeOK, Maybe
  <2>2. CASE local[c] # None
    BY <1>0, <1>3, <2>1, <2>2, InsertClass DEF taskhash_answer, BuildClass
  <2> QED BY <1>0, <1>3, <2>2 DEF taskhash_answer, DbClass
<1>4. ASSUME NEW c \in Clients, report_insert_unihash(c) PROVE DbClass'
  <2>1. task[c] \in Hashes /\ Class[local[c]] = Class[task[c]]
    BY <1>0, <1>4 DEF report_insert_unihash, Runs, HandlerInv, TypeOK, Maybe, BuildClass
  <2> QED BY <1>0, <1>4, <2>1, InsertClass DEF report_insert_unihash
<1>5. ASSUME NEW c \in Clients, update_unified(c) PROVE DbClass'
  <2>1. CASE row[c] # None
    <3>1. /\ row[c] \in Hashes /\ task[c] \in Hashes /\ out[c] \in Output[task[c]]
          /\ out[c] \in Output[row[c]] /\ Class[local[c]] = Class[task[c]]
      BY <1>0, <1>5, <2>1 DEF update_unified, Runs, HandlerInv, TypeOK, Maybe, BuildClass
    <3>2. Class[local[c]] = Class[row[c]]
      BY <3>1, SameOutput
    <3> QED BY <1>0, <1>5, <2>1, <3>1, <3>2, InsertClass DEF update_unified
  <2> QED BY <1>0, <1>5, <2>1 DEF update_unified, DbClass
<1>6. ASSUME NEW c \in Clients, update_outhash(c) PROVE DbClass'
  <2>1. row[c] \in Hashes /\ out[c] \in Output[row[c]]
    BY <1>0, <1>6 DEF update_outhash, Runs, HandlerInv, TypeOK, Maybe, BuildClass
  <2> QED BY <1>0, <1>6, <2>1, OuthashClass DEF update_outhash
<1>7. CASE BackfillStores
  <2>1. filling \in Hashes /\ (found # None => Class[found] = Class[filling])
    BY <1>0, <1>7 DEF BackfillStores, TypeOK, Maybe, UpClass
  <2> QED BY <1>0, <1>7, <2>1, InsertClass DEF BackfillStores, DbClass
<1>8. ASSUME NEW m \in Marks, handle_gc_sweep(m) \/ \E u \in Maybe(Hashes) : handle_gc_mark(m, u) PROVE DbClass'
  <2>1. created' = created /\ (uni' = uni \/ \E S : DeleteUnihashes(S))
    BY <1>8 DEF handle_gc_sweep, handle_gc_mark, gc_sweep
  <2> QED BY <1>0, <2>1, DeleteClass
<1>9. ASSUME NEW t \in Hashes, RemoveUnihash(t) \/ RemoveTaskhash(t) PROVE DbClass'
  <2>1. \E S : DeleteUnihashes(S)
    BY <1>9 DEF RemoveUnihash, RemoveTaskhash
  <2>2. created' = created \/ \E R : DeleteOuthashes(R)
    BY <1>9 DEF RemoveUnihash, RemoveTaskhash
  <2> QED BY <1>0, <2>1, <2>2, DeleteClass
<1>10. CASE finish_gc_sweep
  BY <1>0, <1>10, DeleteClass DEF finish_gc_sweep, gc_sweep
<1>11. ASSUME uni' = uni, created' = created \/ \E R : DeleteOuthashes(R) PROVE DbClass'
  BY <1>0, <1>11, DeleteClass
<1>12. ASSUME NEW c \in Clients, \/ stream_answer(c) \/ get_unihash(c) \/ get_equivalent_for_outhash(c)
                                 \/ get_equivalent(c) \/ handle_get(c) \/ UpstreamReads(c) \/ UpstreamFails(c)
       PROVE  DbClass'
  BY <1>11, <1>12 DEF stream_answer, get_unihash, get_equivalent_for_outhash, get_equivalent, handle_get,
                      UpstreamReads, UpstreamFails, database
<1>13. ASSUME NEW c \in Clients, NEW t \in Hashes, handle_get_stream(c, t) PROVE DbClass'
  BY <1>11, <1>13 DEF handle_get_stream, database
<1>14. ASSUME NEW c \in Clients, NEW o \in Outs, report_readonly(c, o) PROVE DbClass'
  BY <1>11, <1>14 DEF report_readonly, database
<1>15. ASSUME NEW t \in Hashes, UpstreamForgets(t) \/ \E u \in Hashes : UpstreamLearns(t, u) PROVE DbClass'
  BY <1>11, <1>15 DEF UpstreamForgets, UpstreamLearns, database
<1>16. CASE BackfillAsks \/ Restart
  BY <1>11, <1>16 DEF BackfillAsks, Restart, database
<1>17. CASE finish_remove \/ (\E age \in Ages : handle_clean_unused(age)) \/ (\E o \in Outs : RemoveOuthash(o))
  BY <1>11, <1>17 DEF finish_remove, handle_clean_unused, RemoveOuthash
<1> QED
  BY <1>1, <1>2, <1>3, <1>4, <1>5, <1>6, <1>7, <1>8, <1>9, <1>10, <1>12, <1>13, <1>14, <1>15, <1>16,
     <1>17, NextCases DEF Handler

LEMMA UpStep ==
  ASSUME TypeOK, HandlerInv, ClassInv, Next
  PROVE  UpClass'
<1> USE NoneAssumption
<1>0. UpClass
  BY DEF ClassInv
<1>1. ASSUME NEW t \in Hashes, NEW u \in Hashes, UpstreamLearns(t, u) PROVE UpClass'
  <2>0. up \in [Hashes -> Maybe(Hashes)] /\ upRow \in [Outs -> Maybe(Hashes)]
    BY DEF TypeOK
  <2>1. up' = [up EXCEPT ![t] = u] /\ Class[u] = Class[t] /\ found' = found /\ filling' = filling
    BY <1>1 DEF UpstreamLearns, backfill
  <2>2. \A s \in Hashes : up'[s] # None => Class[up'[s]] = Class[s]
    BY <1>0, <2>0, <2>1 DEF UpClass
  <2>3. \A o \in Outs : upRow'[o] # None => o \in Output[upRow'[o]]
    <3>1. upRow' = upRow \/ \E o \in Output[t] : upRow' = [upRow EXCEPT ![o] = t]
      BY <1>1 DEF UpstreamLearns
    <3> QED BY <1>0, <2>0, <3>1 DEF UpClass
  <2> QED BY <1>0, <2>1, <2>2, <2>3 DEF UpClass
<1>2. ASSUME NEW t \in Hashes, UpstreamForgets(t) PROVE UpClass'
  <2>1. /\ up' = [up EXCEPT ![t] = None] /\ found' = found /\ filling' = filling
        /\ upRow' = [o \in Outs |-> IF upRow[o] = t THEN None ELSE upRow[o]]
    BY <1>2 DEF UpstreamForgets, backfill
  <2>2. up \in [Hashes -> Maybe(Hashes)]
    BY DEF TypeOK
  <2> QED BY <1>0, <2>1, <2>2 DEF UpClass
<1>3. CASE BackfillAsks
  <2>1. filling' = Head(queue) /\ found' = up[Head(queue)] /\ UNCHANGED <<up, upRow>>
    BY <1>3 DEF BackfillAsks, remote
  <2>2. queue \in Seq(Hashes) /\ queue # <<>>
    BY <1>3 DEF BackfillAsks, TypeOK
  <2>3. Head(queue) \in Hashes
    BY <2>2
  <2> QED BY <1>0, <2>1, <2>3 DEF UpClass
<1>4. CASE BackfillStores \/ Restart
  BY <1>0, <1>4 DEF BackfillStores, Restart, UpClass, remote
<1>5. ASSUME UNCHANGED <<filling, found, up, upRow>> PROVE UpClass'
  BY <1>0, <1>5 DEF UpClass
<1>6. ASSUME NEW c \in Clients, Handler(c) \/ handle_get(c) \/ UpstreamReads(c) \/ UpstreamFails(c)
      PROVE  UpClass'
  BY <1>5, <1>6 DEF Handler, stream_answer, get_unihash, taskhash_answer, get_equivalent_for_outhash,
     report_insert_unihash, get_equivalent, update_unified, update_outhash, handle_get,
     UpstreamReads, UpstreamFails, backfill, remote
<1>7. ASSUME NEW c \in Clients, NEW t \in Hashes, handle_get_stream(c, t) \/ handle_equivreport(c, t)
      PROVE  UpClass'
  BY <1>5, <1>7 DEF handle_get_stream, handle_equivreport, backfill, remote
<1>8. ASSUME NEW c \in Clients, NEW o \in Outs, handle_report(c, o) \/ report_readonly(c, o) PROVE UpClass'
  BY <1>5, <1>8 DEF handle_report, report_readonly, backfill, remote
<1>9. ASSUME NEW m \in Marks, handle_gc_sweep(m) \/ \E u \in Maybe(Hashes) : handle_gc_mark(m, u) PROVE UpClass'
  BY <1>5, <1>9 DEF handle_gc_sweep, handle_gc_mark, backfill, remote
<1>10. ASSUME NEW t \in Hashes, RemoveUnihash(t) \/ RemoveTaskhash(t) PROVE UpClass'
  BY <1>5, <1>10 DEF RemoveUnihash, RemoveTaskhash, backfill, remote
<1>11. CASE \/ finish_gc_sweep \/ finish_remove
            \/ \E age \in Ages : handle_clean_unused(age)
            \/ \E o \in Outs : RemoveOuthash(o)
  BY <1>5, <1>11 DEF finish_gc_sweep, finish_remove, handle_clean_unused, RemoveOuthash, backfill, remote
<1> QED
  BY <1>1, <1>2, <1>3, <1>4, <1>6, <1>7, <1>8, <1>9, <1>10, <1>11, NextCases

\* A request that is over leaves its build with what it had, or with a unihash of the
\* class of its task.
LEMMA OverClass ==
  ASSUME TypeOK, BuildClass, NEW c \in Clients, Over(c), task' = task,
         known' = known \/ \E u \in Hashes : Class[u] = Class[task[c]] /\ known' = [known EXCEPT ![c] = u]
  PROVE  BuildClass'
<1>1. /\ pc' = [pc EXCEPT ![c] = "idle"] /\ local' = [local EXCEPT ![c] = None]
      /\ row' = [row EXCEPT ![c] = None] /\ out' = [out EXCEPT ![c] = None]
  BY DEF Over, Await
<1>2. /\ pc \in [Clients -> Places] /\ local \in [Clients -> Maybe(Hashes)]
      /\ row \in [Clients -> Maybe(Hashes)] /\ out \in [Clients -> Maybe(Outs)]
      /\ known \in [Clients -> Maybe(Hashes)]
  BY DEF TypeOK
<1>3. ASSUME NEW d \in Clients, d # c
      PROVE  /\ pc'[d] = pc[d] /\ local'[d] = local[d] /\ row'[d] = row[d] /\ out'[d] = out[d]
             /\ known'[d] = known[d] /\ task'[d] = task[d]
  BY <1>1, <1>2, <1>3
<1>4. pc'[c] = "idle" /\ local'[c] = None /\ row'[c] = None /\ out'[c] = None
  BY <1>1, <1>2
<1>5. task[c] # None => Class[known'[c]] = Class[task[c]]
  BY <1>2 DEF BuildClass
<1> QED BY <1>3, <1>4, <1>5 DEF BuildClass

LEMMA BuildStep ==
  ASSUME TypeOK, HandlerInv, ClassInv, Next
  PROVE  BuildClass'
<1> USE NoneAssumption
<1>0. DbClass /\ UpClass /\ BuildClass
  BY DEF ClassInv
<1>a. \A c \in Clients :
        /\ task[c] # None => task[c] \in Hashes /\ known[c] \in Hashes
        /\ local[c] # None => local[c] \in Hashes
        /\ row[c] # None => row[c] \in Hashes
        /\ out[c] # None => out[c] \in Outs
  BY DEF TypeOK, HandlerInv, Maybe
<1>b. \A s \in Hashes, o \in Outs : Joined(s, o) => uni[s] \in Hashes /\ o \in Output[s] /\ Class[uni[s]] = Class[s]
  BY <1>0 DEF Joined, DbClass, TypeOK, Maybe
<1>c. /\ pc \in [Clients -> Places] /\ local \in [Clients -> Maybe(Hashes)]
      /\ row \in [Clients -> Maybe(Hashes)] /\ out \in [Clients -> Maybe(Outs)]
      /\ known \in [Clients -> Maybe(Hashes)] /\ task \in [Clients -> Maybe(Hashes)]
  BY DEF TypeOK
<1>1. ASSUME NEW c \in Clients, NEW t \in Hashes, handle_get_stream(c, t) PROVE BuildClass'
  <2>1. task' = [task EXCEPT ![c] = t] /\ pc[c] = "idle"
    BY <1>1 DEF handle_get_stream, Runs
  <2>2. local[c] = None /\ row[c] = None /\ out[c] = None
    BY <2>1 DEF HandlerInv
  <2>3. \E u \in Hashes : known' = [known EXCEPT ![c] = u] /\ Class[u] = Class[t]
    <3>1. CASE uni[t] # None
      BY <1>0, <1>1, <3>1 DEF handle_get_stream, DbClass, TypeOK, Maybe
    <3>2. CASE uni[t] = None
      BY <1>1, <3>2 DEF handle_get_stream
    <3> QED BY <3>1, <3>2
  <2>4. /\ \E p \in {"idle", "stream_up"} : pc' = [pc EXCEPT ![c] = p]
        /\ local' = [local EXCEPT ![c] = None]
        /\ row' = [row EXCEPT ![c] = None] /\ out' = [out EXCEPT ![c] = None]
    BY <1>1, <1>c, <2>2 DEF handle_get_stream, Over, Await
  <2>5. ASSUME NEW d \in Clients, d # c
        PROVE  /\ pc'[d] = pc[d] /\ local'[d] = local[d] /\ row'[d] = row[d] /\ out'[d] = out[d]
               /\ known'[d] = known[d] /\ task'[d] = task[d]
    BY <1>c, <2>1, <2>3, <2>4, <2>5
  <2>6. local'[c] = None /\ row'[c] = None /\ out'[c] = None /\ task'[c] = t /\ Class[known'[c]] = Class[t]
    BY <1>c, <2>1, <2>3, <2>4
  <2> QED BY <1>0, <2>5, <2>6 DEF BuildClass
<1>2. ASSUME NEW c \in Clients, NEW u \in Hashes, handle_equivreport(c, u) PROVE BuildClass'
  <2>1. /\ local' = [local EXCEPT ![c] = u] /\ Class[u] = Class[task[c]]
        /\ pc' = [pc EXCEPT ![c] = "get_equivalent"] /\ UNCHANGED <<task, out, known, row>>
    BY <1>2 DEF handle_equivreport, GoOn
  <2> QED BY <1>0, <1>c, <2>1 DEF BuildClass
<1>3. ASSUME NEW c \in Clients, NEW o \in Outs, task[c] # None, o \in Output[task[c]], handle_report(c, o)
      PROVE  BuildClass'
  <2>1. /\ out' = [out EXCEPT ![c] = o] /\ UNCHANGED <<task, known, local, row>>
        /\ \E p \in {"get_equivalent_for_outhash", "get_unihash"} : pc' = [pc EXCEPT ![c] = p]
    BY <1>3 DEF handle_report, GoOn
  <2> QED BY <1>0, <1>3, <1>c, <2>1 DEF BuildClass
<1>4. ASSUME NEW c \in Clients, NEW o \in Outs, task[c] # None, o \in Output[task[c]], report_readonly(c, o)
      PROVE  BuildClass'
  <2>1. CASE \E s \in Hashes : Oldest(s, Hashes, o) /\ Tell(c, uni[s])
    <3>1. PICK s \in Hashes : Oldest(s, Hashes, o) /\ Tell(c, uni[s])
      BY <2>1
    <3>2. uni[s] \in Hashes /\ Class[uni[s]] = Class[task[c]]
      BY <1>4, <1>a, <1>b, <3>1, SameOutput DEF Oldest
    <3>3. Over(c) /\ task' = task /\ known' = [known EXCEPT ![c] = uni[s]]
      BY <1>4, <3>1 DEF report_readonly, Tell
    <3> QED BY <1>0, <3>2, <3>3, OverClass
  <2>2. CASE Await(c, "row_up") /\ out' = [out EXCEPT ![c] = o] /\ UNCHANGED <<known, local, row, said>>
    <3>1. pc' = [pc EXCEPT ![c] = "row_up"] /\ task' = task
      BY <1>4, <2>2 DEF report_readonly, Await
    <3> QED BY <1>0, <1>4, <1>c, <2>2, <3>1 DEF BuildClass
  <2>3. CASE Drop(c)
    BY <1>0, <1>4, <2>3, OverClass DEF report_readonly, Drop
  <2> QED BY <1>4, <2>1, <2>2, <2>3 DEF report_readonly
<1>5. ASSUME NEW c \in Clients, handle_get(c) PROVE BuildClass'
  <2>1. pc' = [pc EXCEPT ![c] = "get_unihash"] /\ UNCHANGED <<task, out, known, local, row>>
    BY <1>5 DEF handle_get, GoOn
  <2> QED BY <1>0, <1>c, <2>1 DEF BuildClass
<1>6. ASSUME NEW c \in Clients, stream_answer(c) \/ taskhash_answer(c) PROVE BuildClass'
  <2>1. CASE local[c] # None
    <3>1. Answer(c, local[c]) /\ task' = task
      BY <1>6, <2>1 DEF stream_answer, taskhash_answer
    <3> QED BY <1>0, <1>a, <2>1, <3>1, OverClass DEF Answer, BuildClass
  <2>2. CASE local[c] = None
    BY <1>0, <1>6, <2>2, OverClass DEF stream_answer, taskhash_answer, Drop
  <2> QED BY <2>1, <2>2
<1>7. ASSUME NEW c \in Clients, get_unihash(c) PROVE BuildClass'
  <2>1. task[c] \in Hashes /\ known[c] \in Hashes /\ Class[known[c]] = Class[task[c]]
    BY <1>0, <1>7, <1>a DEF get_unihash, Runs, HandlerInv, BuildClass
  <2>2. uni[task[c]] # None => uni[task[c]] \in Hashes /\ Class[uni[task[c]]] = Class[task[c]]
    BY <1>0, <2>1 DEF TypeOK, Maybe, DbClass
  <2>3. CASE Await(c, "taskhash_up") /\ UNCHANGED <<task, out, known, local, row, said>>
    BY <1>0, <1>c, <2>3 DEF Await, BuildClass
  <2>4. CASE Answer(c, uni[task[c]]) /\ uni[task[c]] # None
    BY <1>0, <1>7, <2>2, <2>4, OverClass DEF get_unihash, Answer
  <2>5. CASE Answer(c, known[c]) \/ Drop(c)
    BY <1>0, <1>7, <2>1, <2>5, OverClass DEF get_unihash, Answer, Drop
  <2> QED BY <1>7, <2>3, <2>4, <2>5 DEF get_unihash
<1>8. ASSUME NEW c \in Clients, get_equivalent_for_outhash(c) PROVE BuildClass'
  <2>1. /\ task[c] \in Hashes /\ known[c] \in Hashes /\ out[c] \in Outs
        /\ out[c] \in Output[task[c]] /\ Class[known[c]] = Class[task[c]]
    BY <1>0, <1>8, <1>a DEF get_equivalent_for_outhash, Runs, HandlerInv, BuildClass
  <2>2. \E u \in Hashes : local' = [local EXCEPT ![c] = u] /\ Class[u] = Class[task[c]]
    <3>1. ASSUME NEW s \in Hashes, Joined(s, out[c]) PROVE uni[s] \in Hashes /\ Class[uni[s]] = Class[task[c]]
      BY <1>b, <2>1, <3>1, SameOutput
    <3> QED BY <1>8, <2>1, <3>1 DEF get_equivalent_for_outhash, Oldest
  <2>3. /\ \E p \in {"insert_unihash", "outhash_up"} : pc' = [pc EXCEPT ![c] = p]
        /\ UNCHANGED <<task, out, known, row>>
    BY <1>8 DEF get_equivalent_for_outhash, GoOn, Await
  <2> QED BY <1>0, <1>c, <2>2, <2>3 DEF BuildClass
<1>9. ASSUME NEW c \in Clients, report_insert_unihash(c) PROVE BuildClass'
  <2>1. pc' = [pc EXCEPT ![c] = "get_unihash"] /\ UNCHANGED <<task, out, known, local, row>>
    BY <1>9 DEF report_insert_unihash, GoOn
  <2> QED BY <1>0, <1>c, <2>1 DEF BuildClass
<1>10. ASSUME NEW c \in Clients, get_equivalent(c) PROVE BuildClass'
  <2>1. local[c] \in Hashes /\ Class[local[c]] = Class[task[c]]
    BY <1>0, <1>10, <1>a DEF get_equivalent, Runs, HandlerInv, BuildClass
  <2> QED BY <1>0, <1>10, <2>1, OverClass DEF get_equivalent, Answer, Drop
<1>11. ASSUME NEW c \in Clients, update_unified(c) PROVE BuildClass'
  <2>1. CASE row[c] # None
    <3>1. /\ pc[c] = "update_unified" /\ pc' = [pc EXCEPT ![c] = "update_outhash"]
          /\ UNCHANGED <<task, out, known, local, row>>
      BY <1>11, <2>1 DEF update_unified, Runs, GoOn
    <3> QED BY <1>0, <1>c, <3>1 DEF BuildClass
  <2>2. CASE row[c] = None
    BY <1>0, <1>11, <2>2, OverClass DEF update_unified, Drop
  <2> QED BY <2>1, <2>2
<1>12. ASSUME NEW c \in Clients, update_outhash(c) PROVE BuildClass'
  <2>1. local[c] \in Hashes /\ Class[local[c]] = Class[task[c]]
    BY <1>0, <1>12, <1>a DEF update_outhash, Runs, HandlerInv, BuildClass
  <2> QED BY <1>0, <1>12, <2>1, OverClass DEF update_outhash, Tell
<1>13. ASSUME NEW c \in Clients, UpstreamReads(c) PROVE BuildClass'
  <2>0. UNCHANGED <<task, out, known>>
    BY <1>13 DEF UpstreamReads
  <2>1. task[c] \in Hashes
    BY <1>13, <1>a DEF UpstreamReads, HandlerInv
  <2>2. CASE pc[c] \in {"stream_up", "taskhash_up"}
    <3>1. /\ local' = [local EXCEPT ![c] = up[task[c]]] /\ row' = row
          /\ \E p \in {"stream_answer", "taskhash_answer"} : pc' = [pc EXCEPT ![c] = p]
      BY <1>13, <2>2 DEF UpstreamReads
    <3>2. up[task[c]] # None => Class[up[task[c]]] = Class[task[c]]
      BY <1>0, <2>1 DEF UpClass
    <3> QED BY <1>0, <1>c, <2>0, <3>1, <3>2 DEF BuildClass
  <2>3. CASE pc[c] \in {"outhash_up", "row_up"}
    <3> DEFINE r == upRow[out[c]]
    <3>1. out[c] \in Outs /\ out[c] \in Output[task[c]]
      BY <1>0, <1>a, <2>3 DEF HandlerInv, BuildClass
    <3>2. r # None => /\ r \in Hashes /\ out[c] \in Output[r] /\ up[r] # None
                      /\ Class[up[r]] = Class[task[c]]
      <4> SUFFICES ASSUME r # None
                   PROVE  /\ r \in Hashes /\ out[c] \in Output[r] /\ up[r] # None
                          /\ Class[up[r]] = Class[task[c]]
        OBVIOUS
      <4>1. r \in Hashes
        BY <3>1 DEF TypeOK, Maybe
      <4>2. out[c] \in Output[r] /\ up[r] # None
        BY <1>0, <3>1 DEF UpClass, HandlerInv
      <4>3. Class[r] = Class[task[c]]
        BY <2>1, <3>1, <4>1, <4>2, SameOutput
      <4> QED BY <1>0, <4>1, <4>2, <4>3 DEF UpClass
    <3>3. /\ local' = IF r = None THEN local ELSE [local EXCEPT ![c] = up[r]]
          /\ \/ pc' = [pc EXCEPT ![c] = "insert_unihash"] /\ row' = row
             \/ pc' = [pc EXCEPT ![c] = "update_unified"] /\ row' = [row EXCEPT ![c] = r]
      BY <1>13, <2>3 DEF UpstreamReads
    <3>4. ASSUME NEW d \in Clients, d # c
          PROVE  /\ pc'[d] = pc[d] /\ local'[d] = local[d] /\ row'[d] = row[d] /\ out'[d] = out[d]
                 /\ known'[d] = known[d] /\ task'[d] = task[d]
      BY <1>c, <2>0, <3>3, <3>4
    <3>5. local'[c] # None => Class[local'[c]] = Class[task[c]]
      BY <1>0, <1>c, <3>2, <3>3 DEF BuildClass
    <3>6. pc'[c] \in {"update_unified", "update_outhash"} /\ row'[c] # None => out[c] \in Output[row'[c]]
      BY <1>c, <3>2, <3>3
    <3> QED BY <1>0, <2>0, <3>4, <3>5, <3>6 DEF BuildClass
  <2> QED BY <1>13, <2>2, <2>3 DEF UpstreamReads
<1>14. ASSUME NEW c \in Clients, UpstreamFails(c) PROVE BuildClass'
  BY <1>0, <1>14, OverClass DEF UpstreamFails, Drop
<1>15. CASE Restart
  <2>1. /\ pc' = [c \in Clients |-> "idle"] /\ local' = [c \in Clients |-> None]
        /\ row' = [c \in Clients |-> None] /\ out' = [c \in Clients |-> None] /\ UNCHANGED <<task, known>>
    BY <1>15 DEF Restart
  <2> QED BY <1>0, <2>1 DEF BuildClass
<1>16. ASSUME UNCHANGED handler PROVE BuildClass'
  BY <1>0, <1>16 DEF BuildClass, handler
<1> QED
  BY <1>1, <1>2, <1>3, <1>4, <1>5, <1>6, <1>7, <1>8, <1>9, <1>10, <1>11, <1>12, <1>13, <1>14, <1>15, <1>16,
     NextCases
     DEF Handler, handle_gc_sweep, handle_gc_mark, handle_clean_unused, RemoveUnihash, RemoveTaskhash,
         RemoveOuthash, finish_gc_sweep, finish_remove, BackfillAsks, BackfillStores, UpstreamLearns, UpstreamForgets

LEMMA InitClass == Init => ClassInv
BY DEF Init, ClassInv, DbClass, UpClass, BuildClass

LEMMA ClassStep == TypeOK /\ HandlerInv /\ ClassInv /\ [Next]_vars => ClassInv'
<1>1. ASSUME TypeOK, HandlerInv, ClassInv, Next PROVE ClassInv'
  BY <1>1, DbStep, UpStep, BuildStep DEF ClassInv
<1>2. ASSUME ClassInv, UNCHANGED vars PROVE ClassInv'
  BY <1>2 DEF ClassInv, DbClass, UpClass, BuildClass, vars, database, backfill, remote, handler
<1> QED BY <1>1, <1>2

LEMMA HandlerStutter == HandlerInv /\ UNCHANGED vars => HandlerInv'
BY DEF HandlerInv, vars, backfill, remote, handler

\* The inductive core of the theorems below
THEOREM Core == Spec => [](TypeOK /\ HandlerInv /\ ClassInv)
<1>1. Init => TypeOK /\ HandlerInv /\ ClassInv
  BY InitType, InitHandler, InitClass
<1>2. TypeOK /\ HandlerInv /\ ClassInv /\ [Next]_vars => (TypeOK /\ HandlerInv /\ ClassInv)'
  BY NextType, HandlerStep, HandlerStutter, ClassStep
<1> QED BY <1>1, <1>2, PTL DEF Spec

\* Every variable of the server, of its database and of its handlers stays in its type.
THEOREM TypeCorrect == Spec => []TypeOK
BY Core, PTL

\* No build is ever sent to the result of a task that is not equivalent to its own.
THEOREM Soundness == Spec => []Sound
<1>1. TypeOK /\ HandlerInv /\ ClassInv => Sound
  BY DEF HandlerInv, ClassInv, DbClass, BuildClass, Sound
<1> QED BY <1>1, Core, PTL

-----------------------------------------------------------------------------
(* One server of its own, over sqlite *)

LEMMA InitAlone == Init => AloneInv /\ ShareInv /\ GCInv /\ AnswersAgree
<1> SUFFICES ASSUME Init PROVE AloneInv /\ ShareInv /\ GCInv /\ AnswersAgree
  OBVIOUS
<1>1. AloneInv
  BY DEF Init, AloneInv
<1>2. ShareInv
  BY DEF Init, ShareInv
<1>3. GCInv
  BY DEF Init, GCInv
<1>4. AnswersAgree
  BY DEF Init, AnswersAgree
<1> QED BY <1>1, <1>2, <1>3, <1>4

LEMMA AloneStep ==
  ASSUME TypeOK, HandlerInv, AloneInv, Alone, Next
  PROVE  AloneInv'
<1> USE NoneAssumption
<1>0. /\ backend = "sqlite" /\ ~upstream
      /\ queue = <<>> /\ filling = None
      /\ \A c \in Clients :
            /\ pc[c] # "idle" => loop = c
            /\ pc[c] \in {"idle", "get_equivalent_for_outhash", "insert_unihash", "get_unihash", "get_equivalent"}
            /\ pc[c] = "get_unihash" /\ out[c] # None => uni[task[c]] # None
  BY DEF AloneInv, Alone
<1>a. /\ pc \in [Clients -> Places] /\ local \in [Clients -> Maybe(Hashes)]
      /\ row \in [Clients -> Maybe(Hashes)] /\ out \in [Clients -> Maybe(Outs)]
      /\ known \in [Clients -> Maybe(Hashes)] /\ task \in [Clients -> Maybe(Hashes)]
      /\ uni \in [Hashes -> Maybe(Hashes)]
  BY DEF TypeOK
<1> DEFINE Calls == {"get_equivalent_for_outhash", "insert_unihash", "get_unihash", "get_equivalent"}
\* A handler that runs goes on or is over; all others are idle.
<1>1. ASSUME NEW c \in Clients, loop \in {None, c}, UNCHANGED <<queue, filling>>,
             \/ pc' = [pc EXCEPT ![c] = "idle"]
             \/ \E p \in Calls :
                  /\ pc' = [pc EXCEPT ![c] = p] /\ loop' = c
                  /\ p = "get_unihash" /\ out'[c] # None => uni'[task'[c]] # None
      PROVE  AloneInv'
  <2>1. \A d \in Clients \ {c} : pc[d] = "idle"
    BY <1>0, <1>1
  <2>2. \A d \in Clients \ {c} : pc'[d] = "idle"
    <3>1. \E p : pc' = [pc EXCEPT ![c] = p]
      BY <1>1
    <3> QED BY <1>a, <2>1, <3>1
  <2>3. \/ pc'[c] = "idle"
        \/ /\ pc'[c] \in Calls /\ loop' = c
           /\ pc'[c] = "get_unihash" /\ out'[c] # None => uni'[task'[c]] # None
    <3>1. CASE pc' = [pc EXCEPT ![c] = "idle"]
      BY <1>a, <3>1
    <3>2. ASSUME NEW p \in Calls, pc' = [pc EXCEPT ![c] = p], loop' = c,
                 p = "get_unihash" /\ out'[c] # None => uni'[task'[c]] # None
          PROVE  /\ pc'[c] \in Calls /\ loop' = c
                 /\ pc'[c] = "get_unihash" /\ out'[c] # None => uni'[task'[c]] # None
      <4>1. pc'[c] = p
        BY <1>a, <3>2
      <4> QED BY <3>2, <4>1
    <3> QED BY <1>1, <3>1, <3>2
  <2>4. queue' = <<>> /\ filling' = None
    BY <1>0, <1>1
  <2> QED BY <2>2, <2>3, <2>4 DEF AloneInv
\* Between requests
<1>2. ASSUME loop = None, UNCHANGED <<queue, filling, pc>> PROVE AloneInv'
  <2>1. \A d \in Clients : pc'[d] = "idle"
    BY <1>0, <1>2
  <2> QED BY <1>0, <1>2, <2>1 DEF AloneInv
<1>3. ASSUME NEW c \in Clients, NEW t \in Hashes, handle_get_stream(c, t) PROVE AloneInv'
  BY <1>0, <1>1, <1>3 DEF handle_get_stream, Runs, Over, Await, backfill
<1>4. ASSUME NEW c \in Clients, NEW u \in Hashes, handle_equivreport(c, u) PROVE AloneInv'
  BY <1>0, <1>1, <1>4 DEF handle_equivreport, Runs, GoOn, backfill
<1>5. ASSUME NEW c \in Clients, NEW o \in Outs, handle_report(c, o) PROVE AloneInv'
  BY <1>0, <1>1, <1>5 DEF handle_report, Runs, GoOn, backfill
<1>6. ASSUME NEW c \in Clients, NEW o \in Outs, report_readonly(c, o) PROVE AloneInv'
  BY <1>0, <1>1, <1>6 DEF report_readonly, Runs, Tell, Drop, Over, Await, backfill
<1>7. ASSUME NEW c \in Clients, handle_get(c) PROVE AloneInv'
  <2>1. out'[c] = None
    BY <1>7 DEF handle_get, Runs, HandlerInv
  <2> QED BY <1>0, <1>1, <1>7, <2>1 DEF handle_get, Runs, GoOn, backfill
<1>8. ASSUME NEW c \in Clients, get_unihash(c) PROVE AloneInv'
  BY <1>0, <1>1, <1>8 DEF get_unihash, Runs, Answer, Drop, Over, Await, backfill
<1>9. ASSUME NEW c \in Clients, get_equivalent_for_outhash(c) PROVE AloneInv'
  BY <1>0, <1>1, <1>9 DEF get_equivalent_for_outhash, Runs, GoOn, backfill
<1>10. ASSUME NEW c \in Clients, report_insert_unihash(c) PROVE AloneInv'
  <2>1. task[c] \in Hashes /\ local[c] # None /\ task' = task
    BY <1>10, <1>a DEF report_insert_unihash, Runs, HandlerInv, Maybe
  <2>2. uni'[task'[c]] # None
    BY <1>10, <1>a, <2>1 DEF report_insert_unihash, insert_unihash
  <2> QED BY <1>0, <1>1, <1>10, <2>2 DEF report_insert_unihash, Runs, GoOn, backfill
<1>11. ASSUME NEW c \in Clients, get_equivalent(c) PROVE AloneInv'
  BY <1>0, <1>1, <1>11 DEF get_equivalent, Runs, Answer, Drop, Over, Await, backfill
<1>12. ASSUME NEW c \in Clients,
              \/ stream_answer(c) \/ taskhash_answer(c) \/ update_unified(c) \/ update_outhash(c)
              \/ UpstreamReads(c) \/ UpstreamFails(c)
       PROVE  FALSE
  BY <1>0, <1>12 DEF stream_answer, taskhash_answer, update_unified, update_outhash, Runs, UpstreamReads, UpstreamFails
<1>13. ASSUME NEW t \in Hashes, UpstreamForgets(t) \/ \E u \in Hashes : UpstreamLearns(t, u) PROVE FALSE
  BY <1>0, <1>13 DEF UpstreamForgets, UpstreamLearns
<1>14. CASE BackfillAsks \/ BackfillStores
  BY <1>0, <1>14 DEF BackfillAsks, BackfillStores
<1>15. ASSUME NEW m \in Marks, handle_gc_sweep(m) \/ \E u \in Maybe(Hashes) : handle_gc_mark(m, u) PROVE AloneInv'
  BY <1>2, <1>15 DEF handle_gc_sweep, handle_gc_mark, backfill, handler
<1>16. ASSUME NEW t \in Hashes, RemoveUnihash(t) \/ RemoveTaskhash(t) PROVE AloneInv'
  BY <1>2, <1>16 DEF RemoveUnihash, RemoveTaskhash, backfill, handler
<1>17. CASE \/ finish_gc_sweep \/ finish_remove
            \/ \E age \in Ages : handle_clean_unused(age)
            \/ \E o \in Outs : RemoveOuthash(o)
  BY <1>2, <1>17 DEF finish_gc_sweep, finish_remove, handle_clean_unused, RemoveOuthash, backfill, handler
<1>18. CASE Restart
  BY <1>18 DEF Restart, AloneInv
<1>19. TypeOK /\ Next
  OBVIOUS
<1> QED
  BY <1>3, <1>4, <1>5, <1>6, <1>7, <1>8, <1>9, <1>10, <1>11, <1>12, <1>13, <1>14, <1>15, <1>16, <1>17, <1>18,
     <1>19, NextCases DEF Handler

\* What a server is, it stays.
LEMMA SameServer == Next => server' = server
BY DEF Next, Build, Handler, Admin, handle_get_stream, handle_equivreport, handle_get, handle_report,
   report_readonly, stream_answer, get_unihash, taskhash_answer, get_equivalent_for_outhash,
   report_insert_unihash, get_equivalent, update_unified, update_outhash, UpstreamReads, UpstreamFails,
   UpstreamLearns, UpstreamForgets, BackfillAsks, BackfillStores, Restart, handle_gc_sweep, handle_gc_mark,
   handle_clean_unused, RemoveUnihash, RemoveTaskhash, RemoveOuthash, finish_gc_sweep, finish_remove

\* What is said of a task stays what its row says.
LEMMA AgreeStep ==
  ASSUME TypeOK, HandlerInv, AloneInv, AnswersAgree, Alone, Next
  PROVE  AnswersAgree'
<1> USE NoneAssumption
<1>0. /\ queue = <<>> /\ filling = None
      /\ \A c \in Clients :
            /\ pc[c] \in {"idle", "get_equivalent_for_outhash", "insert_unihash", "get_unihash", "get_equivalent"}
            /\ pc[c] = "get_unihash" /\ out[c] # None => uni[task[c]] # None
      /\ ~upstream
  BY DEF AloneInv, Alone
<1>a. uni \in [Hashes -> Maybe(Hashes)] /\ said \in [Hashes -> SUBSET Hashes]
  BY DEF TypeOK
<1>b. \A t \in Hashes : said[t] \subseteq {uni[t]}
  BY DEF Alone, AnswersAgree
<1>1. ASSUME UNCHANGED <<uni, said>> PROVE AnswersAgree'
  BY <1>1, <1>b DEF AnswersAgree
<1>2. ASSUME NEW t \in Hashes, uni[t] # None, said' = [said EXCEPT ![t] = @ \cup {uni[t]}], uni' = uni
      PROVE  AnswersAgree'
  BY <1>2, <1>a, <1>b DEF AnswersAgree
<1>3. ASSUME NEW t \in Hashes, NEW u, insert_unihash(t, u), said' = said PROVE AnswersAgree'
  <2>1. CASE uni[t] = None
    <3>1. said[t] = {}
      BY <1>a, <1>b, <2>1
    <3>2. uni' = [uni EXCEPT ![t] = u]
      BY <1>3, <2>1 DEF insert_unihash
    <3> QED BY <1>3, <1>a, <1>b, <3>1, <3>2 DEF AnswersAgree
  <2> QED BY <1>1, <1>3, <2>1 DEF insert_unihash
<1>4. ASSUME NEW S, DeleteUnihashes(S) PROVE AnswersAgree'
  BY <1>4, <1>b DEF DeleteUnihashes, AnswersAgree
<1>5. ASSUME NEW c \in Clients, NEW t \in Hashes, handle_get_stream(c, t) PROVE AnswersAgree'
  BY <1>1, <1>2, <1>5 DEF handle_get_stream, database
<1>6. ASSUME NEW c \in Clients, NEW u \in Hashes, handle_equivreport(c, u) PROVE AnswersAgree'
  <2>1. task[c] \in Hashes
    BY <1>6 DEF handle_equivreport, TypeOK, Maybe
  <2> QED BY <1>3, <1>6, <2>1 DEF handle_equivreport
<1>7. ASSUME NEW c \in Clients, NEW o \in Outs, handle_report(c, o) \/ report_readonly(c, o) PROVE AnswersAgree'
  BY <1>1, <1>7 DEF handle_report, report_readonly, Tell, Drop, database, history
<1>8. ASSUME NEW c \in Clients, get_unihash(c) PROVE AnswersAgree'
  <2>1. task[c] \in Hashes
    BY <1>8 DEF get_unihash, Runs, HandlerInv, TypeOK, Maybe
  <2> QED BY <1>0, <1>1, <1>2, <1>8, <2>1 DEF get_unihash, Runs, Answer, Drop, database
<1>9. ASSUME NEW c \in Clients, report_insert_unihash(c) PROVE AnswersAgree'
  <2>1. task[c] \in Hashes
    BY <1>9 DEF report_insert_unihash, Runs, HandlerInv, TypeOK, Maybe
  <2> QED BY <1>3, <1>9, <2>1 DEF report_insert_unihash
<1>10. ASSUME NEW c \in Clients, get_equivalent(c) PROVE AnswersAgree'
  <2>1. task[c] \in Hashes /\ local[c] # None
    BY <1>10 DEF get_equivalent, Runs, HandlerInv, TypeOK, Maybe
  <2> QED BY <1>1, <1>2, <1>10, <2>1 DEF get_equivalent, Answer, Drop, database
<1>11. ASSUME NEW c \in Clients, handle_get(c) \/ get_equivalent_for_outhash(c) PROVE AnswersAgree'
  BY <1>1, <1>11 DEF handle_get, get_equivalent_for_outhash, database, history
<1>12. ASSUME NEW c \in Clients,
              \/ stream_answer(c) \/ taskhash_answer(c) \/ update_unified(c) \/ update_outhash(c)
              \/ UpstreamReads(c) \/ UpstreamFails(c)
       PROVE  FALSE
  BY <1>0, <1>12 DEF stream_answer, taskhash_answer, update_unified, update_outhash, Runs, UpstreamReads, UpstreamFails
<1>13. ASSUME NEW t \in Hashes, UpstreamForgets(t) \/ \E u \in Hashes : UpstreamLearns(t, u) PROVE FALSE
  BY <1>0, <1>13 DEF UpstreamForgets, UpstreamLearns
<1>14. CASE BackfillAsks \/ BackfillStores
  BY <1>0, <1>14 DEF BackfillAsks, BackfillStores
<1>15. ASSUME NEW m \in Marks, handle_gc_sweep(m) \/ \E u \in Maybe(Hashes) : handle_gc_mark(m, u)
       PROVE  AnswersAgree'
  BY <1>1, <1>4, <1>15 DEF handle_gc_sweep, gc_sweep, handle_gc_mark
<1>16. ASSUME NEW t \in Hashes, RemoveUnihash(t) \/ RemoveTaskhash(t) PROVE AnswersAgree'
  BY <1>4, <1>16 DEF RemoveUnihash, RemoveTaskhash
<1>17. CASE finish_gc_sweep
  BY <1>4, <1>17 DEF finish_gc_sweep, gc_sweep
<1>18. CASE finish_remove \/ (\E age \in Ages : handle_clean_unused(age)) \/ (\E o \in Outs : RemoveOuthash(o))
  BY <1>1, <1>18 DEF finish_remove, handle_clean_unused, RemoveOuthash, history
<1>19. CASE Restart
  BY <1>1, <1>19 DEF Restart, database, history
<1> QED
  BY <1>5, <1>6, <1>7, <1>8, <1>9, <1>10, <1>11, <1>12, <1>13, <1>14, <1>15, <1>16, <1>17, <1>18, <1>19,
     NextCases DEF Handler

\* Over sqlite, without an upstream server, all builds are told the same unihash for a
\* task as long as its row is there, and it is the one of the row.
THEOREM Agreement == Spec => []AnswersAgree
<1> DEFINE Inv == AloneInv /\ AnswersAgree
<1>1. Init => Inv
  BY InitAlone
<1>2. ASSUME TypeOK, HandlerInv, Inv, Next PROVE Inv'
  <2>1. CASE Alone
    BY <1>2, <2>1, AloneStep, AgreeStep
  <2>2. CASE ~Alone
    <3>1. backend' = backend /\ upstream' = upstream
      BY <1>2, SameServer DEF backend, upstream
    <3> QED BY <2>2, <3>1 DEF Alone, AloneInv, AnswersAgree
  <2> QED BY <2>1, <2>2
<1>3. ASSUME Inv, UNCHANGED vars PROVE Inv'
  BY <1>3 DEF AloneInv, Alone, AnswersAgree, backend, upstream, vars, database, backfill, handler, history
<1>4. TypeOK /\ HandlerInv /\ Inv /\ [Next]_vars => Inv'
  BY <1>2, <1>3
<1> QED BY <1>1, <1>4, Core, PTL DEF Spec

-----------------------------------------------------------------------------
(* Garbage collection *)

LEMMA GCStep ==
  ASSUME TypeOK, HandlerInv, GCInv, Next
  PROVE  GCInv' /\ (backend = "sqlite" => Keeps)
<1> USE NoneAssumption
<1>0. /\ backend = "sqlite" => admin = NoAdmin
      /\ \A m \in Marks : \A t \in kept[m] : t \in Hashes /\ uni[t] # None /\ (gc = m => mark[t] = m)
  BY DEF GCInv, TypeOK
<1>a. /\ uni \in [Hashes -> Maybe(Hashes)] /\ mark \in [Hashes -> Maybe(Marks)]
      /\ kept \in [Marks -> SUBSET Hashes] /\ gc \in Maybe(Marks)
  BY DEF TypeOK
<1>b. backend' = backend
  BY SameServer DEF backend
<1> DEFINE Rows == \A m \in Marks : \A t \in kept[m] : uni[t] # None /\ (gc = m => mark[t] = m)
\* A step that leaves the mark and the administrators alone sweeps nothing.
<1>1. ASSUME gc' = gc, backend = "sqlite" => admin' = admin, Rows' PROVE GCInv' /\ (backend = "sqlite" => Keeps)
  <2>1. GCInv'
    BY <1>0, <1>1, <1>b DEF GCInv
  <2>2. ASSUME NEW m \in Marks, Swept(m), backend = "sqlite" PROVE FALSE
    BY <1>0, <1>1, <2>2 DEF Swept
  <2> QED BY <2>1, <2>2 DEF Keeps
<1>2. ASSUME UNCHANGED <<uni, mark, kept, gc>>, backend = "sqlite" => admin' = admin
      PROVE  GCInv' /\ (backend = "sqlite" => Keeps)
  BY <1>0, <1>1, <1>2
<1>3. ASSUME NEW t \in Hashes, NEW u \in Hashes, insert_unihash(t, u), gc' = gc, admin' = admin
      PROVE  GCInv' /\ (backend = "sqlite" => Keeps)
  <2>1. CASE uni[t] = None
    <3>1. /\ uni' = [uni EXCEPT ![t] = u] /\ mark' = [mark EXCEPT ![t] = gc]
          /\ kept' = [m \in Marks |-> IF m = gc THEN kept[m] \cup {t} ELSE kept[m]]
      BY <1>3, <2>1 DEF insert_unihash
    <3>2. ASSUME NEW m \in Marks, NEW s \in kept'[m] PROVE uni'[s] # None /\ (gc' = m => mark'[s] = m)
      <4>1. CASE s = t
        <5>1. t \notin kept[m]
          BY <1>0, <2>1
        <5>2. m = gc
          BY <3>1, <3>2, <4>1, <5>1
        <5> QED BY <1>3, <1>a, <3>1, <4>1, <5>2
      <4>2. CASE s # t
        <5>1. s \in kept[m]
          BY <3>1, <3>2, <4>2
        <5> QED BY <1>0, <1>3, <1>a, <3>1, <4>2, <5>1
      <4> QED BY <4>1, <4>2
    <3> QED BY <1>1, <1>3, <3>2
  <2>2. CASE uni[t] # None
    BY <1>2, <1>3, <2>2 DEF insert_unihash
  <2> QED BY <2>1, <2>2
<1>4. ASSUME NEW S, DeleteUnihashes(S), gc' = gc, backend = "sqlite" => admin' = admin
      PROVE  GCInv' /\ (backend = "sqlite" => Keeps)
  <2>1. Rows'
    BY <1>0, <1>4 DEF DeleteUnihashes
  <2> QED BY <1>1, <1>4, <2>1
<1>5. ASSUME gc_sweep, backend = "sqlite" => admin' = NoAdmin PROVE GCInv' /\ (backend = "sqlite" => Keeps)
  <2> DEFINE S == IF gc = None THEN {} ELSE {t \in Hashes : uni[t] # None /\ mark[t] # gc}
  <2>1. DeleteUnihashes(S) /\ gc' = None
    BY <1>5 DEF gc_sweep
  <2>2. GCInv'
    <3>1. \A m \in Marks : \A t \in kept'[m] : uni'[t] # None
      BY <1>0, <2>1 DEF DeleteUnihashes
    <3> QED BY <1>5, <1>b, <2>1, <3>1 DEF GCInv
  <2>3. ASSUME NEW m \in Marks, Swept(m), backend = "sqlite", NEW t \in kept[m] PROVE uni'[t] # None
    <3>1. gc = m
      BY <1>0, <2>3 DEF Swept
    <3>2. t \in Hashes /\ uni[t] # None /\ t \notin S
      BY <1>0, <2>3, <3>1
    <3> QED BY <2>1, <3>2 DEF DeleteUnihashes
  <2> QED BY <2>2, <2>3 DEF Keeps
<1>6. ASSUME NEW m \in Marks, NEW u \in Maybe(Hashes), handle_gc_mark(m, u)
      PROVE  GCInv' /\ (backend = "sqlite" => Keeps)
  <2> DEFINE rows == {t \in Hashes : uni[t] # None /\ uni[t] = u}
  <2>1. /\ gc' = m /\ mark' = [t \in Hashes |-> IF t \in rows THEN m ELSE mark[t]]
        /\ kept' = [kept EXCEPT ![m] = (IF gc = m THEN @ ELSE {}) \cup rows]
        /\ UNCHANGED <<uni, admin>>
    BY <1>6 DEF handle_gc_mark
  <2>2. ASSUME NEW n \in Marks, NEW t \in kept'[n] PROVE uni'[t] # None /\ (gc' = n => mark'[t] = n)
    <3>1. CASE n # m
      BY <1>0, <1>a, <2>1, <2>2, <3>1
    <3>2. CASE n = m
      <4>1. kept'[m] = (IF gc = m THEN kept[m] ELSE {}) \cup rows
        BY <1>a, <2>1
      <4>2. t \in rows \/ (gc = m /\ t \in kept[m])
        BY <2>2, <3>2, <4>1
      <4> QED BY <1>0, <2>1, <3>2, <4>2
    <3> QED BY <3>1, <3>2
  <2>3. GCInv'
    BY <1>0, <1>b, <2>1, <2>2 DEF GCInv
  <2>4. \A n \in Marks : ~Swept(n)
    BY <2>1 DEF Swept
  <2> QED BY <2>3, <2>4 DEF Keeps
<1>7. ASSUME NEW c \in Clients, NEW u \in Hashes, handle_equivreport(c, u)
      PROVE  GCInv' /\ (backend = "sqlite" => Keeps)
  <2>1. task[c] \in Hashes
    BY <1>7 DEF handle_equivreport, TypeOK, Maybe
  <2> QED BY <1>3, <1>7, <2>1 DEF handle_equivreport
<1>8. ASSUME NEW c \in Clients, report_insert_unihash(c) PROVE GCInv' /\ (backend = "sqlite" => Keeps)
  <2>1. task[c] \in Hashes /\ local[c] \in Hashes
    BY <1>8 DEF report_insert_unihash, Runs, HandlerInv, TypeOK, Maybe
  <2> QED BY <1>3, <1>8, <2>1 DEF report_insert_unihash
<1>9. ASSUME NEW c \in Clients, taskhash_answer(c) PROVE GCInv' /\ (backend = "sqlite" => Keeps)
  <2>1. task[c] \in Hashes /\ (local[c] # None => local[c] \in Hashes)
    BY <1>9 DEF taskhash_answer, Runs, HandlerInv, TypeOK, Maybe
  <2> QED BY <1>2, <1>3, <1>9, <2>1 DEF taskhash_answer
<1>10. ASSUME NEW c \in Clients, update_unified(c) PROVE GCInv' /\ (backend = "sqlite" => Keeps)
  <2>1. row[c] # None => row[c] \in Hashes /\ local[c] \in Hashes
    BY <1>10 DEF update_unified, Runs, HandlerInv, TypeOK, Maybe
  <2> QED BY <1>2, <1>3, <1>10, <2>1 DEF update_unified
<1>11. CASE BackfillStores
  <2>1. filling \in Hashes /\ (found # None => found \in Hashes)
    BY <1>11 DEF BackfillStores, TypeOK, Maybe
  <2> QED BY <1>2, <1>3, <1>11, <2>1 DEF BackfillStores
<1>12. ASSUME NEW m \in Marks, handle_gc_sweep(m) PROVE GCInv' /\ (backend = "sqlite" => Keeps)
  <2>1. CASE backend = "sqlite"
    BY <1>0, <1>5, <1>12, <2>1 DEF handle_gc_sweep
  <2>2. CASE backend # "sqlite"
    BY <1>2, <1>12, <2>2 DEF handle_gc_sweep
  <2> QED BY <2>1, <2>2
<1>13. CASE finish_gc_sweep
  BY <1>5, <1>13 DEF finish_gc_sweep
<1>14. ASSUME NEW t \in Hashes, RemoveUnihash(t) \/ RemoveTaskhash(t) PROVE GCInv' /\ (backend = "sqlite" => Keeps)
  BY <1>4, <1>14 DEF RemoveUnihash, RemoveTaskhash
<1>15. CASE finish_remove
  <2>1. backend # "sqlite"
    BY <1>0, <1>15 DEF finish_remove, NoAdmin
  <2> QED BY <1>2, <1>15, <2>1 DEF finish_remove, history
<1>16. CASE Restart
  <2>1. backend = "sqlite" => admin' = admin
    BY <1>0, <1>16 DEF Restart
  <2> QED BY <1>2, <1>16, <2>1 DEF Restart, database, history
<1>17. CASE (\E age \in Ages : handle_clean_unused(age)) \/ (\E o \in Outs : RemoveOuthash(o)) \/ BackfillAsks
  BY <1>2, <1>17 DEF handle_clean_unused, RemoveOuthash, BackfillAsks, database, history
<1>18. ASSUME NEW c \in Clients, NEW t \in Hashes, handle_get_stream(c, t) PROVE GCInv' /\ (backend = "sqlite" => Keeps)
  BY <1>2, <1>18 DEF handle_get_stream, database
<1>19. ASSUME NEW c \in Clients, NEW o \in Outs, handle_report(c, o) \/ report_readonly(c, o)
       PROVE  GCInv' /\ (backend = "sqlite" => Keeps)
  BY <1>2, <1>19 DEF handle_report, report_readonly, database, history
<1>20. ASSUME NEW c \in Clients,
              \/ handle_get(c) \/ stream_answer(c) \/ get_unihash(c) \/ get_equivalent_for_outhash(c)
              \/ get_equivalent(c) \/ update_outhash(c) \/ UpstreamReads(c) \/ UpstreamFails(c)
       PROVE  GCInv' /\ (backend = "sqlite" => Keeps)
  BY <1>2, <1>20 DEF handle_get, stream_answer, get_unihash, get_equivalent_for_outhash, get_equivalent,
     update_outhash, UpstreamReads, UpstreamFails, database, history
<1>21. ASSUME NEW t \in Hashes, UpstreamForgets(t) \/ \E u \in Hashes : UpstreamLearns(t, u)
       PROVE  GCInv' /\ (backend = "sqlite" => Keeps)
  BY <1>2, <1>21 DEF UpstreamForgets, UpstreamLearns, database, history
<1> HIDE DEF Rows
<1> QED
  BY <1>6, <1>7, <1>8, <1>9, <1>10, <1>11, <1>12, <1>13, <1>14, <1>15, <1>16, <1>17, <1>18, <1>19, <1>20,
     <1>21, NextCases DEF Handler

LEMMA GCStutter == GCInv /\ UNCHANGED vars => GCInv'
BY DEF GCInv, backend, vars, database, history

LEMMA GCAlways == Spec => []GCInv
<1>1. Init => GCInv
  BY InitAlone
<1>2. TypeOK /\ HandlerInv /\ GCInv /\ [Next]_vars => GCInv'
  BY GCStep, GCStutter
<1> QED BY <1>1, <1>2, Core, PTL DEF Spec

\* Over sqlite a sweep keeps what the collection it finishes has promised to keep.
THEOREM SweepKeeps == Spec => GCKeeps
<1>1. TypeOK /\ HandlerInv /\ GCInv /\ [Next]_vars => [backend = "sqlite" => Keeps]_vars
  BY GCStep
<1> QED BY <1>1, Core, GCAlways, PTL DEF Spec, GCKeeps

-----------------------------------------------------------------------------
(* Sharing *)

LEMMA ShareStep ==
  ASSUME TypeOK, HandlerInv, ClassInv, AloneInv, GCInv, ShareInv, OutputsShare, Deterministic, Alone, Next
  PROVE  ShareInv' /\ OutputsShare'
<1> USE NoneAssumption
<1> DEFINE Rows == \A t \in Hashes, o \in Outs : uni[t] # None /\ Output[t] = {o} => created[t][o] # 0
           Calls(c) == /\ pc[c] \in {"get_equivalent_for_outhash", "insert_unihash"} =>
                            created[task[c]][out[c]] # 0
                       /\ pc[c] = "insert_unihash" /\ Output[task[c]] = {out[c]} =>
                            \A s \in Hashes \ {task[c]} : Joined(s, out[c]) => uni[s] = local[c]
<1>0. ~meddled => Rows /\ Shared /\ \A c \in Clients : Calls(c)
  BY DEF ShareInv, OutputsShare, Alone
<1>1. ASSUME ~meddled' => Rows' /\ Shared' /\ \A c \in Clients : Calls(c)'
      PROVE  ShareInv' /\ OutputsShare'
  BY <1>1 DEF ShareInv, OutputsShare
<1>a. /\ pc \in [Clients -> Places] /\ local \in [Clients -> Maybe(Hashes)]
      /\ out \in [Clients -> Maybe(Outs)] /\ task \in [Clients -> Maybe(Hashes)]
      /\ uni \in [Hashes -> Maybe(Hashes)] /\ created \in [Hashes -> [Outs -> 0..MaxNow]] /\ now \in Nat
  BY DEF TypeOK
<1>b. backend = "sqlite" /\ ~upstream /\ admin = NoAdmin /\ filling = None /\ queue = <<>>
  BY DEF Alone, GCInv, AloneInv
<1>c. \A c \in Clients : /\ pc[c] # "idle" => loop = c
                        /\ pc[c] \in {"idle", "get_equivalent_for_outhash", "insert_unihash", "get_unihash",
                                     "get_equivalent"}
  BY DEF AloneInv
<1>d. \A s, t \in Hashes, o \in Outs : Output[t] = {o} /\ created[s][o] # 0 => Output[s] = {o}
  BY DEF ClassInv, DbClass, Deterministic
\* The handler of c goes elsewhere; the rows stay.
<1>2. ASSUME NEW c \in Clients, loop \in {None, c}, UNCHANGED <<uni, created>>, meddled' = meddled,
             NEW p \in Places \ {"get_equivalent_for_outhash", "insert_unihash"}, pc' = [pc EXCEPT ![c] = p]
      PROVE  ShareInv' /\ OutputsShare'
  <2>1. \A d \in Clients : pc'[d] \notin {"get_equivalent_for_outhash", "insert_unihash"}
    BY <1>2, <1>a, <1>c
  <2> QED BY <1>0, <1>1, <1>2, <2>1 DEF Shared
\* Rows go between requests, those of outputs with those of unihashes.
<1>3. ASSUME loop = None, pc' = pc, meddled' = meddled,
             \A t \in Hashes : uni'[t] # None => uni'[t] = uni[t] /\ created'[t] = created[t]
      PROVE  ShareInv' /\ OutputsShare'
  <2>1. \A d \in Clients : pc'[d] = "idle"
    BY <1>3, <1>c
  <2>2. ~meddled => Rows'
    BY <1>0, <1>3
  <2>3. ~meddled => Shared'
    BY <1>0, <1>3 DEF Shared
  <2> QED BY <1>1, <1>3, <2>1, <2>2, <2>3
<1>4. ASSUME NEW c \in Clients, NEW t \in Hashes, handle_get_stream(c, t) PROVE ShareInv' /\ OutputsShare'
  <2>1. pc' = [pc EXCEPT ![c] = "idle"] /\ "idle" \in Places
    BY <1>4, <1>b DEF handle_get_stream, Over, Await, Places
  <2> QED BY <1>2, <1>4, <2>1 DEF handle_get_stream, Runs, database
<1>5. ASSUME NEW c \in Clients, NEW u \in Hashes, handle_equivreport(c, u) PROVE ShareInv' /\ OutputsShare'
  BY <1>1, <1>5 DEF handle_equivreport
<1>6. ASSUME NEW c \in Clients, NEW o \in Outs, task[c] # None, o \in Output[task[c]], handle_report(c, o)
      PROVE  ShareInv' /\ OutputsShare'
  <2>1. /\ loop \in {None, c} /\ out' = [out EXCEPT ![c] = o] /\ UNCHANGED <<uni, task, local, meddled>>
        /\ pc' = [pc EXCEPT ![c] = "get_equivalent_for_outhash"]
        /\ insert_outhash(task[c], o, now + 1) /\ task[c] \in Hashes
    BY <1>6, <1>a, <1>b DEF handle_report, Runs, GoOn, history, Maybe
  <2>2. created'[task[c]][o] # 0
    <3>1. CASE created[task[c]][o] = 0
      <4>1. created' = [created EXCEPT ![task[c]][o] = now + 1]
        BY <2>1, <3>1 DEF insert_outhash
      <4>2. created'[task[c]][o] = now + 1
        BY <1>a, <2>1, <4>1
      <4> QED BY <1>a, <4>2
    <3> QED BY <2>1, <3>1 DEF insert_outhash
  <2>3. \A s \in Hashes, q \in Outs : created[s][q] # 0 => created'[s][q] # 0
    <3>1. CASE created[task[c]][o] = 0
      <4>1. created' = [created EXCEPT ![task[c]][o] = now + 1]
        BY <2>1, <3>1 DEF insert_outhash
      <4> QED BY <1>a, <2>1, <2>2, <4>1
    <3> QED BY <2>1, <3>1 DEF insert_outhash
  <2>4. \A d \in Clients \ {c} : pc'[d] = "idle"
    BY <1>a, <1>c, <2>1
  <2>5. pc'[c] = "get_equivalent_for_outhash" /\ out'[c] = o /\ task'[c] = task[c]
    BY <1>a, <2>1
  <2>6. \A d \in Clients : Calls(d)'
    BY <2>2, <2>4, <2>5
  <2>7. ~meddled => Rows' /\ Shared'
    BY <1>0, <2>1, <2>3 DEF Shared
  <2> QED BY <1>1, <2>1, <2>6, <2>7
<1>7. ASSUME NEW c \in Clients, NEW o \in Outs, report_readonly(c, o) PROVE ShareInv' /\ OutputsShare'
  <2>1. pc' = [pc EXCEPT ![c] = "idle"] /\ "idle" \in Places
    BY <1>7, <1>b DEF report_readonly, Tell, Drop, Over, Await, Places
  <2> QED BY <1>2, <1>7, <2>1 DEF report_readonly, Runs, database
<1>8. ASSUME NEW c \in Clients, handle_get(c) PROVE ShareInv' /\ OutputsShare'
  <2>1. pc' = [pc EXCEPT ![c] = "get_unihash"] /\ "get_unihash" \in Places
    BY <1>8 DEF handle_get, GoOn, Places
  <2> QED BY <1>2, <1>8, <2>1 DEF handle_get, Runs, database, history
<1>9. ASSUME NEW c \in Clients, get_unihash(c) \/ get_equivalent(c) PROVE ShareInv' /\ OutputsShare'
  <2>1. pc' = [pc EXCEPT ![c] = "idle"] /\ "idle" \in Places
    BY <1>9, <1>b DEF get_unihash, get_equivalent, Answer, Drop, Over, Await, Places
  <2> QED BY <1>2, <1>9, <2>1 DEF get_unihash, get_equivalent, Runs, database
<1>10. ASSUME NEW c \in Clients, get_equivalent_for_outhash(c) PROVE ShareInv' /\ OutputsShare'
  <2>1. /\ loop = c /\ pc[c] = "get_equivalent_for_outhash" /\ pc' = [pc EXCEPT ![c] = "insert_unihash"]
        /\ UNCHANGED <<uni, created, task, out, meddled>>
    BY <1>10, <1>b, <1>c DEF get_equivalent_for_outhash, Runs, GoOn, database, history
  <2>2. \A d \in Clients \ {c} : pc'[d] = "idle"
    BY <1>a, <1>c, <2>1
  <2>3. pc'[c] = "insert_unihash" /\ out[c] \in Outs /\ task[c] \in Hashes
    BY <1>a, <2>1 DEF HandlerInv, Maybe
  <2>4. ASSUME ~meddled, Output[task[c]] = {out[c]}, NEW s \in Hashes \ {task[c]}, Joined(s, out[c]) PROVE uni[s] = local'[c]
    <3>1. PICK r \in Hashes \ {task[c]} : Joined(r, out[c]) /\ local' = [local EXCEPT ![c] = uni[r]]
      BY <1>10, <2>4 DEF get_equivalent_for_outhash, Oldest
    <3>2. Output[s] = {out[c]} /\ Output[r] = {out[c]}
      BY <1>d, <2>3, <2>4, <3>1 DEF Joined
    <3>3. uni[s] = uni[r]
      BY <1>0, <2>3, <2>4, <3>1, <3>2 DEF Shared, Joined
    <3> QED BY <1>a, <3>1, <3>3
  <2>5. ~meddled => Calls(c)'
    BY <1>0, <2>1, <2>3, <2>4 DEF Joined
  <2> QED BY <1>0, <1>1, <2>1, <2>2, <2>5 DEF Shared
<1>11. ASSUME NEW c \in Clients, report_insert_unihash(c) PROVE ShareInv' /\ OutputsShare'
  <2> DEFINE t == task[c]
  <2>1. /\ loop \in {None, c} /\ pc[c] = "insert_unihash" /\ pc' = [pc EXCEPT ![c] = "get_unihash"]
        /\ insert_unihash(t, local[c]) /\ UNCHANGED <<created, meddled>>
    BY <1>11 DEF report_insert_unihash, Runs, GoOn
  <2>2. t \in Hashes /\ out[c] \in Outs /\ out[c] \in Output[t]
    BY <1>a, <2>1 DEF HandlerInv, ClassInv, BuildClass, Maybe
  <2>3. CASE uni[t] # None
    <3>1. uni' = uni /\ "get_unihash" \in Places
      BY <2>1, <2>3 DEF insert_unihash, Places
    <3> QED BY <1>2, <2>1, <3>1
  <2>4. CASE uni[t] = None
    <3>1. uni' = [uni EXCEPT ![t] = local[c]]
      BY <2>1, <2>4 DEF insert_unihash
    <3>2. \A d \in Clients : pc'[d] \notin {"get_equivalent_for_outhash", "insert_unihash"}
      BY <1>a, <1>c, <2>1
    <3>3. ~meddled => created[t][out[c]] # 0
      BY <1>0, <2>1
    <3>4. ~meddled => Rows'
      <4> SUFFICES ASSUME ~meddled, NEW s \in Hashes, NEW o \in Outs, uni'[s] # None, Output[s] = {o}
                   PROVE  created[s][o] # 0
        BY <2>1
      <4>1. CASE s = t
        BY <2>2, <3>3, <4>1
      <4>2. CASE s # t
        BY <1>0, <1>a, <3>1, <4>2
      <4> QED BY <4>1, <4>2
    <3>5. ASSUME ~meddled, NEW s \in Hashes, s # t, uni[s] # None, NEW o \in Outs, Output[s] = {o}, Output[t] = {o}
          PROVE  uni[s] = local[c]
      <4>1. o = out[c] /\ Joined(s, out[c])
        BY <1>0, <2>2, <3>5 DEF Joined
      <4> QED BY <1>0, <2>1, <3>5, <4>1
    <3>6. ~meddled => Shared'
      <4> SUFFICES ASSUME ~meddled, NEW r \in Hashes, NEW s \in Hashes, uni'[r] # None, uni'[s] # None,
                          NEW o \in Outs, Output[r] = {o}, Output[s] = {o}
                   PROVE  uni'[r] = uni'[s]
        BY DEF Shared
      <4>1. /\ uni'[t] = local[c]
            /\ \A q \in Hashes \ {t} : uni'[q] = uni[q]
        BY <1>a, <2>2, <3>1
      <4>2. CASE r = t \/ s = t
        BY <3>5, <4>1, <4>2
      <4>3. CASE r # t /\ s # t
        BY <1>0, <4>1, <4>3 DEF Shared
      <4> QED BY <4>2, <4>3
    <3> QED BY <1>1, <2>1, <3>2, <3>4, <3>6
  <2> QED BY <2>3, <2>4
<1>12. ASSUME NEW c \in Clients,
              \/ stream_answer(c) \/ taskhash_answer(c) \/ update_unified(c) \/ update_outhash(c)
              \/ UpstreamReads(c) \/ UpstreamFails(c)
       PROVE  FALSE
  BY <1>c, <1>12 DEF stream_answer, taskhash_answer, update_unified, update_outhash, Runs, UpstreamReads, UpstreamFails
<1>13. ASSUME NEW t \in Hashes, UpstreamForgets(t) \/ \E u \in Hashes : UpstreamLearns(t, u) PROVE FALSE
  BY <1>b, <1>13 DEF UpstreamForgets, UpstreamLearns
<1>14. CASE BackfillAsks \/ BackfillStores
  BY <1>b, <1>14 DEF BackfillAsks, BackfillStores
<1>15. ASSUME NEW S, DeleteUnihashes(S), created' = created, loop = None, pc' = pc, meddled' = meddled
       PROVE  ShareInv' /\ OutputsShare'
  BY <1>3, <1>15 DEF DeleteUnihashes
<1>16. ASSUME NEW m \in Marks, handle_gc_sweep(m) PROVE ShareInv' /\ OutputsShare'
  BY <1>15, <1>16, <1>b DEF handle_gc_sweep, gc_sweep, handler
<1>17. ASSUME NEW m \in Marks, NEW u \in Maybe(Hashes), handle_gc_mark(m, u) PROVE ShareInv' /\ OutputsShare'
  BY <1>3, <1>17 DEF handle_gc_mark, handler
<1>18. ASSUME NEW t \in Hashes, RemoveUnihash(t) PROVE ShareInv' /\ OutputsShare'
  BY <1>15, <1>18 DEF RemoveUnihash, handler
<1>19. ASSUME NEW t \in Hashes, RemoveTaskhash(t) PROVE ShareInv' /\ OutputsShare'
  <2>1. DeleteUnihashes({t}) /\ DeleteOuthashes({t} \X Outs)
    BY <1>19, <1>b DEF RemoveTaskhash
  <2>2. ASSUME NEW s \in Hashes, uni'[s] # None PROVE uni'[s] = uni[s] /\ created'[s] = created[s]
    <3>1. s # t /\ uni'[s] = uni[s]
      BY <2>1, <2>2 DEF DeleteUnihashes
    <3>2. created'[s] = [o \in Outs |-> created[s][o]]
      BY <2>1, <3>1 DEF DeleteOuthashes
    <3> QED BY <1>a, <3>1, <3>2
  <2> QED BY <1>3, <1>19, <2>2 DEF RemoveTaskhash, handler
<1>20. ASSUME NEW age \in Ages, handle_clean_unused(age) PROVE ShareInv' /\ OutputsShare'
  <2>1. ASSUME NEW s \in Hashes, uni'[s] # None PROVE uni'[s] = uni[s] /\ created'[s] = created[s]
    <3>1. uni' = uni
      BY <1>20 DEF handle_clean_unused
    <3>2. created'[s] = [o \in Outs |-> created[s][o]]
      BY <1>20, <2>1, <3>1 DEF handle_clean_unused, DeleteOuthashes
    <3> QED BY <1>a, <3>1, <3>2
  <2> QED BY <1>3, <1>20, <2>1 DEF handle_clean_unused, handler, history
<1>21. ASSUME NEW o \in Outs, RemoveOuthash(o) PROVE ShareInv' /\ OutputsShare'
  BY <1>1, <1>21 DEF RemoveOuthash
<1>22. CASE finish_gc_sweep \/ finish_remove
  BY <1>b, <1>22 DEF finish_gc_sweep, finish_remove, NoAdmin
<1>23. CASE Restart
  <2>1. pc' = [c \in Clients |-> "idle"] /\ UNCHANGED <<uni, created, meddled>>
    BY <1>23 DEF Restart, database, history
  <2> QED BY <1>0, <1>1, <2>1 DEF Shared
<1> HIDE DEF Rows, Calls
<1> QED
  BY <1>4, <1>5, <1>6, <1>7, <1>8, <1>9, <1>10, <1>11, <1>12, <1>13, <1>14, <1>16, <1>17, <1>18, <1>19, <1>20,
     <1>21, <1>22, <1>23, NextCases DEF Handler

\* Over sqlite, without an upstream server and unless someone declared otherwise, tasks
\* that always have the same one output share a unihash, if every task that can have
\* that output always has it.
THEOREM Sharing == Deterministic => (Spec => []OutputsShare)
<1> SUFFICES ASSUME Deterministic PROVE Spec => []OutputsShare
  OBVIOUS
<1> DEFINE Inv == AloneInv /\ ShareInv /\ OutputsShare
<1>1. Init => Inv
  <2>1. Init => OutputsShare
    BY DEF Init, OutputsShare, Shared
  <2> QED BY <2>1, InitAlone
<1>2. ASSUME TypeOK, HandlerInv, ClassInv, GCInv, Inv, Next PROVE Inv'
  <2>1. CASE Alone
    BY <1>2, <2>1, AloneStep, ShareStep
  <2>2. CASE ~Alone
    <3>1. backend' = backend /\ upstream' = upstream
      BY <1>2, SameServer DEF backend, upstream
    <3> QED BY <2>2, <3>1 DEF Alone, AloneInv, ShareInv, OutputsShare
  <2> QED BY <2>1, <2>2
<1>3. ASSUME Inv, UNCHANGED vars PROVE Inv'
  BY <1>3 DEF AloneInv, Alone, ShareInv, OutputsShare, Shared, Joined, backend, upstream, vars, database, backfill, handler, history
<1>4. TypeOK /\ HandlerInv /\ ClassInv /\ GCInv /\ Inv /\ [Next]_vars => Inv'
  BY <1>2, <1>3
<1> QED BY <1>1, <1>4, Core, GCAlways, PTL DEF Spec
=============================================================================
