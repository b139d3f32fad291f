------------------------------ MODULE PRServer ------------------------------
(***************************************************************************)
(* The PR service: a server that hands out package revisions from a table  *)
(* in SQLite (prserv/serv.py, prserv/db.py, "no history" mode, the one the *)
(* server runs in), and the clients that ask for them over asyncrpc        *)
(* (asyncrpc/client.py, asyncrpc/serv.py).                                 *)
(*                                                                         *)
(* The table is modelled for one (version, pkgarch): no query relates rows *)
(* of different ones.  A row's value is the revision of a checksum; Absent *)
(* stands for no row, and for the None that max(value) yields without one. *)
(* The requests that only read the table (test-pr, test-package,           *)
(* max-package-pr, export, is-readonly) change nothing and are left out.   *)
(*                                                                         *)
(* The server is one asyncio loop, so a request is handled in one step.    *)
(* The connection's open transaction is `rows', what is committed `disk':  *)
(* the process may be killed at any time, which discards the difference.   *)
(* A client gives up waiting after a timeout, closes its socket and sends  *)
(* the request again on a new one; the first request may still be handled. *)
(***************************************************************************)
EXTENDS Integers

CONSTANTS
  Clients,        \* the processes that ask for revisions
  Checksums,      \* the task checksums of one (version, pkgarch)
  ImportValues,   \* the values that import-one requests carry
  Modes,          \* the values of read_only the server is started with
  InitValues,     \* the values of rows in the database at first
  MaxCount,       \* retries of one request (3 in _send_wrapper)
  MaxIssues,      \* bound: requests of all clients
  Sockets,        \* bound: 1..Sockets are the connections of a client the server
                  \* has not read to the end
  MaxCrashes,     \* bound: times the server process is killed
  MaxValue        \* bound: the largest revision

ASSUME ChecksumAssumption == Checksums # {}
ASSUME ValueAssumption == MaxValue \in Nat
ASSUME CountAssumption == MaxCount \in Nat /\ MaxIssues \in Nat /\ Sockets \in Nat /\ MaxCrashes \in Nat
ASSUME ImportAssumption == ImportValues \subseteq 0..MaxValue
ASSUME InitAssumption == InitValues \subseteq 0..MaxValue /\ Modes \subseteq BOOLEAN

Absent == -1
Values == Absent..MaxValue
Tables == [Checksums -> Values]

Requests == [op : {"get-pr"}, checksum : Checksums, value : {0}]
              \cup [op : {"import-one"}, checksum : Checksums, value : ImportValues]

AnyRequest == CHOOSE r \in Requests : TRUE

\* What a client finds on its socket: nothing yet, an answer, or its end.
Answers == [kind : {"none", "value", "closed"}, value : Values]
NoAnswer == [kind |-> "none", value |-> Absent]

VARIABLES
  \* the server
  read_only,  \* PRServer.read_only
  srv,        \* "up", "stopping" (signal seen), "closing" (stop ran), "down"
  disk,       \* the committed table
  rows,       \* the table as the server's connection sees it
  dirty,      \* PRTable.dirty
  inbox,      \* requests on their way or in a socket of the server
  \* the clients
  pc,         \* "idle", "connect" or "wait"
  req,        \* the request in hand
  count,      \* the retries of it
  conn,       \* the connection the client waits on, or 0
  issued,     \* requests begun so far
  answer,     \* what arrived on the client's current connection
  \* history
  high,       \* the highest revision any client received
  floor,      \* the value of high when the client's request began
  given,      \* every <<checksum, revision>> the server answered to get-pr
  imported,   \* an import-one was handled
  crashes,
  lost        \* a crash discarded rows that were not committed

server == <<read_only, srv, disk, rows, dirty>>
client == <<pc, req, count, conn, issued, floor>>
history == <<given, imported>>
vars == <<server, inbox, client, answer, high, history, crashes, lost>>

-----------------------------------------------------------------------------
(* The database *)

\* SELECT max(value): m is the largest value of the table.
IsMax(t, m) == /\ \A c \in Checksums : t[c] <= m
               /\ m = Absent \/ \E c \in Checksums : t[c] = m

\* Mutant: ifnull(max(value), 0)
NextValue_Same(max) == IF max = Absent THEN 0 ELSE max

\* ifnull(max(value)+1, 0)
NextValue(max) == max + 1

\* commit(), unless the database is open for reading only
sync == disk' = IF read_only THEN disk ELSE rows

\* Mutant: stop() relies on the sync() of the signal handler.
sync_if_dirty_Never == UNCHANGED <<disk, dirty>>

\* sync() and the reset of dirty
sync_if_dirty == IF dirty THEN sync /\ dirty' = FALSE ELSE UNCHANGED <<disk, dirty>>

\* Tables that get-pr alone can have left: no two rows have the same value.
Distinct(t) == \A c, d \in Checksums : t[c] # Absent /\ t[c] = t[d] => c = d

Init ==
  /\ read_only \in Modes
  /\ srv = "up"
  /\ disk \in {t \in [Checksums -> InitValues \cup {Absent}] : Distinct(t)}
  /\ rows = disk
  /\ dirty = FALSE
  /\ inbox = {}
  /\ pc = [c \in Clients |-> "idle"]
  /\ req = [c \in Clients |-> AnyRequest]
  /\ count = [c \in Clients |-> 0]
  /\ conn = [c \in Clients |-> 0]
  /\ issued = 0
  /\ answer = [c \in Clients |-> NoAnswer]
  /\ high = Absent
  /\ floor = [c \in Clients |-> Absent]
  /\ given = {}
  /\ imported = FALSE
  /\ crashes = 0
  /\ lost = FALSE

-----------------------------------------------------------------------------
(* The clients *)

\* A caller invokes getPR or importone.
Issue(c, r) ==
  /\ pc[c] = "idle" /\ issued < MaxIssues
  /\ pc' = [pc EXCEPT ![c] = "connect"]
  /\ req' = [req EXCEPT ![c] = r]
  /\ issued' = issued + 1
  /\ floor' = [floor EXCEPT ![c] = high]
  /\ UNCHANGED <<server, inbox, count, conn, answer, high, history, crashes, lost>>

\* The lowest number that no unread request of the client goes by
Unused(c, s) == /\ \A m \in inbox : m.client = c => m.conn # s
                /\ \A t \in 1..(s - 1) : \E m \in inbox : m.client = c /\ m.conn = t

\* _send_wrapper: connect() finds or makes a connection, and the request is sent.
Connect(c) ==
  /\ pc[c] = "connect" /\ srv # "down"
  /\ pc' = [pc EXCEPT ![c] = "wait"]
  /\ \E s \in 1..Sockets :
       /\ Unused(c, s)
       /\ conn' = [conn EXCEPT ![c] = s]
       /\ inbox' = inbox \cup {[client |-> c, conn |-> s, req |-> req[c]]}
  /\ UNCHANGED <<server, req, count, issued, answer, high, floor, history, crashes, lost>>

\* The client closes its socket, or has read it empty.
Close(c) ==
  /\ conn' = [conn EXCEPT ![c] = 0]
  /\ answer' = [answer EXCEPT ![c] = NoAnswer]

\* The call ends, with a value or an error, and with it its local state.
Return(c) ==
  /\ pc' = [pc EXCEPT ![c] = "idle"]
  /\ count' = [count EXCEPT ![c] = 0]
  /\ req' = [req EXCEPT ![c] = AnyRequest]
  /\ floor' = [floor EXCEPT ![c] = Absent]

\* Another round of the loop of _send_wrapper
Again(c) ==
  /\ pc' = [pc EXCEPT ![c] = "connect"]
  /\ count' = [count EXCEPT ![c] = @ + 1]
  /\ UNCHANGED <<req, floor>>

\* Mutant: count is set to 0 inside the loop, so no retry is the last.
Retry_NoCount(c) ==
  /\ pc' = [pc EXCEPT ![c] = "connect"]
  /\ Close(c)
  /\ UNCHANGED <<server, inbox, req, count, issued, high, floor, history, crashes, lost>>

\* _send_wrapper's error path: close the connection and try again, or raise
\* ConnectionError to the caller after MaxCount retries.  In that case the code leaves the
\* connection open, but nobody uses the client again: the next request is a new client's.
Retry(c) ==
  /\ IF count[c] >= MaxCount THEN Return(c) ELSE Again(c)
  /\ Close(c)
  /\ UNCHANGED <<server, inbox, issued, high, history, crashes, lost>>

\* The connection cannot be made: the server does not listen, or the network fails.
Refused(c) == pc[c] = "connect" /\ Retry(c)

\* No answer reaches the client in time, though the server may have sent one,
\* or the connection is closed by the server.
TimedOut(c) == pc[c] = "wait" /\ Retry(c)

\* The answer is read and returned to the caller.
Receive(c) ==
  /\ pc[c] = "wait" /\ answer[c].kind = "value"
  /\ Return(c)
  /\ Close(c)
  /\ high' = IF answer[c].value > high THEN answer[c].value ELSE high
  /\ UNCHANGED <<server, inbox, issued, history, crashes, lost>>

-----------------------------------------------------------------------------
(* The server *)

\* The answer reaches the client unless it has closed that connection.
Reply(m, kind, v) ==
  /\ inbox' = inbox \ {m}
  /\ answer' = IF conn[m.client] = m.conn
                 THEN [answer EXCEPT ![m.client] = [kind |-> kind, value |-> v]]
                 ELSE answer

Serving == srv \in {"up", "stopping"}

\* Mutant: the row's own value, as in history mode.
IsTop_History(c, max) == rows[c] # Absent

\* The row is as high as any: its value is the answer.
IsTop(c, max) == rows[c] # Absent /\ rows[c] >= max

\* INSERT OR REPLACE of the next value, or the same value without a write
\* when the database is read only.
Allocate(c, v) ==
  IF read_only THEN UNCHANGED <<rows, dirty>>
               ELSE rows' = [rows EXCEPT ![c] = v] /\ dirty' = TRUE

\* The revision v is the answer to m.
Give(m, v) ==
  /\ Reply(m, "value", v)
  /\ given' = given \cup {<<m.req.checksum, v>>}

GiveTop(m, max) ==
  /\ IsTop(m.req.checksum, max)
  /\ Give(m, rows[m.req.checksum])
  /\ UNCHANGED <<rows, dirty>>

GiveNext(m, max) ==
  /\ ~IsTop(m.req.checksum, max) /\ max < MaxValue
  /\ Allocate(m.req.checksum, NextValue(max))
  /\ Give(m, NextValue(max))

\* get-pr: _get_value_no_hist
handle_get_pr(m) ==
  /\ \E max \in Values : IsMax(rows, max) /\ (GiveTop(m, max) \/ GiveNext(m, max))
  /\ UNCHANGED <<read_only, srv, disk, client, high, imported, crashes, lost>>

\* Mutant: UPDATE without AND value<?
Imported_Overwrite(old, v) == v

\* The row after INSERT, or after UPDATE ... AND value<? when there is one
Imported(old, v) == IF old < v THEN v ELSE old

\* import-one: _import_no_hist.  A read-only server answers None.
handle_import_one(m) ==
  LET c == m.req.checksum
      v == Imported(rows[c], m.req.value)
  IN /\ IF read_only
          THEN /\ Reply(m, "value", Absent)
               /\ UNCHANGED <<rows, dirty, imported>>
          ELSE /\ rows' = [rows EXCEPT ![c] = v]
               /\ dirty' = TRUE
               /\ imported' = TRUE
               /\ Reply(m, "value", v)
     /\ UNCHANGED <<read_only, srv, disk, client, high, given, crashes, lost>>

GetPr == \E m \in inbox : Serving /\ m.req.op = "get-pr" /\ handle_get_pr(m)
ImportOne == \E m \in inbox : Serving /\ m.req.op = "import-one" /\ handle_import_one(m)

\* A request that raises, such as a command this server does not know, commits
\* what other requests wrote; its connection is closed.  dirty stays set.  A
\* request that succeeds commits nothing: dispatch_message returns from its
\* try, which skips the else branch with sync_if_dirty.
DispatchRaises ==
  /\ Serving
  /\ sync
  /\ UNCHANGED <<read_only, srv, rows, dirty, inbox, client, answer, high, history, crashes, lost>>

\* After stop() the database is closed: a request raises, and so does the sync
\* that follows, and the connection is closed.
ClosedDatabase ==
  /\ srv = "closing"
  /\ \E m \in inbox : Reply(m, "closed", Absent)
  /\ UNCHANGED <<server, client, high, history, crashes, lost>>

\* SIGTERM, SIGINT or SIGQUIT: stop() is scheduled, then the table is committed.
signal_handler ==
  /\ Serving
  /\ srv' = "stopping"
  /\ sync
  /\ UNCHANGED <<read_only, rows, dirty, inbox, client, answer, high, history, crashes, lost>>

\* stop(): sync_if_dirty, and disconnect, which rolls back what is not committed
stop ==
  /\ srv = "stopping"
  /\ srv' = "closing"
  /\ sync_if_dirty
  /\ rows' = disk'
  /\ UNCHANGED <<read_only, inbox, client, answer, high, history, crashes, lost>>

\* The end of the process closes all connections.
HangUp ==
  /\ srv' = "down"
  /\ inbox' = {}
  /\ answer' = [c \in Clients |-> IF conn[c] # 0 /\ answer[c].kind = "none"
                                    THEN [kind |-> "closed", value |-> Absent] ELSE answer[c]]

\* serve_forever returns and the process ends.
Exit ==
  /\ srv = "closing"
  /\ HangUp
  /\ UNCHANGED <<read_only, disk, rows, dirty, client, high, history, crashes, lost>>

\* The process is killed: what is not committed is gone.
Crash ==
  /\ Serving /\ crashes < MaxCrashes
  /\ HangUp
  /\ rows' = disk
  /\ lost' = (lost \/ rows # disk)
  /\ crashes' = crashes + 1
  /\ UNCHANGED <<read_only, disk, dirty, client, high, history>>

\* PRServer.start on the same database
start ==
  /\ srv = "down"
  /\ srv' = "up"
  /\ rows' = disk
  /\ dirty' = FALSE
  /\ UNCHANGED <<read_only, disk, inbox, client, answer, high, history, crashes, lost>>

-----------------------------------------------------------------------------
ClientStep(c) == Connect(c) \/ Refused(c) \/ TimedOut(c) \/ Receive(c)

ServerStep == \/ GetPr \/ ImportOne \/ DispatchRaises \/ ClosedDatabase
              \/ signal_handler \/ stop \/ Exit \/ Crash \/ start

Next == \/ \E c \in Clients : ClientStep(c) \/ \E r \in Requests : Issue(c, r)
        \/ ServerStep

\* Every await of a client ends: with data, with the end of the connection or
\* with the timeout.  Nothing is assumed of the server.
Spec == Init /\ [][Next]_vars /\ \A c \in Clients : WF_vars(ClientStep(c))

-----------------------------------------------------------------------------
(* Properties *)

\* The state has the types of the code, and a request is retried at most
\* MaxCount times.
TypeOK ==
  /\ read_only \in BOOLEAN /\ dirty \in BOOLEAN
  /\ srv \in {"up", "stopping", "closing", "down"}
  /\ disk \in Tables /\ rows \in Tables
  /\ inbox \subseteq [client : Clients, conn : 1..Sockets, req : Requests]
  /\ pc \in [Clients -> {"idle", "connect", "wait"}]
  /\ req \in [Clients -> Requests]
  /\ count \in [Clients -> 0..MaxCount]
  /\ conn \in [Clients -> 0..Sockets]
  /\ issued \in 0..MaxIssues
  /\ answer \in [Clients -> Answers]
  /\ high \in Values /\ floor \in [Clients -> Values]
  /\ given \subseteq Checksums \X Values
  /\ imported \in BOOLEAN /\ lost \in BOOLEAN
  /\ crashes \in 0..MaxCrashes

\* "The PR value returned can NOT be decremented" (db.py): the answer to a
\* request is no lower than any revision that a client had received when the
\* request began.
NeverDecremented ==
  \A c \in Clients :
    pc[c] = "wait" /\ answer[c].kind = "value" /\ req[c].op = "get-pr"
      => answer[c].value >= floor[c]

\* The promise holds across retries, late duplicates, imports, stops and
\* restarts, of a server that may write and as long as no kill discarded
\* uncommitted rows.
NoDecrement == ~lost /\ ~read_only => NeverDecremented

\* Without imports, a revision is never given to two checksums, not even by
\* an answer that no client waits for any more.
Unique ==
  ~lost /\ ~read_only /\ ~imported
    => \A p, q \in given : p[2] = q[2] => p[1] = q[1]

\* Once the server has stopped, whatever requests were handled between the
\* signal and stop(), no revision it ever answered is above the database's
\* highest: the next server goes on from there.
CleanStopKeeps ==
  srv \in {"closing", "down"} /\ ~lost /\ ~read_only
    => \A p \in given : \E c \in Checksums : disk[c] >= p[2]

\* No row of the database is ever lowered or removed, by any order of
\* allocations, imports, commits, kills and restarts.
CommittedKept == [][\A c \in Checksums : disk'[c] >= disk[c]]_disk

\* Every call of a client returns or raises ConnectionError, whatever the
\* server does.
RequestEnds == \A c \in Clients : pc[c] # "idle" ~> pc[c] = "idle"

=============================================================================
