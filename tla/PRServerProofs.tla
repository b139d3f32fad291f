--------------------------- MODULE PRServerProofs ---------------------------
(***************************************************************************)
(* Proofs about the PR service, for any number of clients, checksums,      *)
(* requests, retries, kills and restarts.                                  *)
(*                                                                         *)
(* The argument: the open transaction is never behind the database, and    *)
(* differs from it only while dirty is set (CommitInv); an unread request  *)
(* on a client's current connection is the client's current request        *)
(* (ConnInv); every revision that was answered is at most the highest row, *)
(* until a kill discards rows (HighInv); and no other checksum's row has   *)
(* the value of a revision that was answered (OwnerInv).                   *)
(***************************************************************************)
EXTENDS PRServer, TLAPS

ConnInv ==
  /\ \A c \in Clients : pc[c] # "wait" => conn[c] = 0
  /\ \A c \in Clients : conn[c] = 0 => answer[c] = NoAnswer
  /\ \A m \in inbox : conn[m.client] = m.conn => m.req = req[m.client]

CommitInv ==
  /\ \A c \in Checksums : disk[c] <= rows[c]
  /\ read_only => rows = disk
  /\ ~Serving => rows = disk
  /\ ~dirty => rows = disk

\* v is not above the highest row.
Below(v) == \E c \in Checksums : rows[c] >= v

HighInv ==
  /\ \A c \in Clients : floor[c] <= high
  /\ ~lost /\ ~read_only =>
       /\ Below(high)
       /\ \A p \in given : Below(p[2])
       /\ \A c \in Clients : answer[c].kind = "value" => Below(answer[c].value)

OwnerInv ==
  ~lost /\ ~read_only /\ ~imported =>
    /\ Distinct(rows)
    /\ \A p \in given : \A c \in Checksums : rows[c] = p[2] => c = p[1]

-----------------------------------------------------------------------------
(* Types *)

LEMMA AnyRequestType == AnyRequest \in Requests
<1>1. PICK c \in Checksums : TRUE
  BY ChecksumAssumption
<1>2. [op |-> "get-pr", checksum |-> c, value |-> 0] \in Requests
  BY DEF Requests
<1> QED BY <1>2 DEF AnyRequest

LEMMA InitType == Init => TypeOK
<1> SUFFICES ASSUME Init PROVE TypeOK
  OBVIOUS
<1>1. AnyRequest \in Requests
  BY AnyRequestType
<1>2. disk \in Tables /\ rows \in Tables
  <2>1. InitValues \cup {Absent} \subseteq Values
    BY InitAssumption, ValueAssumption DEF Values, Absent
  <2>2. disk \in [Checksums -> InitValues \cup {Absent}] /\ rows = disk
    BY DEF Init
  <2> QED BY <2>1, <2>2 DEF Tables
<1>3. NoAnswer \in Answers /\ Absent \in Values
  BY ValueAssumption DEF NoAnswer, Answers, Values, Absent
<1>4. read_only \in BOOLEAN
  BY InitAssumption DEF Init
<1>5. count \in [Clients -> 0..MaxCount] /\ conn \in [Clients -> 0..Sockets]
  BY CountAssumption DEF Init
<1>6. issued \in 0..MaxIssues /\ crashes \in 0..MaxCrashes
  BY CountAssumption DEF Init
<1>7. dirty \in BOOLEAN /\ imported \in BOOLEAN /\ lost \in BOOLEAN
  BY Zenon DEF Init
<1>8. /\ req \in [Clients -> Requests] /\ answer \in [Clients -> Answers]
      /\ high \in Values /\ floor \in [Clients -> Values]
  BY <1>1, <1>3 DEF Init
<1>9. /\ inbox = {} /\ given = {} /\ srv = "up"
      /\ pc \in [Clients -> {"idle", "connect", "wait"}]
  BY DEF Init
<1> QED BY <1>2, <1>4, <1>5, <1>6, <1>7, <1>8, <1>9, Zenon DEF TypeOK

\* The types of the messages and answers a request leads to
LEMMA ReplyType ==
  ASSUME TypeOK, NEW m \in inbox, NEW kind \in {"none", "value", "closed"},
         NEW v \in Values, Reply(m, kind, v)
  PROVE  /\ inbox' \subseteq [client : Clients, conn : 1..Sockets, req : Requests]
         /\ answer' \in [Clients -> Answers]
BY DEF TypeOK, Reply, Answers

LEMMA RequestType ==
  ASSUME NEW r \in Requests
  PROVE  /\ r.checksum \in Checksums
         /\ r.op = "import-one" => r.value \in 0..MaxValue
BY ImportAssumption DEF Requests

\* What get-pr does: the answer v is the value of the checksum's row, which is
\* as high as any, or above every row; then it is stored, unless the server is
\* read only.
LEMMA GetPrEffect ==
  ASSUME TypeOK, NEW m \in inbox, handle_get_pr(m)
  PROVE  \E v \in Values :
           /\ Reply(m, "value", v)
           /\ given' = given \cup {<<m.req.checksum, v>>}
           /\ \/ /\ rows[m.req.checksum] = v /\ v # Absent
                 /\ \A d \in Checksums : rows[d] <= v
                 /\ rows' = rows /\ dirty' = dirty
              \/ /\ \A d \in Checksums : rows[d] < v
                 /\ \/ read_only /\ rows' = rows /\ dirty' = dirty
                    \/ ~read_only /\ rows' = [rows EXCEPT ![m.req.checksum] = v] /\ dirty' = TRUE
<1> USE ValueAssumption
<1> DEFINE c == m.req.checksum
<1>1. c \in Checksums
  BY RequestType DEF TypeOK
<1>2. PICK max \in Values : IsMax(rows, max) /\ (GiveTop(m, max) \/ GiveNext(m, max))
  BY DEF handle_get_pr
<1>3. \A d \in Checksums : rows[d] \in Values /\ rows[d] <= max
  BY <1>2 DEF IsMax, TypeOK, Tables
<1>4. CASE GiveTop(m, max)
  <2>1. rows[c] \in Values /\ rows[c] # Absent /\ \A d \in Checksums : rows[d] <= rows[c]
    BY <1>1, <1>3, <1>4 DEF GiveTop, IsTop, Values, Absent
  <2> QED BY <1>4, <2>1 DEF GiveTop, Give
<1>5. CASE GiveNext(m, max)
  <2>1. NextValue(max) \in Values /\ \A d \in Checksums : rows[d] < NextValue(max)
    BY <1>3, <1>5 DEF GiveNext, NextValue, Values, Absent
  <2>2. \/ read_only /\ rows' = rows /\ dirty' = dirty
        \/ ~read_only /\ rows' = [rows EXCEPT ![c] = NextValue(max)] /\ dirty' = TRUE
    BY <1>5 DEF GiveNext, Allocate
  <2>3. Reply(m, "value", NextValue(max)) /\ given' = given \cup {<<c, NextValue(max)>>}
    BY <1>5 DEF GiveNext, Give
  <2> HIDE DEF c
  <2> QED BY <2>1, <2>2, <2>3 DEF c
<1> QED BY <1>2, <1>4, <1>5

\* What import-one does: a row is raised, or a read-only server answers None.
LEMMA ImportEffect ==
  ASSUME TypeOK, NEW m \in inbox, m.req.op = "import-one", handle_import_one(m)
  PROVE  \E v \in Values :
           /\ Reply(m, "value", v)
           /\ \/ /\ read_only /\ v = Absent
                 /\ rows' = rows /\ dirty' = dirty /\ imported' = imported
              \/ /\ ~read_only /\ rows[m.req.checksum] <= v
                 /\ rows' = [rows EXCEPT ![m.req.checksum] = v]
                 /\ dirty' = TRUE /\ imported' = TRUE
<1> USE ValueAssumption
<1> DEFINE c == m.req.checksum
           v == Imported(rows[c], m.req.value)
<1>1. c \in Checksums /\ m.req.value \in 0..MaxValue
  BY RequestType DEF TypeOK
<1>2. v \in Values /\ rows[c] <= v
  BY <1>1 DEF Imported, TypeOK, Tables, Values, Absent
<1>3. Absent \in Values
  BY DEF Values, Absent
<1>4. CASE read_only
  BY <1>3, <1>4 DEF handle_import_one
<1>5. CASE ~read_only
  <2>1. rows' = [rows EXCEPT ![c] = v] /\ dirty' = TRUE /\ imported' = TRUE /\ Reply(m, "value", v)
    BY <1>5 DEF handle_import_one
  <2> HIDE DEF v
  <2> QED BY <1>2, <1>5, <2>1
<1> QED BY <1>4, <1>5

LEMMA NextType == TypeOK /\ [Next]_vars => TypeOK'
<1> SUFFICES ASSUME TypeOK, [Next]_vars PROVE TypeOK'
  OBVIOUS
<1> USE CountAssumption, ValueAssumption
<1>0. NoAnswer \in Answers /\ Absent \in Values
  BY DEF NoAnswer, Answers, Values, Absent
<1>1. ASSUME NEW c \in Clients, NEW r \in Requests, Issue(c, r) PROVE TypeOK'
  BY <1>1 DEF TypeOK, Issue, server, history
<1>2. ASSUME NEW c \in Clients, Connect(c) PROVE TypeOK'
  BY <1>2 DEF TypeOK, Connect, server, history
<1>3. ASSUME NEW c \in Clients, Retry(c) PROVE TypeOK'
  <2>1. CASE count[c] >= MaxCount
    BY <1>0, <1>3, <2>1, AnyRequestType DEF TypeOK, Retry, Return, Close, server, history
  <2>2. CASE ~(count[c] >= MaxCount)
    BY <1>0, <1>3, <2>2 DEF TypeOK, Retry, Again, Close, server, history
  <2> QED BY <2>1, <2>2
<1>4. ASSUME NEW c \in Clients, Receive(c) PROVE TypeOK'
  <2>1. answer[c].value \in Values
    BY DEF TypeOK, Answers
  <2> QED BY <1>0, <1>4, <2>1, AnyRequestType
        DEF TypeOK, Receive, Return, Close, server, history
<1>5. ASSUME NEW m \in inbox, handle_get_pr(m) PROVE TypeOK'
  <2>1. m.req.checksum \in Checksums
    BY RequestType DEF TypeOK
  <2>2. PICK v \in Values :
          /\ Reply(m, "value", v)
          /\ given' = given \cup {<<m.req.checksum, v>>}
          /\ \/ rows' = rows /\ dirty' = dirty
             \/ rows' = [rows EXCEPT ![m.req.checksum] = v] /\ dirty' = TRUE
    BY <1>5, GetPrEffect
  <2>3. rows' \in Tables /\ given' \subseteq Checksums \X Values
    BY <2>1, <2>2 DEF TypeOK, Tables
  <2>5. dirty' \in BOOLEAN
    BY <2>2, Zenon DEF TypeOK
  <2>4. UNCHANGED <<read_only, srv, disk, pc, req, count, conn, issued, floor, high, imported, crashes, lost>>
    BY <1>5 DEF handle_get_pr, client
  <2> QED BY <2>2, <2>3, <2>4, <2>5, ReplyType DEF TypeOK
<1>6. ASSUME NEW m \in inbox, m.req.op = "import-one", handle_import_one(m) PROVE TypeOK'
  <2>1. m.req.checksum \in Checksums
    BY RequestType DEF TypeOK
  <2>2. PICK v \in Values :
          /\ Reply(m, "value", v)
          /\ \/ rows' = rows /\ dirty' = dirty /\ imported' = imported
             \/ rows' = [rows EXCEPT ![m.req.checksum] = v] /\ dirty' = TRUE /\ imported' = TRUE
    BY <1>6, ImportEffect
  <2>3. rows' \in Tables
    BY <2>1, <2>2 DEF TypeOK, Tables
  <2>5. dirty' \in BOOLEAN /\ imported' \in BOOLEAN
    BY <2>2, Zenon DEF TypeOK
  <2>4. UNCHANGED <<read_only, srv, disk, pc, req, count, conn, issued, floor, high, given, crashes, lost>>
    BY <1>6 DEF handle_import_one, client
  <2> QED BY <2>2, <2>3, <2>4, <2>5, ReplyType DEF TypeOK
<1>7. CASE DispatchRaises \/ signal_handler
  BY <1>7 DEF TypeOK, DispatchRaises, signal_handler, sync, client, history
<1>8. CASE ClosedDatabase
  <2>1. PICK m \in inbox : Reply(m, "closed", Absent)
    BY <1>8 DEF ClosedDatabase
  <2>2. UNCHANGED <<server, client, high, history, crashes, lost>>
    BY <1>8 DEF ClosedDatabase
  <2> QED BY <1>0, <2>1, <2>2, ReplyType DEF TypeOK, server, client, history
<1>9. CASE stop
  BY <1>9 DEF TypeOK, stop, sync_if_dirty, sync, client, history
<1>10. CASE Exit \/ Crash
  <2>1. HangUp
    BY <1>10 DEF Exit, Crash
  <2>2. answer' \in [Clients -> Answers] /\ inbox' = {} /\ srv' = "down"
    BY <1>0, <2>1 DEF HangUp, TypeOK, Answers
  <2>3. rows' \in Tables /\ crashes' \in 0..MaxCrashes
    BY <1>10 DEF Exit, Crash, TypeOK
  <2>5. lost' \in BOOLEAN
    BY <1>10, Zenon DEF Exit, Crash, TypeOK
  <2>4. UNCHANGED <<read_only, disk, dirty, pc, req, count, conn, issued, floor, high, given, imported>>
    BY <1>10 DEF Exit, Crash, client, history
  <2> QED BY <2>2, <2>3, <2>4, <2>5 DEF TypeOK
<1>11. CASE start
  BY <1>11 DEF TypeOK, start, client, history
<1>12. CASE UNCHANGED vars
  BY <1>12 DEF TypeOK, vars, server, client, history
<1> QED
  BY <1>1, <1>2, <1>3, <1>4, <1>5, <1>6, <1>7, <1>8, <1>9, <1>10, <1>11, <1>12
     DEF Next, ClientStep, ServerStep, Refused, TimedOut, GetPr, ImportOne

\* The state has the types of the code and every retry counter stays within
\* _send_wrapper's limit, whatever clients and server do.
THEOREM TypeCorrect == Spec => []TypeOK
BY InitType, NextType, PTL DEF Spec

-----------------------------------------------------------------------------
(* Connections *)

LEMMA InitConn == Init => ConnInv
BY DEF Init, ConnInv

LEMMA ReplyConn ==
  ASSUME TypeOK, ConnInv, NEW m \in inbox, NEW kind, NEW v, Reply(m, kind, v),
         UNCHANGED <<pc, conn, req>>
  PROVE  ConnInv'
<1>1. m.client \in Clients /\ m.conn # 0
  BY DEF TypeOK
<1>2. \A c \in Clients : conn[c] = 0 => answer'[c] = NoAnswer
  BY <1>1 DEF ConnInv, Reply, TypeOK
<1>3. inbox' \subseteq inbox
  BY DEF Reply
<1> QED BY <1>2, <1>3 DEF ConnInv

LEMMA NextConn == TypeOK /\ ConnInv /\ [Next]_vars => ConnInv'
<1> SUFFICES ASSUME TypeOK, ConnInv, [Next]_vars PROVE ConnInv'
  OBVIOUS
<1>1. ASSUME NEW c \in Clients, NEW r \in Requests, Issue(c, r) PROVE ConnInv'
  <2>1. conn[c] = 0
    BY <1>1 DEF Issue, ConnInv
  <2>2. \A m \in inbox : m.conn # 0 /\ m.client \in Clients
    BY DEF TypeOK
  <2> QED BY <1>1, <2>1, <2>2 DEF ConnInv, Issue, TypeOK
<1>2. ASSUME NEW c \in Clients, Connect(c) PROVE ConnInv'
  <2>1. PICK s \in 1..Sockets :
          /\ Unused(c, s)
          /\ conn' = [conn EXCEPT ![c] = s]
          /\ inbox' = inbox \cup {[client |-> c, conn |-> s, req |-> req[c]]}
    BY <1>2 DEF Connect
  <2>2. pc' = [pc EXCEPT ![c] = "wait"] /\ UNCHANGED <<req, answer>>
    BY <1>2 DEF Connect
  <2>3. s # 0
    BY CountAssumption
  <2>4. \A d \in Clients : pc'[d] # "wait" => conn'[d] = 0
    BY <2>1, <2>2 DEF ConnInv, TypeOK
  <2>5. \A d \in Clients : conn'[d] = 0 => answer'[d] = NoAnswer
    BY <2>1, <2>2, <2>3 DEF ConnInv, TypeOK
  <2>6. \A m \in inbox' : conn'[m.client] = m.conn => m.req = req'[m.client]
    BY <2>1, <2>2 DEF ConnInv, TypeOK, Unused
  <2> QED BY <2>4, <2>5, <2>6 DEF ConnInv
<1>3. ASSUME NEW c \in Clients, Close(c), pc' = [pc EXCEPT ![c] = "idle"] \/ pc' = [pc EXCEPT ![c] = "connect"],
             \/ UNCHANGED req \/ req' = [req EXCEPT ![c] = AnyRequest],
             UNCHANGED inbox
      PROVE ConnInv'
  <2>1. conn' = [conn EXCEPT ![c] = 0] /\ answer' = [answer EXCEPT ![c] = NoAnswer]
    BY <1>3 DEF Close
  <2>2. \A m \in inbox : m.conn # 0 /\ m.client \in Clients
    BY DEF TypeOK
  <2> QED BY <1>3, <2>1, <2>2 DEF ConnInv, TypeOK
<1>4. ASSUME NEW c \in Clients, Retry(c) \/ Receive(c) PROVE ConnInv'
  BY <1>3, <1>4 DEF Retry, Receive, Return, Again
<1>5. ASSUME NEW m \in inbox, handle_get_pr(m) PROVE ConnInv'
  <2>1. \E v \in Values : Reply(m, "value", v)
    BY <1>5, GetPrEffect
  <2> QED BY <1>5, <2>1, ReplyConn DEF handle_get_pr, client
<1>6. ASSUME NEW m \in inbox, m.req.op = "import-one", handle_import_one(m) PROVE ConnInv'
  <2>1. \E v \in Values : Reply(m, "value", v)
    BY <1>6, ImportEffect
  <2> QED BY <1>6, <2>1, ReplyConn DEF handle_import_one, client
<1>7. CASE ClosedDatabase
  BY <1>7, ReplyConn DEF ClosedDatabase, client
<1>8. CASE Exit \/ Crash
  BY <1>8 DEF Exit, Crash, HangUp, ConnInv, client, TypeOK
<1>9. CASE DispatchRaises \/ signal_handler \/ stop \/ start
  BY <1>9 DEF ConnInv, DispatchRaises, signal_handler, stop, start, client
<1>10. CASE UNCHANGED vars
  BY <1>10 DEF ConnInv, vars, client
<1> QED
  BY <1>1, <1>2, <1>4, <1>5, <1>6, <1>7, <1>8, <1>9, <1>10
     DEF Next, ClientStep, ServerStep, Refused, TimedOut, GetPr, ImportOne

-----------------------------------------------------------------------------
(* The database and the open transaction *)

LEMMA InitCommit == Init => CommitInv
<1> SUFFICES ASSUME Init PROVE CommitInv
  OBVIOUS
<1>1. \A c \in Checksums : disk[c] <= rows[c]
  <2>1. rows \in [Checksums -> Values] /\ disk = rows
    BY InitType DEF Init, TypeOK, Tables
  <2> QED BY <2>1, ValueAssumption DEF Values, Absent
<1> QED BY <1>1 DEF Init, CommitInv

LEMMA NextCommit == TypeOK /\ CommitInv /\ [Next]_vars => CommitInv'
<1> SUFFICES ASSUME TypeOK, CommitInv, [Next]_vars PROVE CommitInv'
  OBVIOUS
<1> USE ValueAssumption
<1>0. \A c \in Checksums : disk[c] \in Int /\ rows[c] \in Int
  BY DEF TypeOK, Tables, Values, Absent
<1>1. ASSUME NEW c \in Clients, NEW r \in Requests, Issue(c, r) PROVE CommitInv'
  BY <1>1 DEF Issue, server, CommitInv, Serving
<1>2. ASSUME NEW c \in Clients, ClientStep(c) PROVE CommitInv'
  BY <1>2 DEF ClientStep, Connect, Refused, TimedOut, Retry, Receive, server, CommitInv, Serving
<1>3. ASSUME NEW m \in inbox, Serving, handle_get_pr(m) PROVE CommitInv'
  <2>1. PICK v \in Values :
          \/ rows' = rows /\ dirty' = dirty
          \/ /\ ~read_only /\ rows' = [rows EXCEPT ![m.req.checksum] = v] /\ dirty' = TRUE
             /\ \A d \in Checksums : rows[d] < v
    BY <1>3, GetPrEffect
  <2>2. UNCHANGED <<read_only, srv, disk>>
    BY <1>3 DEF handle_get_pr
  <2>3. v \in Int
    BY DEF Values, Absent
  <2> QED BY <1>0, <1>3, <2>1, <2>2, <2>3 DEF CommitInv, Serving, TypeOK, Tables
<1>4. ASSUME NEW m \in inbox, m.req.op = "import-one", Serving, handle_import_one(m) PROVE CommitInv'
  <2>1. PICK v \in Values :
          \/ rows' = rows /\ dirty' = dirty
          \/ /\ ~read_only /\ rows' = [rows EXCEPT ![m.req.checksum] = v] /\ dirty' = TRUE
             /\ rows[m.req.checksum] <= v
    BY <1>4, ImportEffect
  <2>2. UNCHANGED <<read_only, srv, disk>>
    BY <1>4 DEF handle_import_one
  <2>3. v \in Int
    BY DEF Values, Absent
  <2> QED BY <1>0, <1>4, <2>1, <2>2, <2>3 DEF CommitInv, Serving, TypeOK, Tables
<1>5. CASE DispatchRaises \/ signal_handler
  BY <1>0, <1>5 DEF CommitInv, DispatchRaises, signal_handler, sync, Serving
<1>6. CASE stop
  <2>1. rows' = disk' /\ srv' = "closing"
    BY <1>6 DEF stop
  <2>2. disk' = disk \/ disk' = rows
    BY <1>6 DEF stop, sync_if_dirty, sync
  <2>3. \A c \in Checksums : disk'[c] <= rows'[c]
    BY <1>0, <2>1, <2>2
  <2> QED BY <2>1, <2>3 DEF CommitInv
<1>7. CASE ClosedDatabase
  BY <1>7 DEF CommitInv, ClosedDatabase, server, Serving
<1>8. CASE Exit
  BY <1>8 DEF CommitInv, Exit, HangUp, Serving
<1>9. CASE Crash \/ start
  BY <1>0, <1>9 DEF CommitInv, Crash, start
<1>10. CASE UNCHANGED vars
  BY <1>10 DEF CommitInv, vars, server, Serving
<1> QED
  BY <1>1, <1>2, <1>3, <1>4, <1>5, <1>6, <1>7, <1>8, <1>9, <1>10
     DEF Next, ServerStep, GetPr, ImportOne

-----------------------------------------------------------------------------
(* The revisions that were answered *)

\* Below is kept when rows only grow.
LEMMA BelowGrows ==
  ASSUME TypeOK, TypeOK', \A c \in Checksums : rows[c] <= rows'[c],
         NEW v \in Values, Below(v)
  PROVE  Below(v)'
<1>1. PICK c \in Checksums : rows[c] >= v
  BY DEF Below
<1>2. rows[c] \in Int /\ rows'[c] \in Int /\ v \in Int
  BY ValueAssumption DEF TypeOK, Tables, Values, Absent
<1>3. rows'[c] >= v
  BY <1>1, <1>2
<1> QED BY <1>3 DEF Below

LEMMA InitHigh == Init => HighInv
<1> SUFFICES ASSUME Init PROVE HighInv
  OBVIOUS
<1>1. PICK c \in Checksums : TRUE
  BY ChecksumAssumption
<1>2. rows[c] \in Values
  BY InitType DEF TypeOK, Tables
<1>3. Below(Absent)
  BY <1>2, ValueAssumption DEF Below, Values, Absent
<1>4. \A d \in Clients : floor[d] <= high
  BY DEF Init, Absent
<1>5. \A d \in Clients : answer[d].kind # "value"
  BY DEF Init, NoAnswer
<1>6. high = Absent /\ given = {}
  BY DEF Init
<1> QED BY <1>3, <1>4, <1>5, <1>6 DEF HighInv

\* An answer that is below the rows keeps the bounds when the rows grow.
LEMMA ReplyHigh ==
  ASSUME TypeOK, TypeOK', HighInv, NEW m \in inbox, NEW kind, NEW v \in Values,
         Reply(m, kind, v), \A c \in Checksums : rows[c] <= rows'[c],
         ~lost /\ ~read_only => Below(v)',
         \A p \in given' : p \in given \/ p[2] = v,
         UNCHANGED <<floor, high, lost, read_only>>
  PROVE  HighInv'
<1>1. \A c \in Clients : floor'[c] <= high'
  BY DEF HighInv
<1>2. ASSUME ~lost', ~read_only' PROVE Below(high)'
  BY <1>2, BelowGrows DEF HighInv, TypeOK
<1>3. ASSUME ~lost', ~read_only', NEW p \in given' PROVE Below(p[2])'
  <2>1. CASE p \in given
    <3>1. p[2] \in Values /\ Below(p[2])
      BY <1>3, <2>1 DEF TypeOK, HighInv
    <3> QED BY <3>1, BelowGrows DEF Below
  <2>2. CASE p[2] = v
    BY <1>3, <2>2 DEF Below
  <2> QED BY <2>1, <2>2
<1>4. ASSUME ~lost', ~read_only', NEW c \in Clients, answer'[c].kind = "value"
      PROVE  Below(answer[c].value)'
  <2>1. CASE answer'[c] = answer[c]
    <3>1. answer[c].value \in Values /\ Below(answer[c].value)
      BY <1>4, <2>1 DEF TypeOK, Answers, HighInv
    <3> QED BY <2>1, <3>1, BelowGrows DEF Below
  <2>2. CASE answer'[c] # answer[c]
    <3>1. answer'[c] = [kind |-> kind, value |-> v]
      BY <2>2 DEF Reply, TypeOK
    <3> QED BY <1>4, <3>1 DEF Below
  <2> QED BY <2>1, <2>2
<1> QED BY <1>1, <1>2, <1>3, <1>4 DEF HighInv

LEMMA NextHigh == TypeOK /\ CommitInv /\ HighInv /\ [Next]_vars => HighInv'
<1> SUFFICES ASSUME TypeOK, CommitInv, HighInv, [Next]_vars PROVE HighInv'
  OBVIOUS
<1> USE ValueAssumption
<1>a. TypeOK'
  BY NextType
<1>b. /\ \A c \in Checksums : rows[c] \in Int /\ rows'[c] \in Int
      /\ \A c \in Clients : floor[c] \in Int /\ answer[c].value \in Int
      /\ high \in Int
  BY <1>a DEF TypeOK, Tables, Values, Absent, Answers
<1>1. ASSUME NEW c \in Clients, NEW r \in Requests, Issue(c, r) PROVE HighInv'
  BY <1>1, <1>b DEF Issue, HighInv, Below, server, history, TypeOK
<1>2. ASSUME NEW c \in Clients, Connect(c) PROVE HighInv'
  BY <1>2 DEF Connect, HighInv, Below, server, history
<1>3. ASSUME NEW c \in Clients, Close(c),
             floor' = floor \/ (floor' = [floor EXCEPT ![c] = Absent]),
             UNCHANGED <<rows, read_only, given, lost>>,
             \/ UNCHANGED high
             \/ /\ high' = (IF answer[c].value > high THEN answer[c].value ELSE high)
                /\ answer[c].kind = "value"
      PROVE HighInv'
  <2>1. answer' = [answer EXCEPT ![c] = NoAnswer]
    BY <1>3 DEF Close
  <2>2. high' \in Int /\ high <= high' /\ Absent <= high
    BY <1>3, <1>b DEF TypeOK, Values, Absent
  <2>3. \A d \in Clients : floor'[d] <= high'
    BY <1>3, <1>b, <2>2 DEF HighInv, TypeOK, Absent
  <2>4. \A d \in Clients : answer'[d].kind = "value" => answer'[d] = answer[d]
    BY <2>1 DEF TypeOK, NoAnswer
  <2>5. ~lost /\ ~read_only => Below(high')
    BY <1>3 DEF HighInv
  <2> QED BY <1>3, <2>3, <2>4, <2>5 DEF HighInv, Below
<1>4. ASSUME NEW c \in Clients, Retry(c) PROVE HighInv'
  BY <1>3, <1>4 DEF Retry, Return, Again, server, history
<1>5. ASSUME NEW c \in Clients, Receive(c) PROVE HighInv'
  BY <1>3, <1>5 DEF Receive, Return, server, history
<1>6. ASSUME NEW m \in inbox, handle_get_pr(m) PROVE HighInv'
  <2>1. m.req.checksum \in Checksums
    BY RequestType DEF TypeOK
  <2>2. PICK v \in Values :
          /\ Reply(m, "value", v)
          /\ given' = given \cup {<<m.req.checksum, v>>}
          /\ \/ rows[m.req.checksum] = v /\ rows' = rows
             \/ /\ \A d \in Checksums : rows[d] < v
                /\ \/ read_only /\ rows' = rows
                   \/ rows' = [rows EXCEPT ![m.req.checksum] = v]
    BY <1>6, GetPrEffect
  <2>3. v \in Int
    BY DEF Values, Absent
  <2>4. \A c \in Checksums : rows[c] <= rows'[c]
    BY <1>b, <2>1, <2>2, <2>3 DEF TypeOK, Tables
  <2>5. read_only \/ rows'[m.req.checksum] = v
    BY <2>1, <2>2 DEF TypeOK, Tables
  <2>6. ~lost /\ ~read_only => Below(v)'
    BY <2>1, <2>3, <2>5 DEF Below
  <2>7. UNCHANGED <<floor, high, lost, read_only>>
    BY <1>6 DEF handle_get_pr, client
  <2>8. \A p \in given' : p \in given \/ p[2] = v
    BY <2>2
  <2> QED BY <1>a, <2>2, <2>4, <2>6, <2>7, <2>8, ReplyHigh
<1>7. ASSUME NEW m \in inbox, m.req.op = "import-one", handle_import_one(m) PROVE HighInv'
  <2>1. m.req.checksum \in Checksums
    BY RequestType DEF TypeOK
  <2>2. PICK v \in Values :
          /\ Reply(m, "value", v)
          /\ \/ read_only /\ rows' = rows
             \/ rows[m.req.checksum] <= v /\ rows' = [rows EXCEPT ![m.req.checksum] = v]
    BY <1>7, ImportEffect
  <2>3. v \in Int
    BY DEF Values, Absent
  <2>4. \A c \in Checksums : rows[c] <= rows'[c]
    BY <1>b, <2>1, <2>2, <2>3 DEF TypeOK, Tables
  <2>5. read_only \/ rows'[m.req.checksum] = v
    BY <2>1, <2>2 DEF TypeOK, Tables
  <2>6. ~lost /\ ~read_only => Below(v)'
    BY <2>1, <2>3, <2>5 DEF Below
  <2>7. UNCHANGED <<floor, high, lost, read_only, given>>
    BY <1>7 DEF handle_import_one, client
  <2> QED BY <1>a, <2>2, <2>4, <2>6, <2>7, ReplyHigh
<1>8. ASSUME UNCHANGED <<read_only, floor, high, given>>,
             lost' \/ (rows' = rows /\ lost' = lost),
             \A c \in Clients : answer'[c].kind = "value" => answer'[c] = answer[c]
      PROVE HighInv'
  BY <1>8 DEF HighInv, Below
<1>9. CASE DispatchRaises \/ signal_handler
  BY <1>8, <1>9 DEF DispatchRaises, signal_handler, client, history
<1>10. CASE ClosedDatabase
  <2>1. PICK m \in inbox : Reply(m, "closed", Absent)
    BY <1>10 DEF ClosedDatabase
  <2>2. \A c \in Clients : answer'[c].kind = "value" => answer'[c] = answer[c]
    BY <2>1 DEF Reply, TypeOK
  <2> QED BY <1>8, <1>10, <2>2 DEF ClosedDatabase, server, client, history
<1>11. CASE stop
  <2>1. rows' = rows
    BY <1>11 DEF stop, sync_if_dirty, sync, CommitInv
  <2> QED BY <1>8, <1>11, <2>1 DEF stop, client, history
<1>12. CASE Exit \/ Crash
  <2>1. \A c \in Clients : answer'[c].kind = "value" => answer'[c] = answer[c]
    BY <1>12 DEF Exit, Crash, HangUp, TypeOK
  <2>2. lost' \/ (rows' = rows /\ lost' = lost)
    BY <1>12, Zenon DEF Exit, Crash, TypeOK
  <2> QED BY <1>8, <1>12, <2>1, <2>2 DEF Exit, Crash, client, history
<1>13. CASE start
  <2>1. rows' = rows
    BY <1>13 DEF start, CommitInv, Serving
  <2> QED BY <1>8, <1>13, <2>1 DEF start, client, history
<1>14. CASE UNCHANGED vars
  BY <1>8, <1>14 DEF vars, server, client, history
<1> QED
  BY <1>1, <1>2, <1>4, <1>5, <1>6, <1>7, <1>9, <1>10, <1>11, <1>12, <1>13, <1>14
     DEF Next, ClientStep, ServerStep, Refused, TimedOut, GetPr, ImportOne

-----------------------------------------------------------------------------
(* Revisions are not decremented *)

\* The only steps that put a value on a client's connection handle the request
\* the client waits for.
LEMMA NextNoDecrement ==
  TypeOK /\ ConnInv /\ HighInv /\ NoDecrement /\ [Next]_vars => NoDecrement'
<1> SUFFICES ASSUME TypeOK, ConnInv, HighInv, NoDecrement, [Next]_vars,
                    ~lost', ~read_only', NEW c \in Clients,
                    pc'[c] = "wait", answer'[c].kind = "value", req'[c].op = "get-pr"
             PROVE  answer'[c].value >= floor'[c]
  BY DEF NoDecrement, NeverDecremented
<1> USE ValueAssumption
<1>1. ~lost /\ ~read_only
  <2>1. CASE Crash
    BY <2>1, Zenon DEF Crash, TypeOK
  <2>2. CASE ~Crash
    <3>1. lost' = lost
      BY <2>2 DEF Next, ClientStep, ServerStep, Issue, Connect, Refused, TimedOut, Retry,
         Receive, GetPr, ImportOne, handle_get_pr, handle_import_one, DispatchRaises,
         ClosedDatabase, signal_handler, stop, Exit, start, vars
    <3>2. read_only' = read_only
      BY <2>2 DEF Next, ClientStep, ServerStep, Issue, Connect, Refused, TimedOut, Retry,
         Receive, GetPr, ImportOne, handle_get_pr, handle_import_one, DispatchRaises,
         ClosedDatabase, signal_handler, stop, Exit, start, vars, server
    <3> QED BY <3>1, <3>2, Zenon
  <2> QED BY <2>1, <2>2, Zenon
<1>2. CASE answer'[c] = answer[c] /\ pc'[c] = pc[c] /\ req'[c] = req[c] /\ floor'[c] = floor[c]
  BY <1>1, <1>2 DEF NoDecrement, NeverDecremented
<1>3. ASSUME NEW d \in Clients, NEW r \in Requests, Issue(d, r) PROVE answer'[c].value >= floor'[c]
  <2>1. d # c
    BY <1>3 DEF Issue, TypeOK
  <2> QED BY <1>2, <1>3, <2>1 DEF Issue, TypeOK
<1>4. ASSUME NEW d \in Clients, Connect(d) PROVE answer'[c].value >= floor'[c]
  <2>1. CASE d = c
    <3>1. pc[c] # "wait" /\ answer'[c] = answer[c]
      BY <1>4, <2>1 DEF Connect
    <3> QED BY <3>1 DEF ConnInv, NoAnswer
  <2>2. CASE d # c
    BY <1>2, <1>4, <2>2 DEF Connect, TypeOK
  <2> QED BY <2>1, <2>2
<1>5. ASSUME NEW d \in Clients, Retry(d) \/ Receive(d) PROVE answer'[c].value >= floor'[c]
  <2>1. d # c
    BY <1>5 DEF Retry, Receive, Return, Again, TypeOK
  <2> QED BY <1>2, <1>5, <2>1 DEF Retry, Receive, Return, Again, Close, TypeOK
<1>6. ASSUME NEW m \in inbox, NEW v, Reply(m, "value", v), UNCHANGED <<pc, conn, req, floor>>,
             answer'[c] # answer[c]
      PROVE  m.client = c /\ m.req = req[c] /\ answer'[c].value = v
  BY <1>6 DEF Reply, ConnInv, TypeOK
<1>7. ASSUME NEW m \in inbox, handle_get_pr(m) PROVE answer'[c].value >= floor'[c]
  <2>1. PICK v \in Values :
          Reply(m, "value", v) /\ \A d \in Checksums : rows[d] <= v
    <3>1. \A d \in Checksums : rows[d] \in Int
      BY DEF TypeOK, Tables, Values, Absent
    <3>2. \A v \in Values : v \in Int
      BY DEF Values, Absent
    <3>3. PICK v \in Values :
            Reply(m, "value", v) /\ \A d \in Checksums : rows[d] <= v \/ rows[d] < v
      BY <1>7, GetPrEffect
    <3>4. \A d \in Checksums : rows[d] <= v
      BY <3>1, <3>2, <3>3
    <3> QED BY <3>3, <3>4
  <2>2. UNCHANGED <<pc, conn, req, floor>>
    BY <1>7 DEF handle_get_pr, client
  <2>3. CASE answer'[c] # answer[c]
    <3>1. answer'[c].value = v
      BY <1>6, <2>1, <2>2, <2>3
    <3>2. PICK d \in Checksums : rows[d] >= high
      BY <1>1 DEF HighInv, Below
    <3>3. rows[d] <= v /\ floor[c] <= high
      BY <2>1 DEF HighInv
    <3>4. rows[d] \in Int /\ high \in Int /\ floor[c] \in Int /\ v \in Int
      BY DEF TypeOK, Tables, Values, Absent
    <3>5. v >= floor[c]
      BY <3>2, <3>3, <3>4
    <3> QED BY <2>2, <3>1, <3>5
  <2> QED BY <1>2, <2>2, <2>3
<1>8. ASSUME NEW m \in inbox, m.req.op = "import-one", handle_import_one(m)
      PROVE  answer'[c].value >= floor'[c]
  <2>1. PICK v \in Values : Reply(m, "value", v)
    BY <1>8, ImportEffect
  <2>2. UNCHANGED <<pc, conn, req, floor>>
    BY <1>8 DEF handle_import_one, client
  <2>3. answer'[c] = answer[c]
    BY <1>6, <1>8, <2>1, <2>2
  <2> QED BY <1>2, <2>2, <2>3
<1>9. CASE ClosedDatabase
  <2>1. PICK m \in inbox : Reply(m, "closed", Absent)
    BY <1>9 DEF ClosedDatabase
  <2>2. answer'[c] = answer[c]
    BY <2>1 DEF Reply, TypeOK
  <2> QED BY <1>2, <1>9, <2>2 DEF ClosedDatabase, client
<1>10. CASE Exit \/ Crash
  <2>1. answer'[c] = answer[c]
    BY <1>10 DEF Exit, Crash, HangUp, TypeOK
  <2> QED BY <1>2, <1>10, <2>1 DEF Exit, Crash, client
<1>11. CASE DispatchRaises \/ signal_handler \/ stop \/ start
  BY <1>2, <1>11 DEF DispatchRaises, signal_handler, stop, start, client
<1>12. CASE UNCHANGED vars
  BY <1>2, <1>12 DEF vars, client
<1> QED
  BY <1>3, <1>4, <1>5, <1>7, <1>8, <1>9, <1>10, <1>11, <1>12
     DEF Next, ClientStep, ServerStep, Refused, TimedOut, GetPr, ImportOne

\* _get_value_no_hist: a revision answered to a request is no lower than any a
\* client had received when the request began, through every timeout, retry,
\* late duplicate, import, stop and restart, and every kill that discards
\* nothing.
THEOREM RevisionsNotDecremented == Spec => []NoDecrement
<1>1. Init => NoDecrement
  BY DEF Init, NoDecrement, NeverDecremented, NoAnswer
<1> QED
  BY <1>1, InitType, NextType, InitConn, NextConn, InitCommit, NextCommit,
     InitHigh, NextHigh, NextNoDecrement, PTL DEF Spec

-----------------------------------------------------------------------------
(* Revisions have one checksum *)

LEMMA InitOwner == Init => OwnerInv
BY DEF Init, OwnerInv

LEMMA NextOwner ==
  TypeOK /\ CommitInv /\ HighInv /\ OwnerInv /\ Unique /\ [Next]_vars => OwnerInv' /\ Unique'
<1> SUFFICES ASSUME TypeOK, CommitInv, HighInv, OwnerInv, Unique, [Next]_vars
             PROVE  OwnerInv' /\ Unique'
  OBVIOUS
<1> USE ValueAssumption
<1>1. ASSUME rows' = rows, UNCHANGED <<read_only, lost, given, imported>>
      PROVE  OwnerInv' /\ Unique'
  BY <1>1 DEF OwnerInv, Unique, Distinct
<1>2. ASSUME NEW m \in inbox, handle_get_pr(m) PROVE OwnerInv' /\ Unique'
  <2> DEFINE k == m.req.checksum
  <2>1. k \in Checksums
    BY RequestType DEF TypeOK
  <2>2. UNCHANGED <<read_only, lost, imported>>
    BY <1>2 DEF handle_get_pr
  <2> SUFFICES ASSUME ~lost, ~read_only, ~imported
               PROVE  /\ Distinct(rows')
                      /\ \A p \in given' : \A c \in Checksums : rows'[c] = p[2] => c = p[1]
                      /\ \A p, q \in given' : p[2] = q[2] => p[1] = q[1]
    BY <2>2 DEF OwnerInv, Unique
  <2>3. PICK v \in Values :
          /\ given' = given \cup {<<k, v>>}
          /\ \/ rows[k] = v /\ v # Absent /\ rows' = rows
             \/ (\A d \in Checksums : rows[d] < v) /\ rows' = [rows EXCEPT ![k] = v]
    BY <1>2, GetPrEffect
  <2>4. /\ \A c \in Checksums : rows[c] \in Int
        /\ \A p \in given : p[2] \in Int
        /\ v \in Int
    BY DEF TypeOK, Tables, Values, Absent
  <2>5. /\ Distinct(rows)
        /\ \A p \in given : \A c \in Checksums : rows[c] = p[2] => c = p[1]
        /\ \A p, q \in given : p[2] = q[2] => p[1] = q[1]
    BY DEF OwnerInv, Unique
  <2> HIDE DEF k
  <2>6. CASE rows[k] = v /\ v # Absent /\ rows' = rows
    <3>1. \A c \in Checksums : rows[c] = v => c = k
      BY <2>1, <2>5, <2>6 DEF Distinct
    <3>2. \A p \in given : p[2] = v => p[1] = k
      BY <2>1, <2>5, <2>6
    <3> QED BY <2>3, <2>5, <2>6, <3>1, <3>2
  <2>7. CASE (\A d \in Checksums : rows[d] < v) /\ rows' = [rows EXCEPT ![k] = v]
    <3>1. \A p \in given : p[2] < v
      <4>1. ASSUME NEW p \in given PROVE p[2] < v
        <5>1. PICK c \in Checksums : rows[c] >= p[2]
          BY DEF HighInv, Below
        <5> QED BY <2>4, <2>7, <5>1
      <4> QED BY <4>1
    <3>2. \A c \in Checksums : rows'[c] = IF c = k THEN v ELSE rows[c]
      BY <2>1, <2>7 DEF TypeOK, Tables
    <3>3. Distinct(rows')
      BY <2>4, <2>5, <2>7, <3>2 DEF Distinct
    <3>4. \A p \in given' : \A c \in Checksums : rows'[c] = p[2] => c = p[1]
      BY <2>3, <2>4, <2>5, <2>7, <3>1, <3>2
    <3>5. \A p, q \in given' : p[2] = q[2] => p[1] = q[1]
      BY <2>3, <2>4, <2>5, <3>1
    <3> QED BY <3>3, <3>4, <3>5
  <2> QED BY <2>3, <2>6, <2>7
<1>3. ASSUME NEW m \in inbox, m.req.op = "import-one", handle_import_one(m) PROVE OwnerInv' /\ Unique'
  <2>1. (read_only /\ rows' = rows /\ imported' = imported) \/ imported' = TRUE
    BY <1>3, ImportEffect
  <2>2. UNCHANGED <<read_only, lost, given>>
    BY <1>3 DEF handle_import_one
  <2>3. CASE imported' = TRUE
    BY <2>3 DEF OwnerInv, Unique
  <2> QED BY <1>1, <2>1, <2>2, <2>3
<1>4. ASSUME NEW c \in Clients, ClientStep(c) \/ \E r \in Requests : Issue(c, r)
      PROVE  OwnerInv' /\ Unique'
  BY <1>1, <1>4 DEF ClientStep, Issue, Connect, Refused, TimedOut, Retry, Receive, server, history
<1>5. CASE DispatchRaises \/ signal_handler \/ ClosedDatabase \/ Exit
  BY <1>1, <1>5 DEF DispatchRaises, signal_handler, ClosedDatabase, Exit, server, history
<1>6. CASE stop
  <2>1. rows' = rows
    BY <1>6 DEF stop, sync_if_dirty, sync, CommitInv
  <2> QED BY <1>1, <1>6, <2>1 DEF stop, history
<1>7. CASE Crash
  <2>1. lost' \/ (rows' = rows /\ lost' = lost)
    BY <1>7, Zenon DEF Crash, TypeOK
  <2>2. CASE lost'
    BY <2>2 DEF OwnerInv, Unique
  <2> QED BY <1>1, <1>7, <2>1, <2>2 DEF Crash, history
<1>8. CASE start
  <2>1. rows' = rows
    BY <1>8 DEF start, CommitInv, Serving
  <2> QED BY <1>1, <1>8, <2>1 DEF start, history
<1>9. CASE UNCHANGED vars
  BY <1>1, <1>9 DEF vars, server, history
<1> QED
  BY <1>2, <1>3, <1>4, <1>5, <1>6, <1>7, <1>8, <1>9
     DEF Next, ServerStep, GetPr, ImportOne

\* INSERT OR REPLACE with max(value)+1: without imports no revision is given to
\* two checksums, for any number of clients and any order of their requests.
THEOREM RevisionsUnique == Spec => []Unique
<1>1. Init => Unique
  BY DEF Init, Unique
<1> QED
  BY <1>1, InitType, NextType, InitCommit, NextCommit, InitHigh, NextHigh,
     InitOwner, NextOwner, PTL DEF Spec

-----------------------------------------------------------------------------
(* What the database keeps *)

\* PRServer.stop: dirty is set whenever something is not committed, so a server
\* that stops leaves every revision it answered in the database, those too that
\* it gave after its signal handler's commit.
THEOREM StopLosesNothing == Spec => []CleanStopKeeps
<1>1. CommitInv /\ HighInv => CleanStopKeeps
  <2> SUFFICES ASSUME CommitInv, HighInv, srv \in {"closing", "down"}, ~lost, ~read_only
               PROVE  \A p \in given : \E c \in Checksums : disk[c] >= p[2]
    BY DEF CleanStopKeeps
  <2>1. rows = disk
    BY DEF CommitInv, Serving
  <2> QED BY <2>1 DEF HighInv, Below
<1> QED
  BY <1>1, InitType, NextType, InitCommit, NextCommit, InitHigh, NextHigh, PTL DEF Spec

\* A commit never lowers or removes a row of the database.
THEOREM CommitsOnlyRaise == Spec => CommittedKept
<1>1. TypeOK /\ CommitInv /\ [Next]_vars => [\A c \in Checksums : disk'[c] >= disk[c]]_disk
  <2> SUFFICES ASSUME TypeOK, CommitInv, [Next]_vars, disk' # disk
               PROVE  \A c \in Checksums : disk'[c] >= disk[c]
    OBVIOUS
  <2>1. disk' = rows
    BY DEF Next, ClientStep, ServerStep, Issue, Connect, Refused, TimedOut, Retry, Receive,
       GetPr, ImportOne, handle_get_pr, handle_import_one, DispatchRaises, ClosedDatabase,
       signal_handler, stop, Exit, Crash, start, vars, server, sync_if_dirty, sync
  <2>2. \A c \in Checksums : disk[c] \in Int /\ rows[c] \in Int
    BY ValueAssumption DEF TypeOK, Tables, Values, Absent
  <2> QED BY <2>1, <2>2 DEF CommitInv
<1> QED
  BY <1>1, InitType, NextType, InitCommit, NextCommit, PTL DEF Spec, CommittedKept

=============================================================================
