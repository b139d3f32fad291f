------------------------- MODULE ProcessServerProofs -------------------------
(***************************************************************************)
(* The safety of the two threads of the server, for any number of clients. *)
(*                                                                         *)
(* DoorInv says whose command the server works for: the client behind the  *)
(* command channel, and after a disconnect that did not wait long enough   *)
(* nobody any more.  WorkInv says, for every place of the idle thread,     *)
(* which idle functions are registered and whether there is a command.     *)
(* OwedInv says that this client, when it is there, waits for the end.     *)
(***************************************************************************)
EXTENDS ProcessServer, TLAPS

-----------------------------------------------------------------------------
(* What is left of a plan                                                  *)

Remove(f) == [op |-> "remove", fun |-> f]
Fire == [op |-> "fire"]
Finish == [op |-> "finishcommand"]
Clear == [op |-> "clear_async_cmd"]

\* The plans of IdleFinish and of FinishedItself, step by step
Finish1 == <<Fire, Finish, Clear>>
Finish2 == <<Finish, Clear>>
Finish3 == <<Clear>>
Itself1 == <<Finish, Clear, Remove("async")>>
Itself2 == <<Clear, Remove("async")>>

\* The plans that end the command after the function was removed, and before
Ending == {Finish1, Finish2, Finish3}
EndingFirst == {FinishedItself("async"), Itself1, Itself2}

\* Whose command it is
DoorInv ==
  /\ job # None <=> mpc \in {"set_async_cmd", "register", "busy"}
  /\ job # None => job.client = ctrl
  /\ async # None => async.client = ctrl \/ (ctrl = None /\ quit)

\* What the idle thread works on
WorkInv ==
  /\ items = {} \/ (ipc = "loop" /\ items = idlefuns)
  /\ mpc = "register" => async # None /\ idlefuns = {} /\ ipc \in {"top", "loop", "ended"}
  /\ ipc \in {"top", "loop", "ended"} =>
       /\ idlefuns \in {{}, {"async"}, {"build"}}
       /\ idlefuns # {} => async # None
       /\ async # None /\ ~quit => idlefuns # {} \/ mpc = "register"
  /\ ipc \in {"async", "updateCache", "parse_next", "parsed", "method"} => idlefuns = {"async"} /\ async # None
  /\ ipc = "build" => idlefuns = {"build"} /\ async # None
  /\ ipc # "plan" => plan = <<>>
  /\ ipc = "plan" =>
       \/ \E f \in {"async", "build"} : plan = IdleFinish(f) /\ idlefuns = {f} /\ async # None
       \/ plan \in Ending /\ idlefuns = {} /\ async # None
       \/ plan \in EndingFirst /\ idlefuns = {"async"} /\ async # None
       \/ /\ plan = ReturnFalse("async")
          /\ IF async = None THEN idlefuns = {"async"} ELSE idlefuns = {"async", "build"}

\* The client behind the command channel, when it is there, has still to be told the end
\* of the command, until FireEnd has told it.  The next client is only taken from the
\* queue, and a connection with the name of an old one only made, when the old one is gone.
OwedInv ==
  async # None /\ ctrl # None /\ conn[ctrl] # "left" =>
    owed[ctrl] \/ (plan # <<>> /\ Head(plan) \in {Finish, Clear})

\* Each plan, its head and what is left after it
LEMMA Plans ==
  /\ \A f \in {"async", "build"} : /\ IdleFinish(f) # <<>> /\ Head(IdleFinish(f)) = Remove(f)
                                    /\ Tail(IdleFinish(f)) = Finish1
  /\ Finish1 # <<>> /\ Head(Finish1) = Fire /\ Tail(Finish1) = Finish2
  /\ Finish2 # <<>> /\ Head(Finish2) = Finish /\ Tail(Finish2) = Finish3
  /\ Finish3 # <<>> /\ Head(Finish3) = Clear /\ Tail(Finish3) = <<>>
  /\ FinishedItself("async") # <<>> /\ Head(FinishedItself("async")) = Fire /\ Tail(FinishedItself("async")) = Itself1
  /\ Itself1 # <<>> /\ Head(Itself1) = Finish /\ Tail(Itself1) = Itself2
  /\ Itself2 # <<>> /\ Head(Itself2) = Clear /\ Tail(Itself2) = ReturnFalse("async")
  /\ ReturnFalse("async") # <<>> /\ Head(ReturnFalse("async")) = Remove("async") /\ Tail(ReturnFalse("async")) = <<>>
<1>1. \A a, b, c, d : Tail(<<a, b, c, d>>) = <<b, c, d>> /\ Head(<<a, b, c, d>>) = a /\ <<a, b, c, d>> # <<>>
  OBVIOUS
<1>2. \A a, b, c : Tail(<<a, b, c>>) = <<b, c>> /\ Head(<<a, b, c>>) = a /\ <<a, b, c>> # <<>>
  OBVIOUS
<1>3. \A a, b : Tail(<<a, b>>) = <<b>> /\ Head(<<a, b>>) = a /\ <<a, b>> # <<>>
  OBVIOUS
<1>4. \A a : Tail(<<a>>) = <<>> /\ Head(<<a>>) = a /\ <<a>> # <<>>
  OBVIOUS
<1>5. \A f \in {"async", "build"} : /\ IdleFinish(f) # <<>> /\ Head(IdleFinish(f)) = Remove(f)
                                   /\ Tail(IdleFinish(f)) = Finish1
  BY <1>1 DEF IdleFinish, Finish1, Remove, Fire, Finish, Clear
<1>6. FinishedItself("async") # <<>> /\ Head(FinishedItself("async")) = Fire /\ Tail(FinishedItself("async")) = Itself1
  BY <1>1 DEF FinishedItself, Itself1, Remove, Fire, Finish, Clear
<1>7. Finish1 # <<>> /\ Head(Finish1) = Fire /\ Tail(Finish1) = Finish2
  BY <1>2 DEF Finish1, Finish2
<1>8. Itself1 # <<>> /\ Head(Itself1) = Finish /\ Tail(Itself1) = Itself2
  BY <1>2 DEF Itself1, Itself2
<1>9. Finish2 # <<>> /\ Head(Finish2) = Finish /\ Tail(Finish2) = Finish3
  BY <1>3 DEF Finish2, Finish3
<1>10. Itself2 # <<>> /\ Head(Itself2) = Clear /\ Tail(Itself2) = ReturnFalse("async")
  BY <1>3 DEF Itself2, ReturnFalse, Remove
<1>11. Finish3 # <<>> /\ Head(Finish3) = Clear /\ Tail(Finish3) = <<>>
  BY <1>4 DEF Finish3
<1>12. ReturnFalse("async") # <<>> /\ Head(ReturnFalse("async")) = Remove("async") /\ Tail(ReturnFalse("async")) = <<>>
  BY <1>4 DEF ReturnFalse, Remove
<1> QED BY <1>5, <1>6, <1>7, <1>8, <1>9, <1>10, <1>11, <1>12

\* What is left of a plan is one of Ops.
LEMMA PlanForms ==
  /\ \A f \in {"async", "build"} : IdleFinish(f) \in Ops
  /\ Ending \subseteq Ops /\ EndingFirst \subseteq Ops
  /\ ReturnFalse("async") \in Ops /\ <<>> \in Ops
<1> USE DEF IdleFinish, FinishedItself, ReturnFalse, Finish1, Finish2, Finish3, Itself1, Itself2, Remove, Fire, Finish, Clear
<1>1. Len(IdleFinish("async")) = 4 /\ Len(IdleFinish("build")) = 4 /\ Len(FinishedItself("async")) = 4 /\ Len(ReturnFalse("async")) = 1
  OBVIOUS
<1>2. IdleFinish("async") = SubSeq(IdleFinish("async"), 1, Len(IdleFinish("async")))
  OBVIOUS
<1>3. IdleFinish("build") = SubSeq(IdleFinish("build"), 1, Len(IdleFinish("build")))
  OBVIOUS
<1>4. FinishedItself("async") = SubSeq(FinishedItself("async"), 1, Len(FinishedItself("async")))
  OBVIOUS
<1>5. ReturnFalse("async") = SubSeq(ReturnFalse("async"), 1, Len(ReturnFalse("async")))
  OBVIOUS
<1>6. Finish1 = SubSeq(IdleFinish("async"), 2, Len(IdleFinish("async")))
  OBVIOUS
<1>7. Finish2 = SubSeq(IdleFinish("async"), 3, Len(IdleFinish("async")))
  OBVIOUS
<1>8. Finish3 = SubSeq(IdleFinish("async"), 4, Len(IdleFinish("async")))
  OBVIOUS
<1>9. Itself1 = SubSeq(FinishedItself("async"), 2, Len(FinishedItself("async")))
  OBVIOUS
<1>10. Itself2 = SubSeq(FinishedItself("async"), 3, Len(FinishedItself("async")))
  OBVIOUS
<1> HIDE DEF IdleFinish, FinishedItself, ReturnFalse, Finish1, Finish2, Finish3, Itself1, Itself2, Remove, Fire, Finish, Clear
<1>11. ASSUME NEW p \in {IdleFinish("async"), IdleFinish("build"), FinishedItself("async"), ReturnFalse("async")}, NEW i \in 1..Len(p)
       PROVE  SubSeq(p, i, Len(p)) \in Ops
  <2> DEFINE all == {IdleFinish("async"), IdleFinish("build"), FinishedItself("async"), ReturnFalse("async")}
             rests == {{SubSeq(q, k, Len(q)) : k \in 1..Len(q)} : q \in all}
  <2>1. SubSeq(p, i, Len(p)) \in {SubSeq(p, k, Len(p)) : k \in 1..Len(p)}
    OBVIOUS
  <2>2. {SubSeq(p, k, Len(p)) : k \in 1..Len(p)} \in rests
    OBVIOUS
  <2>3. Ops = {<<>>} \cup UNION rests
    BY DEF Ops
  <2> HIDE DEF rests
  <2> QED BY <2>1, <2>2, <2>3, Zenon
<1>12. <<>> \in Ops
  BY DEF Ops
<1>0. {1, 2, 3, 4} \subseteq 1..4 /\ 1 \in 1..1
  OBVIOUS
<1>13. \A p \in {IdleFinish("async"), IdleFinish("build"), FinishedItself("async")}, i \in {1, 2, 3, 4} : SubSeq(p, i, Len(p)) \in Ops
  <2> SUFFICES ASSUME NEW p \in {IdleFinish("async"), IdleFinish("build"), FinishedItself("async")}, NEW i \in {1, 2, 3, 4}
               PROVE  SubSeq(p, i, Len(p)) \in Ops
    OBVIOUS
  <2>1. Len(p) = 4
    BY <1>1
  <2>2. i \in 1..Len(p)
    BY <1>0, <2>1
  <2> QED BY <1>11, <2>2
<1>14. Finish1 \in Ops /\ Finish2 \in Ops /\ Finish3 \in Ops /\ IdleFinish("async") \in Ops
  BY <1>2, <1>6, <1>7, <1>8, <1>13, Zenon
<1>15. IdleFinish("build") \in Ops
  BY <1>3, <1>13, Zenon
<1>16. FinishedItself("async") \in Ops /\ Itself1 \in Ops /\ Itself2 \in Ops
  BY <1>4, <1>9, <1>10, <1>13, Zenon
<1>17. ReturnFalse("async") \in Ops
  <2>1. 1 \in 1..Len(ReturnFalse("async"))
    BY <1>0, <1>1
  <2> QED BY <1>5, <1>11, <2>1, Zenon
<1> QED BY <1>12, <1>14, <1>15, <1>16, <1>17 DEF Ending, EndingFirst

-----------------------------------------------------------------------------
(* Types                                                                   *)

ServerType ==
  /\ setup \in Setups /\ quit \in BOOLEAN
  /\ mpc \in {"select", "disconnect", "set_async_cmd", "register", "busy", "gone"}
  /\ job \in {None} \cup [client : Clients, kind : Asynchronous]
  /\ ctrl \in Clients \cup {None} /\ haveui \in BOOLEAN /\ hadanyui \in BOOLEAN
  /\ haveui => ctrl # None
  /\ newconnections \in Seq(Clients) /\ backlog \in Seq(Clients)

SharedType ==
  /\ idlefuns \subseteq {"async", "build"} /\ items \subseteq {"async", "build"}
  /\ async \in {None} \cup [client : Clients, kind : Asynchronous]
  /\ state \in {"initial", "parsing", "running", "shutdown", "forceshutdown"}
  /\ interrupt \in BOOLEAN /\ parser \in {"none", "live", "cached", "shut"}
  /\ ipc \in {"top", "loop", "async", "updateCache", "parse_next", "parsed", "method", "build", "plan", "ended"}

ClientType ==
  /\ conn \in [Clients -> {"out", "asked", "ui", "left"}] /\ pending \in [Clients -> BOOLEAN]
  /\ chan \in [Clients -> Seq(Commands \cup {"features"})] /\ sent \in [Clients -> 0..MaxSent]
  /\ owed \in [Clients -> BOOLEAN] /\ heard \in [Clients -> SUBSET (Clients \cup {None})] /\ told \in {"none", "stop", "force"}

\* All of TypeOK but the plan
Types == ServerType /\ SharedType /\ ClientType

LEMMA TypeParts == TypeOK <=> Types /\ plan \in Ops
BY DEF TypeOK, Types, ServerType, SharedType, ClientType

\* The client behind the command channel and the client of a job are clients.
LEMMA TheClient ==
  ASSUME Types
  PROVE  (haveui => ctrl \in Clients) /\ (job # None => job.client \in Clients) /\ (async # None => async.client \in Clients)
BY DEF Types, ServerType, SharedType

LEMMA ReplyType ==
  ASSUME Types, NEW c \in Clients, NEW st \in {"ui"}, Reply(c, st)
  PROVE  conn' \in [Clients -> {"out", "asked", "ui", "left"}] /\ pending' \in [Clients -> BOOLEAN]
<1>1. conn \in [Clients -> {"out", "asked", "ui", "left"}] /\ pending \in [Clients -> BOOLEAN]
  BY DEF Types, ClientType
<1>2. (IF conn[c] = "left" THEN conn[c] ELSE st) \in {"out", "asked", "ui", "left"}
  BY <1>1
<1>3. conn' = [conn EXCEPT ![c] = IF conn[c] = "left" THEN conn[c] ELSE st] /\ pending' = [pending EXCEPT ![c] = FALSE]
  BY DEF Reply
<1> QED BY <1>1, <1>2, <1>3

LEMMA ClientTypes ==
  ASSUME Types, NEW c \in Clients, Connect(c) \/ Close(c) \/ \E k \in Commands : Send(c, k)
  PROVE  Types'
<1>0. ClientType /\ ServerType /\ SharedType /\ MaxSent \in Nat
  BY BoundAssumption DEF Types
<1>1. SharedType'
  BY <1>0 DEF SharedType, Connect, Close, Send, shared, cooker, idlethread
<1>2. ServerType'
  <2>1. backlog' \in Seq(Clients)
    <3>1. backlog \in Seq(Clients) /\ Append(backlog, c) \in Seq(Clients)
      BY <1>0 DEF ServerType
    <3>2. backlog' \in {backlog, Append(backlog, c)}
      BY DEF Connect, Close, Send
    <3> QED BY <3>1, <3>2
  <2> QED BY <1>0, <2>1 DEF ServerType, Connect, Close, Send, mainthread
<1>3. CASE Connect(c)
  <2>1. <<"features">> \in Seq(Commands \cup {"features"})
    OBVIOUS
  <2>2. chan' \in [Clients -> Seq(Commands \cup {"features"})]
    BY <1>0, <1>3, <2>1 DEF ClientType, Connect
  <2>3. ClientType'
    BY <1>0, <1>3, <2>2 DEF ClientType, Connect, history
  <2> QED BY <1>1, <1>2, <2>3 DEF Types
<1>4. CASE Close(c)
  <2>1. ClientType'
    BY <1>0, <1>4 DEF ClientType, Close
  <2> QED BY <1>1, <1>2, <2>1 DEF Types
<1>5. ASSUME NEW k \in Commands, Send(c, k) PROVE Types'
  <2>1. Append(chan[c], k) \in Seq(Commands \cup {"features"})
    BY <1>0 DEF ClientType
  <2>2. chan' \in [Clients -> Seq(Commands \cup {"features"})]
    BY <1>0, <1>5, <2>1 DEF ClientType, Send
  <2>3. sent' \in [Clients -> 0..MaxSent]
    BY <1>0, <1>5 DEF ClientType, Send
  <2>4. pending' \in [Clients -> BOOLEAN]
    BY <1>0, <1>5 DEF ClientType, Send
  <2>5. ClientType'
    BY <1>0, <1>5, <2>2, <2>3, <2>4 DEF ClientType, Send, history
  <2> QED BY <1>1, <1>2, <2>5 DEF Types
<1> QED BY <1>3, <1>4, <1>5

LEMMA MainTypes ==
  ASSUME Types, DoorInv, MainStep
  PROVE  Types'
<1>0. ClientType /\ ServerType /\ SharedType
  BY DEF Types
<1> USE DEF shared, cooker, idlethread, client, history, mainthread
<1>1. CASE Accept
  <2>1. backlog \in Seq(Clients) /\ backlog # <<>> /\ newconnections \in Seq(Clients)
    BY <1>0, <1>1 DEF Accept, ServerType
  <2>2. Head(backlog) \in Clients /\ Tail(backlog) \in Seq(Clients) /\ Head(backlog) # None
    BY <2>1, NoneAssumption
  <2>3. Append(newconnections, Head(backlog)) \in Seq(Clients)
    BY <2>1, <2>2
  <2>4. ServerType'
    BY <1>0, <1>1, <2>2, <2>3 DEF Accept, ServerType
  <2> QED BY <1>0, <1>1, <2>4 DEF Accept, SharedType, ClientType, Types
<1>2. CASE Attach \/ TimeOut \/ SetTimesOut
  <2>1. UNCHANGED <<shared, idlethread, client, history>>
    BY <1>2 DEF Attach, TimeOut, SetTimesOut
  <2>2. SharedType' /\ ClientType'
    BY <1>0, <2>1 DEF SharedType, ClientType
  <2>3. CASE Attach
    BY <1>0, <2>2, <2>3 DEF Attach, ServerType, Types
  <2>4. CASE TimeOut
    BY <1>0, <2>2, <2>4 DEF TimeOut, ServerType, Types
  <2>5. CASE SetTimesOut
    BY <1>0, <2>2, <2>5 DEF SetTimesOut, ServerType, Types
  <2> QED BY <1>2, <2>3, <2>4, <2>5
<1>3. CASE Disconnect
  <2>1. chan' \in [Clients -> Seq(Commands \cup {"features"})]
    <3>1. <<>> \in Seq(Commands \cup {"features"})
      OBVIOUS
    <3>2. chan' = [chan EXCEPT ![ctrl] = <<>>] /\ chan \in [Clients -> Seq(Commands \cup {"features"})]
      BY <1>0, <1>3 DEF Disconnect, ClientType
    <3> QED BY <3>1, <3>2
  <2> QED BY <1>0, <1>3, <2>1 DEF Disconnect, ServerType, SharedType, ClientType, Types
<1>4. CASE wait_for_idle
  <2>1. PICK idle \in BOOLEAN : DisconnectEnd(idle)
    BY <1>4 DEF wait_for_idle
  <2>2. ctrl' \in Clients \cup {None} /\ newconnections' \in Seq(Clients) /\ quit' \in BOOLEAN
    <3>1. newconnections \in Seq(Clients) /\ quit \in BOOLEAN
      BY <1>0 DEF ServerType
    <3>2. CASE newconnections # <<>> /\ (idle /\ ~quit)
      <4>1. Len(newconnections) \in 1..Len(newconnections)
        BY <3>1, <3>2
      <4>2. newconnections[Len(newconnections)] \in Clients
        BY <3>1, <4>1
      <4>3. SubSeq(newconnections, 1, Len(newconnections) - 1) \in Seq(Clients)
        BY <3>1, <4>1
      <4> QED BY <2>1, <3>1, <3>2, <4>2, <4>3 DEF DisconnectEnd
    <3>3. CASE ~(newconnections # <<>> /\ (idle /\ ~quit))
      BY <2>1, <3>1, <3>3 DEF DisconnectEnd
    <3> QED BY <3>2, <3>3
  <2>3. ServerType'
    BY <1>0, <2>1, <2>2 DEF DisconnectEnd, ServerType
  <2> QED BY <1>0, <2>1, <2>3 DEF DisconnectEnd, SharedType, ClientType, Types
<1>5. ASSUME NEW k \in {"features", "stop", "force", "terminate"}, SyncCommand(k) PROVE Types'
  <2>1. ctrl \in Clients /\ chan[ctrl] \in Seq(Commands \cup {"features"}) /\ chan[ctrl] # <<>>
    BY <1>0, <1>5, TheClient DEF SyncCommand, ClientType
  <2>2. Tail(chan[ctrl]) \in Seq(Commands \cup {"features"})
    BY <2>1
  <2>3. chan' \in [Clients -> Seq(Commands \cup {"features"})]
    BY <1>0, <1>5, <2>2 DEF SyncCommand, ClientType
  <2>4. conn' \in [Clients -> {"out", "asked", "ui", "left"}] /\ pending' \in [Clients -> BOOLEAN]
    BY <1>0, <1>5, <2>1, ReplyType DEF SyncCommand, ClientType
  <2>5. state' \in {"initial", "parsing", "running", "shutdown", "forceshutdown"} /\ interrupt' \in BOOLEAN
        /\ parser' \in {"none", "live", "cached", "shut"} /\ told' \in {"none", "stop", "force"}
    <3>1. CASE k \in {"stop", "force"}
      BY <1>0, <1>5, <3>1 DEF SyncCommand, shutdown, ParserShutdown, SharedType, ClientType
    <3>2. CASE k \notin {"stop", "force"}
      BY <1>0, <1>5, <3>2 DEF SyncCommand, SharedType, ClientType
    <3> QED BY <3>1, <3>2
  <2>6. ServerType'
    BY <1>0, <1>5 DEF SyncCommand, ServerType
  <2>7. SharedType'
    BY <1>0, <1>5, <2>5 DEF SyncCommand, SharedType
  <2>8. ClientType'
    BY <1>0, <1>5, <2>3, <2>4, <2>5 DEF SyncCommand, ClientType
  <2> QED BY <2>6, <2>7, <2>8 DEF Types
<1>6. CASE AsyncCommand
  <2>1. ctrl \in Clients /\ chan[ctrl] \in Seq(Commands \cup {"features"}) /\ chan[ctrl] # <<>>
    BY <1>0, <1>6, TheClient DEF AsyncCommand, ClientType
  <2>2. Tail(chan[ctrl]) \in Seq(Commands \cup {"features"})
    BY <2>1
  <2>3. chan' \in [Clients -> Seq(Commands \cup {"features"})]
    BY <1>0, <1>6, <2>2 DEF AsyncCommand, ClientType
  <2>4. job' \in [client : Clients, kind : Asynchronous]
    BY <1>6, <2>1 DEF AsyncCommand
  <2> QED BY <1>0, <1>6, <2>3, <2>4 DEF AsyncCommand, ServerType, SharedType, ClientType, Types
<1>7. CASE set_async_cmd
  <2>1. owed' \in [Clients -> BOOLEAN]
    BY <1>0, <1>7 DEF set_async_cmd, ClientType
  <2>2. async' \in {None} \cup [client : Clients, kind : Asynchronous]
    BY <1>0, <1>7 DEF set_async_cmd, ServerType
  <2> QED BY <1>0, <1>7, <2>1, <2>2 DEF set_async_cmd, ServerType, SharedType, ClientType, Types
<1>8. CASE register_idle_function \/ Busy
  <2>1. job.client \in Clients
    BY <1>8, TheClient DEF DoorInv, register_idle_function, Busy
  <2>2. conn' \in [Clients -> {"out", "asked", "ui", "left"}] /\ pending' \in [Clients -> BOOLEAN]
    BY <1>0, <1>8, <2>1, ReplyType DEF register_idle_function, Busy, ClientType
  <2>3. ServerType'
    BY <1>0, <1>8 DEF register_idle_function, Busy, ServerType
  <2>4. SharedType'
    BY <1>0, <1>8 DEF register_idle_function, Busy, SharedType
  <2>5. ClientType'
    BY <1>0, <1>8, <2>2 DEF register_idle_function, Busy, ClientType
  <2> QED BY <2>3, <2>4, <2>5 DEF Types
<1>9. CASE Exit
  <2>1. MaxSent \in Nat
    BY BoundAssumption
  <2>2. <<>> \in Seq(Clients) /\ <<>> \in Seq(Commands \cup {"features"})
    OBVIOUS
  <2>3. ServerType'
    BY <1>0, <1>9, <2>2 DEF Exit, ServerType
  <2>4. SharedType'
    BY <1>0, <1>9 DEF Exit, SharedType
  <2>5. ClientType'
    BY <1>0, <1>9, <2>1, <2>2 DEF Exit, ClientType
  <2> QED BY <2>3, <2>4, <2>5 DEF Types
<1> QED BY <1>1, <1>2, <1>3, <1>4, <1>5, <1>6, <1>7, <1>8, <1>9 DEF MainStep

LEMMA IdleTypes ==
  ASSUME Types, IdleStep
  PROVE  Types'
<1>0. ClientType /\ ServerType /\ SharedType
  BY DEF Types
<1> USE DEF shared, cooker, idlethread, client, history, mainthread
<1>1. CASE Loop \/ runAsyncCommand \/ updateCache \/ parse_next \/ Parsed \/ Method \/ BuildGoesOn \/ BuildEnds
  <2>1. ServerType' /\ ClientType'
    BY <1>0, <1>1 DEF Loop, runAsyncCommand, updateCache, parse_next, Parsed, Method, BuildGoesOn, BuildEnds,
                      ServerType, ClientType
  <2>2. SharedType'
    BY <1>0, <1>1 DEF Loop, runAsyncCommand, updateCache, parse_next, Parsed, Method, BuildGoesOn, BuildEnds,
                      SharedType, Then
  <2> QED BY <2>1, <2>2 DEF Types
<1>2. CASE Call
  <2>1. ipc' \in {"async", "build", "top"} /\ items' = items \ {ipc'}
    BY <1>2 DEF Call
  <2> QED BY <1>0, <1>2, <2>1 DEF Call, ServerType, ClientType, SharedType, Types
<1>3. CASE BuildRaises
  BY <1>0, <1>3 DEF BuildRaises, ServerType, ClientType, SharedType, Types, Then
<1>4. CASE Plan
  <2>1. ipc' \in {"loop", "plan"} /\ UNCHANGED <<setup, mainthread, backlog, items, client>>
    BY <1>4 DEF Plan, Then
  <2>2. \/ \E f : remove_idle_func(f)
        \/ FireEnd \/ finishcommand \/ clear_async_cmd
    BY <1>4 DEF Plan
  <2>3. ServerType'
    BY <1>0, <2>1 DEF ServerType
  <2>4. SharedType'
    BY <1>0, <2>1, <2>2 DEF SharedType, remove_idle_func, FireEnd, finishcommand, clear_async_cmd, ParserShutdown
  <2>5. owed' \in [Clients -> BOOLEAN] /\ heard' \in [Clients -> SUBSET (Clients \cup {None})] /\ told' \in {"none", "stop", "force"}
    <3>1. owed \in [Clients -> BOOLEAN] /\ heard \in [Clients -> SUBSET (Clients \cup {None})] /\ told \in {"none", "stop", "force"}
      BY <1>0 DEF ClientType
    <3>2. CASE UNCHANGED <<owed, heard>>
      BY <2>2, <3>1, <3>2 DEF remove_idle_func, FireEnd, finishcommand, clear_async_cmd
    <3>3. CASE FireEnd /\ haveui /\ async # None
      <4>1. ctrl \in Clients /\ async.client \in Clients
        BY <3>3, TheClient
      <4>2. owed' = [owed EXCEPT ![ctrl] = FALSE] \/ owed' = owed
        BY <3>3 DEF FireEnd
      <4> DEFINE whose == IF owed[ctrl] THEN async.client ELSE None
      <4>3. heard' = [heard EXCEPT ![ctrl] = heard[ctrl] \cup {whose}] \/ heard' = heard
        BY <3>3 DEF FireEnd
      <4>4. heard[ctrl] \cup {whose} \in SUBSET (Clients \cup {None})
        BY <3>1, <4>1
      <4> HIDE DEF whose
      <4>5. heard' \in [Clients -> SUBSET (Clients \cup {None})]
        BY <3>1, <4>3, <4>4
      <4>6. owed' \in [Clients -> BOOLEAN] /\ told' = told
        BY <3>1, <3>3, <4>2 DEF FireEnd
      <4> QED BY <3>1, <4>5, <4>6
    <3> QED BY <2>2, <3>2, <3>3 DEF remove_idle_func, FireEnd, finishcommand, clear_async_cmd
  <2>6. ClientType'
    BY <1>0, <2>1, <2>5 DEF ClientType
  <2> QED BY <2>3, <2>4, <2>6 DEF Types
<1> QED BY <1>1, <1>2, <1>3, <1>4 DEF IdleStep

LEMMA InitTypes == Init => Types
<1> SUFFICES ASSUME Init PROVE Types
  OBVIOUS
<1>1. <<>> \in Seq(Clients) /\ <<>> \in Seq(Commands \cup {"features"}) /\ 0 \in 0..MaxSent
  BY BoundAssumption
<1>2. ServerType /\ SharedType
  BY <1>1 DEF Init, ServerType, SharedType
<1>3. ClientType
  BY <1>1 DEF Init, ClientType
<1> QED BY <1>2, <1>3 DEF Types

LEMMA TypeStep == Types /\ DoorInv /\ [Next]_vars => Types'
<1> SUFFICES ASSUME Types, DoorInv, [Next]_vars PROVE Types'
  OBVIOUS
<1>1. CASE UNCHANGED vars
  BY <1>1 DEF Types, ServerType, SharedType, ClientType, vars, shared, cooker, idlethread, client, history, mainthread
<1> QED BY <1>1, MainTypes, IdleTypes, ClientTypes DEF Next, Finished

-----------------------------------------------------------------------------
(* Whose command it is                                                     *)

LEMMA InitDoor == Init => DoorInv
BY DEF Init, DoorInv

LEMMA DoorStep == Types /\ WorkInv /\ DoorInv /\ [Next]_vars => DoorInv'
<1> SUFFICES ASSUME Types, WorkInv, DoorInv, [Next]_vars PROVE DoorInv'
  OBVIOUS
<1> USE DEF shared, cooker, idlethread, client, history, mainthread
<1>0. job \in {None} \cup [client : Clients, kind : Asynchronous] /\ quit \in BOOLEAN
  BY DEF Types, ServerType
<1>1. ASSUME UNCHANGED <<job, mpc, ctrl>>, async' \in {None, async}, quit => quit' PROVE DoorInv'
  BY <1>1 DEF DoorInv
<1>2. CASE Accept
  <2>1. mpc = "select" /\ ~quit /\ UNCHANGED <<job, mpc, async, quit>> /\ (ctrl # None => ctrl' = ctrl)
    BY <1>2 DEF Accept
  <2>2. job = None /\ (ctrl = None => async = None)
    BY <2>1, TheClient, NoneAssumption DEF DoorInv
  <2> QED BY <2>1, <2>2 DEF DoorInv
<1>3. CASE Attach \/ TimeOut
  BY <1>1, <1>3 DEF Attach, TimeOut
<1>4. CASE Disconnect \/ SetTimesOut
  BY <1>4 DEF Disconnect, SetTimesOut, DoorInv
<1>5. CASE wait_for_idle
  <2>1. mpc = "disconnect" /\ mpc' = "select" /\ UNCHANGED <<job, async>>
    BY <1>5 DEF wait_for_idle, DisconnectEnd
  <2>2. async = None \/ (ctrl' = None /\ quit')
    BY <1>0, <1>5 DEF wait_for_idle, DisconnectEnd, _idle_check
  <2> QED BY <2>1, <2>2 DEF DoorInv
<1>6. ASSUME NEW k \in {"features", "stop", "force", "terminate"}, SyncCommand(k) PROVE DoorInv'
  BY <1>1, <1>6 DEF SyncCommand
<1>7. CASE AsyncCommand
  <2>1. job' = [client |-> ctrl, kind |-> Head(chan[ctrl])] /\ mpc' = "set_async_cmd" /\ UNCHANGED <<ctrl, async, quit>>
    BY <1>7 DEF AsyncCommand
  <2>2. job' # None /\ job'.client = ctrl
    <3>1. ctrl \in Clients
      BY <1>7, TheClient DEF AsyncCommand
    <3>2. job' \in [client : Clients, kind : Asynchronous] /\ job'.client = ctrl
      BY <1>7, <2>1, <3>1 DEF AsyncCommand
    <3> QED BY <3>2, NoneAssumption
  <2> QED BY <2>1, <2>2 DEF DoorInv
<1>8. CASE set_async_cmd
  BY <1>8 DEF set_async_cmd, DoorInv
<1>9. CASE register_idle_function \/ Busy
  BY <1>9 DEF register_idle_function, Busy, DoorInv
<1>10. CASE Exit
  BY <1>10 DEF Exit, DoorInv
<1>11. CASE IdleStep
  <2>1. UNCHANGED <<job, mpc, ctrl>> /\ (quit => quit')
    BY <1>11 DEF IdleStep, Loop, Call, runAsyncCommand, updateCache, parse_next, Parsed, Method, BuildGoesOn, BuildEnds,
                 BuildRaises, Plan
  <2>2. async' \in {None, async}
    BY <1>11 DEF IdleStep, Loop, Call, runAsyncCommand, updateCache, parse_next, Parsed, Method, BuildGoesOn, BuildEnds,
                 BuildRaises, Plan, remove_idle_func, FireEnd, finishcommand, clear_async_cmd
  <2> QED BY <1>1, <2>1, <2>2
<1>12. ASSUME NEW c \in Clients, Connect(c) \/ Close(c) \/ \E k \in Commands : Send(c, k) PROVE DoorInv'
  BY <1>1, <1>12 DEF Connect, Close, Send
<1>13. CASE UNCHANGED vars
  BY <1>1, <1>13 DEF vars
<1> QED BY <1>2, <1>3, <1>4, <1>5, <1>6, <1>7, <1>8, <1>9, <1>10, <1>11, <1>12, <1>13 DEF Next, MainStep, Finished

-----------------------------------------------------------------------------
(* What the idle thread works on                                           *)

LEMMA InitWork == Init => WorkInv
BY DEF Init, WorkInv

\* The main thread registers a function only when there is none.
LEMMA MainWork ==
  ASSUME Types, DoorInv, WorkInv, MainStep
  PROVE  WorkInv'
<1> USE DEF shared, cooker, idlethread, client, history, mainthread
<1>0. quit \in BOOLEAN /\ ipc \in {"top", "loop", "async", "updateCache", "parse_next", "parsed", "method", "build", "plan", "ended"}
  BY DEF Types, ServerType, SharedType
<1>1. ASSUME UNCHANGED <<idlefuns, async, ipc, items, plan>>, quit => quit', mpc # "register", mpc' # "register"
      PROVE  WorkInv'
  BY <1>1 DEF WorkInv
<1>2. CASE Accept \/ Attach \/ TimeOut \/ Disconnect \/ AsyncCommand \/ SetTimesOut \/ Busy
  BY <1>1, <1>2 DEF Accept, Attach, TimeOut, Disconnect, AsyncCommand, SetTimesOut, Busy
<1>3. CASE wait_for_idle
  <2>1. UNCHANGED <<idlefuns, async, ipc, items, plan>> /\ mpc = "disconnect" /\ mpc' = "select" /\ (quit => quit')
    BY <1>0, <1>3 DEF wait_for_idle, DisconnectEnd
  <2> QED BY <1>1, <2>1
<1>4. ASSUME NEW k \in {"features", "stop", "force", "terminate"}, SyncCommand(k) PROVE WorkInv'
  BY <1>1, <1>4 DEF SyncCommand
<1>5. CASE set_async_cmd
  <2>1. /\ mpc = "set_async_cmd" /\ mpc' = "register" /\ idlefuns = {} /\ async = None /\ async' = job
        /\ UNCHANGED <<idlefuns, ipc, items, plan, quit>>
    BY <1>5 DEF set_async_cmd, _idle_check
  <2>2. async' # None
    BY <2>1 DEF DoorInv
  <2>3. ipc \in {"top", "loop", "ended"}
    BY <1>0, <2>1 DEF WorkInv
  <2> QED BY <2>1, <2>2, <2>3 DEF WorkInv
<1>6. CASE register_idle_function
  <2>1. mpc = "register" /\ mpc' = "select" /\ idlefuns' = idlefuns \cup {"async"} /\ UNCHANGED <<async, ipc, items, plan, quit>>
    BY <1>6 DEF register_idle_function
  <2>2. async # None /\ idlefuns = {} /\ items = {} /\ ipc \in {"top", "loop", "ended"}
    BY <2>1 DEF WorkInv
  <2>3. idlefuns' = {"async"}
    BY <2>1, <2>2
  <2> QED BY <2>1, <2>2, <2>3 DEF WorkInv
<1>7. CASE Exit
  <2>1. mpc' = "gone" /\ idlefuns' = {} /\ async' = None /\ ipc = "ended" /\ UNCHANGED <<ipc, items, plan>>
    BY <1>7 DEF Exit
  <2> QED BY <2>1 DEF WorkInv
<1> QED BY <1>2, <1>3, <1>4, <1>5, <1>6, <1>7 DEF MainStep

\* One step of a plan
LEMMA PlanWork ==
  ASSUME WorkInv, Plan
  PROVE  WorkInv'
<1>0. ipc = "plan" /\ mpc # "register" /\ items = {} /\ UNCHANGED <<mpc, quit, items>> /\ Then(Tail(plan))
  BY DEF Plan, WorkInv, mainthread
<1> USE DEF shared, cooker
<1>1. ASSUME NEW f, Head(plan) = Remove(f) PROVE idlefuns' = idlefuns \ {f} /\ async' = async
  BY <1>1 DEF Plan, Remove, remove_idle_func
<1>2. ASSUME Head(plan) \in {Fire, Finish} PROVE UNCHANGED <<idlefuns, async>>
  BY <1>2 DEF Plan, Fire, Finish, FireEnd, finishcommand
<1>3. ASSUME Head(plan) = Clear PROVE idlefuns' = idlefuns /\ async' = None
  BY <1>3 DEF Plan, Clear, clear_async_cmd
<1>4. ASSUME NEW f \in {"async", "build"}, plan = IdleFinish(f), idlefuns = {f}, async # None PROVE WorkInv'
  <2>1. Head(plan) = Remove(f) /\ Tail(plan) = Finish1 /\ Finish1 # <<>>
    BY <1>4, Plans
  <2>2. idlefuns' = {} /\ async' # None
    BY <1>1, <1>4, <2>1
  <2>3. ipc' = "plan" /\ plan' = Finish1
    BY <1>0, <2>1 DEF Then
  <2> QED BY <1>0, <2>2, <2>3 DEF WorkInv, Ending
<1>5. ASSUME plan \in Ending, idlefuns = {}, async # None PROVE WorkInv'
  <2>1. CASE plan = Finish1
    <3>1. UNCHANGED <<idlefuns, async>> /\ ipc' = "plan" /\ plan' = Finish2
      BY <1>0, <1>2, <2>1, Plans DEF Then
    <3> QED BY <1>0, <1>5, <3>1 DEF WorkInv, Ending
  <2>2. CASE plan = Finish2
    <3>1. UNCHANGED <<idlefuns, async>> /\ ipc' = "plan" /\ plan' = Finish3
      BY <1>0, <1>2, <2>2, Plans DEF Then
    <3> QED BY <1>0, <1>5, <3>1 DEF WorkInv, Ending
  <2>3. CASE plan = Finish3
    <3>1. idlefuns' = {} /\ async' = None /\ ipc' = "loop" /\ plan' = <<>>
      BY <1>0, <1>3, <1>5, <2>3, Plans DEF Then
    <3> QED BY <1>0, <3>1 DEF WorkInv
  <2> QED BY <1>5, <2>1, <2>2, <2>3 DEF Ending
<1>6. ASSUME plan \in EndingFirst, idlefuns = {"async"}, async # None PROVE WorkInv'
  <2>1. CASE plan = FinishedItself("async")
    <3>1. UNCHANGED <<idlefuns, async>> /\ ipc' = "plan" /\ plan' = Itself1
      BY <1>0, <1>2, <2>1, Plans DEF Then
    <3> QED BY <1>0, <1>6, <3>1 DEF WorkInv, EndingFirst
  <2>2. CASE plan = Itself1
    <3>1. UNCHANGED <<idlefuns, async>> /\ ipc' = "plan" /\ plan' = Itself2
      BY <1>0, <1>2, <2>2, Plans DEF Then
    <3> QED BY <1>0, <1>6, <3>1 DEF WorkInv, EndingFirst
  <2>3. CASE plan = Itself2
    <3>1. idlefuns' = {"async"} /\ async' = None /\ ipc' = "plan" /\ plan' = ReturnFalse("async")
      BY <1>0, <1>3, <1>6, <2>3, Plans DEF Then
    <3> QED BY <1>0, <3>1 DEF WorkInv
  <2> QED BY <1>6, <2>1, <2>2, <2>3 DEF EndingFirst
<1>7. ASSUME plan = ReturnFalse("async"),
             IF async = None THEN idlefuns = {"async"} ELSE idlefuns = {"async", "build"}
      PROVE  WorkInv'
  <2>1. idlefuns' = idlefuns \ {"async"} /\ async' = async /\ ipc' = "loop" /\ plan' = <<>>
    BY <1>0, <1>1, <1>7, Plans DEF Then
  <2>2. IF async = None THEN idlefuns' = {} ELSE idlefuns' = {"build"}
    BY <1>7, <2>1
  <2> QED BY <1>0, <2>1, <2>2 DEF WorkInv
<1> QED BY <1>0, <1>4, <1>5, <1>6, <1>7 DEF WorkInv

LEMMA IdleWork ==
  ASSUME Types, WorkInv, IdleStep
  PROVE  WorkInv'
<1> USE DEF shared, cooker, idlethread, client, history, mainthread
<1>0. quit \in BOOLEAN /\ items \subseteq {"async", "build"}
  BY DEF Types, ServerType, SharedType
<1>a. (ipc \notin {"top", "loop", "ended"} => mpc # "register") /\ (ipc # "loop" => items = {})
  BY DEF WorkInv
\* The function that was called goes on, returns or has to be called again.
<1>b. ASSUME ipc \in {"async", "updateCache", "parse_next", "parsed", "method", "build"},
             UNCHANGED <<mpc, quit, async, idlefuns, items>>,
             \/ \E f \in idlefuns : Then(IdleFinish(f))
             \/ Then(<<>>)
      PROVE  WorkInv'
  <2>1. /\ async # None /\ items = {} /\ mpc # "register"
        /\ idlefuns = {"async"} \/ idlefuns = {"build"}
    BY <1>a, <1>b DEF WorkInv
  <2>2. CASE Then(<<>>)
    BY <1>b, <2>1, <2>2 DEF Then, WorkInv
  <2>3. ASSUME NEW f \in idlefuns, Then(IdleFinish(f)) PROVE WorkInv'
    <3>1. idlefuns = {f} /\ f \in {"async", "build"}
      BY <2>1, <2>3
    <3>2. ipc' = "plan" /\ plan' = IdleFinish(f)
      BY <2>3, <3>1, Plans DEF Then
    <3> QED BY <1>b, <2>1, <3>1, <3>2 DEF WorkInv
  <2> QED BY <1>b, <2>2, <2>3
<1>c. ipc \in {"async", "updateCache", "parse_next", "parsed", "method"} => "async" \in idlefuns
  BY DEF WorkInv
<1>1. CASE Loop
  <2>1. /\ ipc = "top" /\ UNCHANGED <<mpc, quit, async, idlefuns, plan>>
        /\ \/ ipc' = "ended" /\ items' = items
           \/ ipc' = "loop" /\ items' = idlefuns
    BY <1>1 DEF Loop
  <2> QED BY <2>1 DEF WorkInv
<1>2. CASE Call
  <2>1. ipc = "loop" /\ UNCHANGED <<mpc, quit, async, idlefuns, plan>> /\ items' = items \ {ipc'}
    BY <1>2 DEF Call
  <2>2. CASE items = {}
    <3>1. ipc' = "top" /\ items' = {}
      BY <1>2, <2>1, <2>2 DEF Call
    <3> QED BY <2>1, <3>1 DEF WorkInv
  <2>3. CASE items # {}
    <3>1. items = idlefuns /\ async # None /\ mpc # "register" /\ (idlefuns = {"async"} \/ idlefuns = {"build"})
      BY <2>1, <2>3 DEF WorkInv
    <3>2. CASE idlefuns = {"async"}
      <4>1. ipc' = "async"
        BY <1>2, <3>1, <3>2 DEF Call
      <4>2. items' = {}
        BY <2>1, <3>1, <3>2, <4>1
      <4> QED BY <2>1, <3>1, <3>2, <4>1, <4>2 DEF WorkInv
    <3>3. CASE idlefuns = {"build"}
      <4>1. ipc' = "build"
        BY <1>2, <3>1, <3>3 DEF Call
      <4>2. items' = {}
        BY <2>1, <3>1, <3>3, <4>1
      <4> QED BY <2>1, <3>1, <3>3, <4>1, <4>2 DEF WorkInv
    <3> QED BY <3>1, <3>2, <3>3
  <2> QED BY <2>2, <2>3
<1>3. ASSUME ipc \in {"async", "updateCache", "parse_next", "parsed", "method"},
             ipc' \in {"updateCache", "parse_next", "parsed", "method"},
             UNCHANGED <<mpc, quit, async, idlefuns, items, plan>>
      PROVE  WorkInv'
  BY <1>3, <1>a DEF WorkInv
<1>4. CASE runAsyncCommand
  <2>1. ipc = "async" /\ UNCHANGED <<mpc, quit, async, idlefuns, items>>
    BY <1>4 DEF runAsyncCommand
  <2>2. Then(IdleFinish("async")) \/ (ipc' \in {"updateCache", "method"} /\ plan' = plan)
    BY <1>4 DEF runAsyncCommand
  <2> QED BY <1>3, <1>b, <1>c, <2>1, <2>2
<1>5. CASE updateCache
  BY <1>3, <1>5 DEF updateCache
<1>6. CASE parse_next
  <2>1. ipc = "parse_next" /\ UNCHANGED <<mpc, quit, async, idlefuns, items>>
    BY <1>6 DEF parse_next
  <2>2. Then(<<>>) \/ (ipc' = "parsed" /\ plan' = plan) \/ Then(IdleFinish("async"))
    BY <1>6 DEF parse_next
  <2> QED BY <1>3, <1>b, <1>c, <2>1, <2>2
<1>7. CASE Parsed
  BY <1>7, <1>b DEF Parsed
<1>8. CASE Method
  <2>1. ipc = "method" /\ UNCHANGED <<mpc, quit, async, items>> /\ items = {} /\ mpc # "register"
    BY <1>8, <1>a DEF Method
  <2>2. idlefuns = {"async"} /\ async # None
    BY <2>1 DEF WorkInv
  <2>3. CASE idlefuns' = idlefuns \cup {"build"} /\ Then(ReturnFalse("async"))
    <3>1. ipc' = "plan" /\ plan' = ReturnFalse("async") /\ idlefuns' = {"async", "build"}
      BY <2>2, <2>3, Plans DEF Then
    <3> QED BY <2>1, <2>2, <3>1 DEF WorkInv
  <2>4. CASE UNCHANGED idlefuns /\ Then(FinishedItself("async"))
    <3>1. ipc' = "plan" /\ plan' = FinishedItself("async")
      BY <2>4, Plans DEF Then
    <3> QED BY <2>1, <2>2, <2>4, <3>1 DEF WorkInv, EndingFirst
  <2>5. CASE UNCHANGED idlefuns /\ Then(IdleFinish("async"))
    BY <1>b, <1>c, <2>1, <2>5
  <2> QED BY <1>8, <2>3, <2>4, <2>5 DEF Method
<1>9. CASE BuildGoesOn
  BY <1>9, <1>b DEF BuildGoesOn
<1>10. CASE BuildEnds
  <2>1. ipc = "build" /\ UNCHANGED <<mpc, quit, async, idlefuns, items>> /\ Then(IdleFinish("build"))
    BY <1>10 DEF BuildEnds
  <2>2. "build" \in idlefuns
    BY <2>1 DEF WorkInv
  <2> QED BY <1>b, <2>1, <2>2
<1>11. CASE BuildRaises
  <2>1. ipc = "build" /\ quit' /\ idlefuns' = idlefuns \ {"build"} /\ ipc' = "loop" /\ plan' = <<>> /\ UNCHANGED <<mpc, async, items>>
    BY <1>11 DEF BuildRaises, Then
  <2>2. idlefuns' = {} /\ items = {} /\ mpc # "register"
    BY <1>a, <2>1 DEF WorkInv
  <2> QED BY <2>1, <2>2 DEF WorkInv
<1>12. CASE Plan
  BY <1>12, PlanWork
<1> QED BY <1>1, <1>2, <1>4, <1>5, <1>6, <1>7, <1>8, <1>9, <1>10, <1>11, <1>12 DEF IdleStep

LEMMA WorkStep == Types /\ DoorInv /\ WorkInv /\ [Next]_vars => WorkInv'
<1> SUFFICES ASSUME Types, DoorInv, WorkInv, [Next]_vars PROVE WorkInv'
  OBVIOUS
<1> USE DEF shared, cooker, idlethread, client, history, mainthread
<1>1. ASSUME UNCHANGED <<mpc, quit, async, idlefuns, items, ipc, plan>> PROVE WorkInv'
  BY <1>1 DEF WorkInv
<1>2. ASSUME NEW c \in Clients, Connect(c) \/ Close(c) \/ \E k \in Commands : Send(c, k) PROVE WorkInv'
  BY <1>1, <1>2 DEF Connect, Close, Send
<1>3. CASE UNCHANGED vars
  BY <1>1, <1>3 DEF vars
<1> QED BY <1>2, <1>3, MainWork, IdleWork DEF Next, Finished

-----------------------------------------------------------------------------
(* Who waits for the end of the command                                    *)

LEMMA InitOwed == Init => OwedInv
BY DEF Init, OwedInv

\* A reply does not bring back a client that has left.
LEMMA ReplyLeft ==
  ASSUME Types, NEW c \in Clients, NEW st \in {"ui"}, Reply(c, st)
  PROVE  \A d \in Clients : conn'[d] = "left" <=> conn[d] = "left"
BY DEF Types, ClientType, Reply

LEMMA MainOwed ==
  ASSUME Types, DoorInv, WorkInv, OwedInv, MainStep
  PROVE  OwedInv'
<1> USE DEF shared, cooker, idlethread, client, history, mainthread
<1>0. ctrl \in Clients \cup {None} /\ conn \in [Clients -> {"out", "asked", "ui", "left"}] /\ owed \in [Clients -> BOOLEAN]
  BY DEF Types, ServerType, ClientType
<1>1. ASSUME UNCHANGED <<async, ctrl, plan, owed>>, \A c \in Clients : conn'[c] = "left" <=> conn[c] = "left"
      PROVE  OwedInv'
  BY <1>0, <1>1 DEF OwedInv
<1>2. CASE Accept
  <2>1. (ctrl # None => ctrl' = ctrl) /\ ~quit /\ UNCHANGED <<async, plan, owed, conn>>
    BY <1>2 DEF Accept
  <2>2. ctrl = None => async = None
    BY <2>1, TheClient, NoneAssumption DEF DoorInv
  <2> QED BY <2>1, <2>2 DEF OwedInv
<1>3. CASE Attach \/ TimeOut \/ Disconnect \/ AsyncCommand \/ SetTimesOut
  BY <1>1, <1>3 DEF Attach, TimeOut, Disconnect, AsyncCommand, SetTimesOut
<1>4. CASE wait_for_idle
  <2>1. async' = async /\ (async = None \/ ctrl' = None)
    BY <1>4 DEF wait_for_idle, DisconnectEnd, _idle_check
  <2> QED BY <2>1 DEF OwedInv
<1>5. ASSUME NEW k \in {"features", "stop", "force", "terminate"}, SyncCommand(k) PROVE OwedInv'
  <2>1. ctrl \in Clients /\ UNCHANGED <<async, ctrl, plan, owed>>
    BY <1>5, TheClient DEF SyncCommand
  <2>2. conn' = conn \/ Reply(ctrl, "ui")
    BY <1>5 DEF SyncCommand
  <2> QED BY <1>1, <2>1, <2>2, ReplyLeft
<1>6. CASE set_async_cmd
  <2>1. mpc = "set_async_cmd" /\ UNCHANGED <<ctrl, conn>> /\ owed' = [owed EXCEPT ![job.client] = conn[job.client] # "left"]
    BY <1>6 DEF set_async_cmd
  <2>2. job.client = ctrl /\ ctrl \in Clients
    BY <2>1, TheClient DEF DoorInv
  <2>3. owed'[ctrl] = (conn[ctrl] # "left")
    BY <1>0, <2>1, <2>2
  <2> QED BY <2>1, <2>3 DEF OwedInv
<1>7. CASE register_idle_function \/ Busy
  <2>1. job.client \in Clients /\ UNCHANGED <<async, ctrl, plan, owed>>
    BY <1>7, TheClient DEF DoorInv, register_idle_function, Busy
  <2>2. conn' = conn \/ Reply(job.client, "ui")
    BY <1>7 DEF register_idle_function, Busy
  <2> QED BY <1>1, <2>1, <2>2, ReplyLeft
<1>8. CASE Exit
  BY <1>8 DEF Exit, OwedInv
<1> QED BY <1>2, <1>3, <1>4, <1>5, <1>6, <1>7, <1>8 DEF MainStep

\* The first step of what is left of a plan is known by its name.
LEMMA PlanHeads ==
  ASSUME WorkInv, ipc = "plan"
  PROVE  /\ Head(plan).op = "fire" <=> Head(plan) = Fire
         /\ Head(plan).op = "remove" <=> Head(plan) \in {Remove("async"), Remove("build")}
         /\ Head(plan) = Fire => Tail(plan) # <<>> /\ Head(Tail(plan)) = Finish
         /\ Head(plan) = Finish => Tail(plan) # <<>> /\ Head(Tail(plan)) = Clear
         /\ Head(plan) \in {Fire, Finish, Clear, Remove("async"), Remove("build")}
<1>1. \/ \E f \in {"async", "build"} : plan = IdleFinish(f)
      \/ plan \in Ending \cup EndingFirst \cup {ReturnFalse("async")}
  BY DEF WorkInv
<1>2. \/ Head(plan) = Fire /\ Tail(plan) # <<>> /\ Head(Tail(plan)) = Finish
      \/ Head(plan) = Finish /\ Tail(plan) # <<>> /\ Head(Tail(plan)) = Clear
      \/ Head(plan) = Clear
      \/ Head(plan) \in {Remove("async"), Remove("build")}
  BY <1>1, Plans DEF Ending, EndingFirst
<1>3. Fire.op = "fire" /\ Finish.op = "finishcommand" /\ Clear.op = "clear_async_cmd"
      /\ Remove("async").op = "remove" /\ Remove("build").op = "remove"
  BY DEF Fire, Finish, Clear, Remove
<1> QED BY <1>2, <1>3

LEMMA IdleOwed ==
  ASSUME Types, WorkInv, OwedInv, IdleStep
  PROVE  OwedInv'
<1> USE DEF shared, cooker, idlethread, client, history, mainthread
<1>1. CASE Loop \/ Call \/ runAsyncCommand \/ updateCache \/ parse_next \/ Parsed \/ Method \/ BuildGoesOn \/ BuildEnds
           \/ BuildRaises
  <2>1. ipc # "plan" /\ UNCHANGED <<async, ctrl, conn, owed>>
    BY <1>1 DEF Loop, Call, runAsyncCommand, updateCache, parse_next, Parsed, Method, BuildGoesOn, BuildEnds, BuildRaises
  <2>2. plan = <<>>
    BY <2>1 DEF WorkInv
  <2> QED BY <2>1, <2>2 DEF OwedInv
<1>2. CASE Plan
  <2>1. ipc = "plan" /\ plan' = Tail(plan) /\ UNCHANGED <<ctrl, conn>>
    BY <1>2 DEF Plan, Then
  <2>2. CASE Head(plan) \in {Remove("async"), Remove("build")}
    <3>1. UNCHANGED <<async, owed>>
      BY <1>2, <2>2 DEF Plan, remove_idle_func, Remove
    <3>2. Head(plan) \notin {Finish, Clear}
      BY <2>2 DEF Remove, Finish, Clear
    <3> QED BY <2>1, <3>1, <3>2 DEF OwedInv
  <2>3. CASE Head(plan) \in {Fire, Finish}
    BY <2>1, <2>3, PlanHeads DEF OwedInv
  <2>4. CASE Head(plan) = Clear
    <3>1. async' = None
      BY <1>2, <2>4 DEF Plan, Clear, clear_async_cmd
    <3> QED BY <3>1 DEF OwedInv
  <2> QED BY <2>1, <2>2, <2>3, <2>4, PlanHeads
<1> QED BY <1>1, <1>2 DEF IdleStep

\* A connection that is made is not the one behind the command channel.
LEMMA ClientOwed ==
  ASSUME Types, OwedInv, NEW c \in Clients, Connect(c) \/ Close(c) \/ \E k \in Commands : Send(c, k)
  PROVE  OwedInv'
<1>0. ctrl \in Clients \cup {None} /\ conn \in [Clients -> {"out", "asked", "ui", "left"}] /\ owed \in [Clients -> BOOLEAN]
  BY DEF Types, ServerType, ClientType
<1> USE DEF shared, cooker, idlethread, client, history, mainthread
<1>1. UNCHANGED <<async, ctrl, plan>>
  BY DEF Connect, Close, Send
<1>2. CASE Connect(c)
  <2>1. c # ctrl /\ conn' = [conn EXCEPT ![c] = "asked"] /\ owed' = owed
    BY <1>2 DEF Connect, Holds
  <2> QED BY <1>0, <1>1, <2>1 DEF OwedInv
<1>3. CASE Close(c)
  <2>1. conn' = [conn EXCEPT ![c] = "left"] /\ owed' = [owed EXCEPT ![c] = FALSE]
    BY <1>3 DEF Close
  <2> QED BY <1>0, <1>1, <2>1 DEF OwedInv
<1>4. ASSUME NEW k \in Commands, Send(c, k) PROVE OwedInv'
  BY <1>1, <1>4 DEF Send, OwedInv
<1> QED BY <1>2, <1>3, <1>4

LEMMA OwedStep == Types /\ DoorInv /\ WorkInv /\ OwedInv /\ [Next]_vars => OwedInv'
<1> SUFFICES ASSUME Types, DoorInv, WorkInv, OwedInv, [Next]_vars PROVE OwedInv'
  OBVIOUS
<1>1. CASE UNCHANGED vars
  BY <1>1 DEF OwedInv, vars, shared, cooker, idlethread, client, history, mainthread
<1> QED BY <1>1, MainOwed, IdleOwed, ClientOwed DEF Next, Finished

-----------------------------------------------------------------------------
(* The theorems                                                            *)

\* The fairness is not needed for safety.
LEMMA SafetySpec == Spec => Init /\ [][Next]_vars
BY DEF Spec

\* The inductive invariant: whose command it is, what the idle thread works on, and who
\* waits for its end.
THEOREM Invariant == Spec => [](Types /\ DoorInv /\ WorkInv /\ OwedInv)
<1>1. Types /\ DoorInv /\ WorkInv /\ OwedInv /\ [Next]_vars => (Types /\ DoorInv /\ WorkInv /\ OwedInv)'
  BY TypeStep, DoorStep, WorkStep, OwedStep
<1> QED BY <1>1, InitTypes, InitDoor, InitWork, InitOwed, SafetySpec, PTL

\* Every variable of the threads and of the clients stays in its type.
THEOREM TypeCorrect == Spec => []TypeOK
<1>1. Types /\ WorkInv => TypeOK
  BY TypeParts, PlanForms DEF WorkInv
<1> QED BY <1>1, Invariant, PTL

\* As long as there is a command an idle function sees to it, or will, or the idle
\* thread is finishing it; and no idle function works for a command that is over.
THEOREM NoneForgotten == Spec => []Attended
<1>1. ASSUME NEW p, p \in {IdleFinish("async"), IdleFinish("build")} \cup Ending \cup EndingFirst
      PROVE  \E i \in DOMAIN p : p[i].op = "clear_async_cmd"
  <2>0. Clear.op = "clear_async_cmd"
    BY DEF Clear
  <2>1. \A f : DOMAIN IdleFinish(f) = 1..4 /\ IdleFinish(f)[4] = Clear
    BY DEF IdleFinish, Clear
  <2>2. DOMAIN Finish1 = 1..3 /\ Finish1[3] = Clear /\ DOMAIN Finish2 = 1..2 /\ Finish2[2] = Clear
        /\ DOMAIN Finish3 = 1..1 /\ Finish3[1] = Clear
    BY DEF Finish1, Finish2, Finish3
  <2>3. DOMAIN FinishedItself("async") = 1..4 /\ FinishedItself("async")[3] = Clear
    BY DEF FinishedItself, Clear
  <2>4. DOMAIN Itself1 = 1..3 /\ Itself1[2] = Clear /\ DOMAIN Itself2 = 1..2 /\ Itself2[1] = Clear
    BY DEF Itself1, Itself2
  <2> QED BY <1>1, <2>0, <2>1, <2>2, <2>3, <2>4 DEF Ending, EndingFirst
<1>2. ASSUME Types, WorkInv PROVE Attended
  <2>0. ipc \in {"top", "loop", "async", "updateCache", "parse_next", "parsed", "method", "build", "plan", "ended"}
    BY <1>2 DEF Types, SharedType
  <2>1. ASSUME async # None, ~quit PROVE idlefuns # {} \/ mpc = "register" \/ Clearing
    <3>1. CASE ipc # "plan"
      BY <1>2, <2>0, <2>1, <3>1 DEF WorkInv
    <3>2. CASE ipc = "plan"
      <4>1. idlefuns # {} \/ plan \in Ending
        BY <1>2, <2>1, <3>2 DEF WorkInv
      <4> QED BY <1>1, <4>1 DEF Clearing
    <3> QED BY <3>1, <3>2
  <2>2. "build" \in idlefuns => async # None
    BY <1>2, <2>0 DEF WorkInv
  <2>3. ipc \in {"method", "updateCache", "parse_next", "parsed"} => async # None
    BY <1>2 DEF WorkInv
  <2> QED BY <2>1, <2>2, <2>3 DEF Attended
<1> QED BY <1>2, Invariant, PTL

\* A client is only told the end of its own commands, of this connection, and once,
\* whoever leaves, or comes back, while a command runs.
THEOREM OnlyOwn == Spec => []OwnEvents
<1>1. Init => OwnEvents
  BY DEF Init, OwnEvents
<1>2. Types /\ DoorInv /\ WorkInv /\ OwedInv /\ OwnEvents /\ [Next]_vars => OwnEvents'
  <2> SUFFICES ASSUME Types, DoorInv, WorkInv, OwedInv, OwnEvents, [Next]_vars PROVE OwnEvents'
    OBVIOUS
  <2> USE DEF shared, cooker, idlethread, client, history, mainthread
  <2>1. CASE UNCHANGED heard
    BY <2>1 DEF OwnEvents
  <2>2. CASE Plan
    <3>1. CASE UNCHANGED heard
      BY <2>1, <3>1
    <3>2. CASE FireEnd /\ Head(plan) = Fire /\ heard' # heard
      <4>1. haveui /\ conn[ctrl] # "left" /\ async # None
        BY <3>2 DEF FireEnd
      <4>2. ctrl \in Clients /\ heard \in [Clients -> SUBSET (Clients \cup {None})]
        BY <4>1, TheClient DEF Types, ClientType
      <4>3. owed[ctrl]
        BY <3>2, <4>1, <4>2, NoneAssumption DEF OwedInv, Fire, Finish, Clear
      <4>4. async.client = ctrl
        BY <4>1, <4>2, NoneAssumption DEF DoorInv
      <4>5. heard' = [heard EXCEPT ![ctrl] = heard[ctrl] \cup {ctrl}]
        BY <3>2, <4>1, <4>3, <4>4 DEF FireEnd
      <4> QED BY <4>2, <4>5 DEF OwnEvents
    <3>3. heard' = heard \/ (FireEnd /\ Head(plan).op = "fire")
      BY <2>2 DEF Plan, remove_idle_func, finishcommand, clear_async_cmd
    <3>4. Head(plan).op = "fire" => Head(plan) = Fire
      BY <2>2, PlanHeads DEF Plan
    <3> QED BY <3>1, <3>2, <3>3, <3>4
  <2>3. CASE MainStep
    <3>1. UNCHANGED heard
      BY <2>3 DEF MainStep, Accept, Attach, TimeOut, Disconnect, wait_for_idle, DisconnectEnd, SyncCommand, AsyncCommand,
                  set_async_cmd, register_idle_function, SetTimesOut, Busy, Exit
    <3> QED BY <2>1, <3>1
  <2>4. CASE Loop \/ Call \/ runAsyncCommand \/ updateCache \/ parse_next \/ Parsed \/ Method \/ BuildGoesOn \/ BuildEnds
             \/ BuildRaises
    BY <2>1, <2>4 DEF Loop, Call, runAsyncCommand, updateCache, parse_next, Parsed, Method, BuildGoesOn, BuildEnds, BuildRaises
  <2>5. ASSUME NEW c \in Clients, Connect(c) \/ Close(c) \/ \E k \in Commands : Send(c, k) PROVE OwnEvents'
    BY <2>1, <2>5 DEF Connect, Close, Send
  <2>6. CASE UNCHANGED vars
    BY <2>1, <2>6 DEF vars
  <2> QED BY <2>2, <2>3, <2>4, <2>5, <2>6 DEF Next, IdleStep, Finished
<1> QED BY <1>1, <1>2, Invariant, SafetySpec, PTL
=============================================================================
