--------------------------- MODULE MCProcessServer ---------------------------
(***************************************************************************)
(* Servers, and the clients that come to them, for TLC.                    *)
(***************************************************************************)
EXTENDS ProcessServer

CONSTANTS c1, c2, c3

Server(t, commands) == [timeout |-> t, commands |-> commands]

Sending(k1, k2) == [c \in {c1, c2} |-> IF c = c1 THEN k1 ELSE k2]

\* Three clients that look in only, so that two can take turns while the third one waits.
Visitors == [c \in {c1, c2, c3} |-> {}]

MCSetups ==
  {Server("none", Sending({"build", "query", "stop", "force"}, {"file", "stop"})),
   Server("some", Sending({"file", "query", "force"}, {"build", "terminate"})),
   Server("some", Visitors)}

\* For ShutdownMode, one client.
OneClient == {Server("none", [c \in {c1} |-> {"build", "stop"}])}
=============================================================================
