---------------------------- MODULE MCHashServer ----------------------------
(* Two tasks a and b with the same output and a third with another one; two  *)
(* builds that report and one that only reads.                               *)
EXTENDS HashServer

CONSTANTS a, b, c, x, y, b1, b2, r

MCOutput == [t \in Hashes |-> IF t = c THEN {y} ELSE {x}]
MCClass == [t \in Hashes |-> IF t = c THEN 2 ELSE 1]

Server(db, u, cs, ts, us) == [backend |-> db, upstream |-> u, clients |-> cs, tasks |-> ts, uses |-> us]
Databases == {"sqlite", "sqlalchemy"}

\* Two builds that race, with collections, removals and declared equivalences; a build
\* and a reader below an upstream server; a build whose server restarts, and one whose
\* upstream server forgets.
MCServers ==
  UNION {{Server(db, FALSE, {b1, b2}, {a, b}, {"gc", "restart"}),
          Server(db, FALSE, {b1, b2}, {a, b}, {"remove", "clean"}),
          Server(db, FALSE, {b1}, {a, b}, {"equiv", "gc"}),
          Server(db, FALSE, {b1, r}, {a, c}, {"get", "equiv"}),
          Server(db, TRUE, {b1, r}, {a, c}, {}),
          Server(db, TRUE, {b1}, {a, b}, {"get", "restart"}),
          Server(db, TRUE, {b1}, {a}, {"get", "forget"})} : db \in Databases}

=============================================================================
