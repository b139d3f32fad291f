----------------------------- MODULE MCRunQueue -----------------------------
(***************************************************************************)
(* Small builds for TLC.                                                   *)
(***************************************************************************)
EXTENDS RunQueue

NoStamps == {{}}

Distinct == [t \in Tasks |-> t]
Unlimited == [t \in Tasks |-> 0]

\* Command lines: bitbake, and bitbake with one option
Plain == [halt |-> TRUE, force |-> FALSE, skipsetscene |-> FALSE,
          setsceneonly |-> FALSE, enforce |-> FALSE]
Continue == [Plain EXCEPT !.halt = FALSE]
Forcing == [Plain EXCEPT !.force = TRUE]
Skipping == [Plain EXCEPT !.skipsetscene = TRUE]
OnlySetscene == [Plain EXCEPT !.setsceneonly = TRUE]
Enforcing == [Plain EXCEPT !.enforce = TRUE]

PlainOnly == {Plain}
TwinOptions == {Plain, Continue, OnlySetscene, Enforcing}

\* Two multiconfigs build the same recipe: 1 and 2 have the same hash, so 2 is
\* deferred after 1; 3 is a hard dependency of 2.  4 and 5 are the targets.
TwinTasks == 1..5
TwinDepends == <<{}, {}, {}, {1}, {2, 3}>>
TwinHash == <<1, 1, 3>>
TwinHard == <<{}, {3}, {}>>
=============================================================================
