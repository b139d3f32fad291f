---------------------------- MODULE MCMigrations ----------------------------
(***************************************************************************)
(* A small build with hash equivalence for TLC.                            *)
(***************************************************************************)
EXTENDS Migrations, MCRunQueue

AnyStamps == SUBSET Tasks
AnySetscene == SUBSET SetsceneTids

DiamondOptions == {Plain, Forcing, Skipping}

\* The setscene tasks 2 and 3 both cover 1; 2 and 5 have a hard dependency on 3.  1 is
\* a target as well as below 2 and 3, so it runs whatever they do.  The target 5 is
\* itself a setscene task and covers 4.  The outputs of 2 and 3 can change the hash of
\* 5 while 4 runs, and make it that of 2, the same task in another multiconfig.
DiamondTasks == 1..5
DiamondDepends == <<{}, {1}, {1}, {3}, {2, 4}>>
DiamondFiles == <<1, 1, 2, 2, 2>>
DiamondNames == <<1, 2, 3, 4, 2>>
DiamondHard == [t \in SetsceneTids |-> IF t = 3 THEN {} ELSE {3}]

\* 3 is a hard dependency of 4, and 1 of 2, which only 4 needs.  An earlier build has
\* restored 4 under the hash that the output of 3 may give it in this one.
ReturnTasks == 1..4
ReturnDepends == <<{}, {1}, {}, {2, 3}>>
ReturnHard == [t \in SetsceneTids |-> CASE t = 2 -> {1} [] t = 4 -> {3} [] OTHER -> {}]
ReturnSetscene == {{}, {4}}
=============================================================================
