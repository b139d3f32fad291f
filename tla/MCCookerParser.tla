--------------------------- MODULE MCCookerParser ---------------------------
(* Two parsers, one with a recipe that sends an event while it is parsed and *)
(* one with two recipes, so that a parser can end while the other goes on.   *)
EXTENDS CookerParser

CONSTANTS p1, p2

MCJobs == [p \in Parsers |-> IF p = p1 THEN {1} ELSE {2, 3}]
MCNoisy == {1}
=============================================================================
