---------------------------- MODULE MCMediaEvents ----------------------------
(* Values of MediaEvents' constants for TLC. *)
EXTENDS MediaEvents

CONSTANT r1

OneReader == {r1}
OnlyVideo == {"Video"}
SomeLimits == {0, 1, 2}
=============================================================================
