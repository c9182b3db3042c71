------------------------- MODULE MCRuntimeSessions -------------------------
(* Values of RuntimeSessions' constants for TLC. *)
EXTENDS RuntimeSessions

CONSTANTS t1, t2, s1

TwoTransfers == {t1, t2}
OneSession == {s1}
Nobody == {}
OneBatch == {t1}
AllOnFirst == [t \in TransferIds |-> s1]
=============================================================================
