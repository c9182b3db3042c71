-------------------------- MODULE MCNativeHandles --------------------------
(* Values of NativeHandles' constants for TLC: threads that share a handle, *)
(* two subscriptions over a quota of one, two publishers.                   *)
EXTENDS NativeHandles

CONSTANTS c1, c2, s1, s2, p1, p2

TwoCallers == {c1, c2}
TwoSubs == {s1, s2}
TwoPublishers == {p1, p2}
=============================================================================
