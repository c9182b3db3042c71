---------------------------- MODULE MCSspSession ----------------------------
(* Values of SspSession's constants for TLC. *)
EXTENDS SspSession

CONSTANTS down, up

Transfers == {down, up}
Ups == {up}
None == {}
SidOf == [r \in Requests |-> IF r = down THEN 3 ELSE 4]
KindOf == [r \in Requests |-> IF r = down THEN "download" ELSE "upload"]
One == [r \in Requests |-> 1]
=============================================================================
