----------------------------- MODULE MCSyncJobs -----------------------------
(* Values of SyncJobs' constants for TLC. *)
EXTENDS SyncJobs

CONSTANTS j1, j2, w1, s1, u1, p1

TwoJobs == {j1, j2}
OneWatch == {w1}
OneStop == {s1}
OneUnwatch == {u1}
OneProfile == {p1}
AllOnFirst == [j \in Jobs |-> p1]
OneLedger == [p \in Profiles |-> "ledger"]
GoodFormat == [id_len |-> 128, device_uuid_len |-> 1, control_characters |-> FALSE,
               device_uuid_charset_ok |-> TRUE, local_root_absolute |-> TRUE,
               remote_root_absolute |-> TRUE]
Nobody == {}
AllGood == [p \in Profiles |-> GoodFormat]
=============================================================================
