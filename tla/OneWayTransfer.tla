--------------------------- MODULE OneWayTransfer ---------------------------
(***************************************************************************)
(* What the transfer registry promises to a reader of get_transfer and     *)
(* list_transfers: a transfer is queued, then runs, then ends once and for *)
(* all, and only an ended transfer leaves the history.                     *)
(***************************************************************************)
CONSTANT TransferIds

VARIABLE visible    \* what a reader sees of each transfer

Ended == {"Completed", "Failed", "Cancelled"}

Init == visible = [t \in TransferIds |-> "none"]

Run(t) == visible[t] = "Queued" /\ visible' = [visible EXCEPT ![t] = "Running"]

End(t) ==
    /\ visible[t] \in {"Queued", "Running"}
    /\ \E e \in Ended : visible' = [visible EXCEPT ![t] = e]

\* Registering one transfer may evict others from the history.
QueueAndForget(t) ==
    \E gone \in SUBSET {u \in TransferIds : visible[u] \in Ended} :
        /\ visible[t] = "none"
        /\ visible' = [u \in TransferIds |->
                          IF u = t THEN "Queued"
                          ELSE IF u \in gone THEN "gone" ELSE visible[u]]

Next == \E t \in TransferIds : Run(t) \/ End(t) \/ QueueAndForget(t)

Spec == Init /\ [][Next]_visible
=============================================================================
