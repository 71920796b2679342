--------------------------- MODULE BatchDelivery ---------------------------
(***************************************************************************)
(* What POST /v1/traces promises an exporter, without requests, retries or *)
(* failures: the groups of spans in a batch reach the database one by one, *)
(* each whole and for good, and an acknowledged batch is there entirely.   *)
(***************************************************************************)
CONSTANTS
    Batches,
    Groups,     \* the groups of each batch
    Refused     \* batches that are never accepted

VARIABLES delivered, acknowledged

vars == <<delivered, acknowledged>>

Init ==
    /\ delivered = [b \in Batches |-> {}]
    /\ acknowledged = {}

Deliver(b, g) ==
    /\ b \notin Refused
    /\ g \in Groups[b]
    /\ delivered' = [delivered EXCEPT ![b] = @ \cup {g}]
    /\ UNCHANGED acknowledged

Acknowledge(b) ==
    /\ b \notin Refused
    /\ delivered[b] = Groups[b]
    /\ acknowledged' = acknowledged \cup {b}
    /\ UNCHANGED delivered

Next == \E b \in Batches : Acknowledge(b) \/ \E g \in Groups[b] : Deliver(b, g)

Spec == Init /\ [][Next]_vars
=============================================================================
