------------------------- MODULE NotificationLifecycle -------------------------
(***************************************************************************)
(* The life of notifications.push_status as the readers of the table see   *)
(* it: pending -> processing -> sent or failed, with a way back from       *)
(* processing when the worker is lost.  Who claims and why is left open.   *)
(***************************************************************************)
CONSTANT Notification

VARIABLE status

LifeInit == status \in [Notification -> {"missing", "pending"}]

Insert ==
  \E n \in Notification :
    /\ status[n] = "missing"
    /\ status' = [status EXCEPT ![n] = "pending"]

\* Every notification in S goes from one status to another, all at once.
Move(S, from, to) ==
  /\ \A n \in S : status[n] = from
  /\ status' = [n \in Notification |-> IF n \in S THEN to ELSE status[n]]

Claim   == \E S \in SUBSET Notification : Move(S, "pending", "processing")
Requeue == \E S \in SUBSET Notification : Move(S, "processing", "pending")

Conclude ==
  \E n \in Notification : Move({n}, "processing", "sent") \/ Move({n}, "processing", "failed")

LifeNext == Insert \/ Claim \/ Requeue \/ Conclude

LifeSpec == LifeInit /\ [][LifeNext]_status

=============================================================================
