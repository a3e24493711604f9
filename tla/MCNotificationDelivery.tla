------------------------ MODULE MCNotificationDelivery ------------------------
(***************************************************************************)
(* Small instances of NotificationDelivery.  The sets of notifications,    *)
(* devices and workers are model values given by each configuration.       *)
(***************************************************************************)
EXTENDS NotificationDelivery, TLC

\* Every device is a recipient of every notification.
AllDevices == [n \in Notification |-> Device]

\* The recipient query orders the devices in some fixed way.
Order == CHOOSE r \in [Device -> 1 .. Cardinality(Device)] : IsInjective(r)

\* Workers are interchangeable; sound for the safety properties only.
Interchangeable == Permutations(Worker)

\* No guard reads the history, so runs whose properties do not mention it may
\* identify states that differ in it only.
WithoutHistory == <<push_status, stale, ledger, active, task>>

=============================================================================
