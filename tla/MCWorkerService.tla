---------------------------- MODULE MCWorkerService ----------------------------
(***************************************************************************)
(* Small instances of WorkerService.                                       *)
(***************************************************************************)
EXTENDS WorkerService, TLC

CONSTANTS n1, n2, m1, m2

\* One message, for n1; n2 is left to the poller.
Single == m1 :> n1

\* One message names a notification, the other is poison.
WithMalformed   == m1 :> n1 @@ m2 :> Malformed
WithUndecodable == m1 :> n1 @@ m2 :> Undecodable
OnlyUndecodable == m1 :> Undecodable

\* Instances are interchangeable; sound for the safety properties only.
Interchangeable == Permutations(Instance)

=============================================================================
