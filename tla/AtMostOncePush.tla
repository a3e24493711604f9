---------------------------- MODULE AtMostOncePush ----------------------------
(***************************************************************************)
(* What the delivery ledger promises about one notification and one        *)
(* device, whatever threads, instances, crashes and reclaims do:           *)
(*   - at most one attempt to push is under way at a time;                 *)
(*   - no attempt starts once one was confirmed, or died undecided;        *)
(*   - only an attempt that Expo answered with a failure may be repeated.  *)
(* How the promise is kept (rows, their statuses, sealing) is left open.   *)
(***************************************************************************)
CONSTANTS Notification, Device

VARIABLES
  open,       \* open[n]: devices with an attempt under way
  confirmed,  \* confirmed[n]: devices whose attempt Expo confirmed
  closed      \* closed[n]: devices no attempt may start for

pushVars == <<open, confirmed, closed>>

PushInit ==
  /\ open = [n \in Notification |-> {}]
  /\ confirmed = [n \in Notification |-> {}]
  /\ closed = [n \in Notification |-> {}]

Begin(n, d) ==
  /\ d \notin open[n] \cup closed[n]
  /\ open' = [open EXCEPT ![n] = @ \cup {d}]
  /\ UNCHANGED <<confirmed, closed>>

Confirm(n, d) ==
  /\ d \in open[n]
  /\ d \notin confirmed[n]
  /\ confirmed' = [confirmed EXCEPT ![n] = @ \cup {d}]
  /\ UNCHANGED <<open, closed>>

\* The attempt failed for certain: it may be repeated, unless d is closed.
Fail(n, d) ==
  /\ d \in open[n] \ confirmed[n]
  /\ open' = [open EXCEPT ![n] = @ \ {d}]
  /\ UNCHANGED <<confirmed, closed>>

\* The attempt is recorded as sent, or its worker died: d is closed for good.
Conclude(n, d) ==
  /\ d \in open[n]
  /\ open' = [open EXCEPT ![n] = @ \ {d}]
  /\ closed' = [closed EXCEPT ![n] = @ \cup {d}]
  /\ UNCHANGED confirmed

\* Attempts under way are declared undecided, and may still end.
Close ==
  /\ \E S \in [Notification -> SUBSET Device] :
       /\ \A n \in Notification : S[n] \subseteq open[n]
       /\ closed' = [n \in Notification |-> closed[n] \cup S[n]]
  /\ UNCHANGED <<open, confirmed>>

PushNext ==
  \/ \E n \in Notification, d \in Device :
       Begin(n, d) \/ Confirm(n, d) \/ Fail(n, d) \/ Conclude(n, d)
  \/ Close

PushSpec == PushInit /\ [][PushNext]_pushVars

=============================================================================
