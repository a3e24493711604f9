------------------------------- MODULE PushTally -------------------------------
(***************************************************************************)
(* What PushMetrics promises of its counters: every increment is one step, *)
(* every report takes exactly what was counted since the last one.         *)
(***************************************************************************)
EXTENDS Naturals

CONSTANT Key

VARIABLES
  counted,   \* counted since the last report
  reported   \* the sum of all reports

TallyInit ==
  /\ counted = [k \in Key |-> 0]
  /\ reported = [k \in Key |-> 0]

Count(k) ==
  /\ counted' = [counted EXCEPT ![k] = @ + 1]
  /\ UNCHANGED reported

Report ==
  /\ reported' = [k \in Key |-> reported[k] + counted[k]]
  /\ counted' = [k \in Key |-> 0]

TallyNext == Report \/ \E k \in Key : Count(k)

TallySpec == TallyInit /\ [][TallyNext]_<<counted, reported>>

=============================================================================
