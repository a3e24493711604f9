------------------------ MODULE NotificationOutcomeProofs ------------------------
(***************************************************************************)
(* What a finalized notification says of its devices, for every set of     *)
(* notifications, devices and workers: nobody was forgotten, sent is       *)
(* backed by a row, and, while leases cover jobs, failed means that no     *)
(* device was sent to and no row is left open.                             *)
(***************************************************************************)
EXTENDS NotificationDeliveryProofs

-----------------------------------------------------------------------------
(* The steps of a job, field by field                                       *)

\* After the step the task of w is at pc, for the same job, with these fields;
\* the other tasks are as they were.
After(w, pc, todo, anySent, verdict) ==
  /\ task'[w].pc = pc
  /\ task'[w].job = task[w].job
  /\ task'[w].todo = todo
  /\ task'[w].anySent = anySent
  /\ task'[w].verdict = verdict
  /\ \A v \in Worker \ {w} : task'[v] = task[v]

\* Resolve sends the job to its first device, or to the end when there is none.
LEMMA ResolveEffect ==
  ASSUME TypeOK, NEW w \in Worker, Resolve(w)
  PROVE  /\ task[w].pc = "resolve"
         /\ IF Targets(task[w].job) = {}
            THEN After(w, "finalize", task[w].todo, task[w].anySent, "sent")
            ELSE After(w, "device", Targets(task[w].job), task[w].anySent, task[w].verdict)
         /\ UNCHANGED <<database, history>>
<1>1. task[w] \in Task /\ task \in [Worker -> TaskInProgress]
  BY DEF TypeOK, TaskInProgress
<1> QED
  BY <1>1 DEF Resolve, Become, After, Task

\* ClaimDevice opens the row of a device that had none and goes on to send.
LEMMA ClaimDeviceEffect ==
  ASSUME TypeOK, NEW w \in Worker, NEW d \in Device, ClaimDevice(w, d)
  PROVE  /\ task[w].pc = "device"
         /\ After(w, "send", task[w].todo \ {d}, task[w].anySent, task[w].verdict)
         /\ task'[w].target = d
         /\ ledger[task[w].job][d] = "none"
         /\ \A n \in Notification, e \in Device :
              ledger'[n][e] = IF n = task[w].job /\ e = d THEN "sending" ELSE ledger[n][e]
         /\ UNCHANGED <<push_status, stale, active, history>>
<1>1. /\ task[w] \in Task /\ task \in [Worker -> TaskInProgress]
      /\ ledger \in [Notification -> [Device -> RowStatus]]
  BY DEF TypeOK, TaskInProgress
<1>2. /\ task[w].pc = "device"
      /\ After(w, "send", task[w].todo \ {d}, task[w].anySent, task[w].verdict)
      /\ task'[w].target = d
  BY <1>1 DEF ClaimDevice, Become, After, Task
<1>3. \A n \in Notification, e \in Device :
        ledger'[n][e] = IF n = task[w].job /\ e = d THEN "sending" ELSE ledger[n][e]
  BY <1>1 DEF ClaimDevice
<1> QED
  BY <1>2, <1>3 DEF ClaimDevice

\* SkipDevice passes over a device that has a row.
LEMMA SkipDeviceEffect ==
  ASSUME TypeOK, NEW w \in Worker, NEW d \in Device, SkipDevice(w, d)
  PROVE  /\ task[w].pc = "device"
         /\ After(w, AfterTarget(task[w].todo \ {d}, task[w].invalid), task[w].todo \ {d},
                  task[w].anySent, task[w].verdict)
         /\ ledger[task[w].job][d] # "none"
         /\ UNCHANGED <<database, history>>
<1>1. task[w] \in Task /\ task \in [Worker -> TaskInProgress]
  BY DEF TypeOK, TaskInProgress
<1> QED
  BY <1>1 DEF SkipDevice, Become, After, Task

\* Send adds its device to the attempted ones and leaves the tables alone.
LEMMA SendEffect ==
  ASSUME TypeOK, NEW w \in Worker, NEW a \in Answers, Send(w, a)
  PROVE  /\ task[w].pc = "send"
         /\ After(w, "record", task[w].todo, task[w].anySent, task[w].verdict)
         /\ task'[w].target = task[w].target
         /\ attempted' = [attempted EXCEPT ![task[w].job] = @ \cup {task[w].target}]
         /\ UNCHANGED <<database, orphaned>>
<1>1. task[w] \in Task /\ task \in [Worker -> TaskInProgress]
  BY DEF TypeOK, TaskInProgress
<1> QED
  BY <1>1 DEF Send, Become, After, Task

\* MarkSent closes the row of its device after an ok.
LEMMA MarkSentEffect ==
  ASSUME TypeOK, NEW w \in Worker, MarkSent(w)
  PROVE  /\ task[w].pc = "record" /\ task[w].reply = "ok"
         /\ After(w, AfterTarget(task[w].todo, task[w].invalid), task[w].todo,
                  TRUE, task[w].verdict)
         /\ \A n \in Notification, e \in Device :
              ledger'[n][e] = IF n = task[w].job /\ e = task[w].target
                              THEN SentRow(ledger[n][e]) ELSE ledger[n][e]
         /\ UNCHANGED <<push_status, stale, active, history>>
<1>1. /\ task[w] \in Task /\ task \in [Worker -> TaskInProgress]
      /\ ledger \in [Notification -> [Device -> RowStatus]]
  BY DEF TypeOK, TaskInProgress
<1>2. After(w, AfterTarget(task[w].todo, task[w].invalid), task[w].todo, TRUE, task[w].verdict)
  BY <1>1 DEF MarkSent, Become, After, Task
<1>3. \A n \in Notification, e \in Device :
        ledger'[n][e] = IF n = task[w].job /\ e = task[w].target
                        THEN SentRow(ledger[n][e]) ELSE ledger[n][e]
  BY <1>1 DEF MarkSent
<1> QED
  BY <1>2, <1>3 DEF MarkSent

\* ReleaseClaim takes the open row of its device away.
LEMMA ReleaseClaimEffect ==
  ASSUME TypeOK, NEW w \in Worker, ReleaseClaim(w)
  PROVE  /\ task[w].pc = "record" /\ task[w].reply # "ok"
         /\ \E invalid : After(w, AfterTarget(task[w].todo, invalid), task[w].todo,
                               task[w].anySent, task[w].verdict)
         /\ \A n \in Notification, e \in Device :
              ledger'[n][e] = IF n = task[w].job /\ e = task[w].target
                              THEN ReleasedRow(ledger[n][e]) ELSE ledger[n][e]
         /\ UNCHANGED <<push_status, stale, active, history>>
<1> DEFINE invalid == IF task[w].reply = "unregistered"
                      THEN task[w].invalid \cup {task[w].target} ELSE task[w].invalid
<1>1. /\ task[w] \in Task /\ task \in [Worker -> TaskInProgress]
      /\ ledger \in [Notification -> [Device -> RowStatus]]
  BY DEF TypeOK, TaskInProgress
<1>2. After(w, AfterTarget(task[w].todo, invalid), task[w].todo, task[w].anySent, task[w].verdict)
  BY <1>1 DEF ReleaseClaim, Become, After, Task
<1>3. \A n \in Notification, e \in Device :
        ledger'[n][e] = IF n = task[w].job /\ e = task[w].target
                        THEN ReleasedRow(ledger[n][e]) ELSE ledger[n][e]
  BY <1>1 DEF ReleaseClaim
<1> QED
  BY <1>2, <1>3 DEF ReleaseClaim

\* DeactivateTokens only ever switches tokens off.
LEMMA DeactivateEffect ==
  ASSUME TypeOK, NEW w \in Worker, DeactivateTokens(w)
  PROVE  /\ task[w].pc = "deactivate"
         /\ After(w, "seal", task[w].todo, task[w].anySent, task[w].verdict)
         /\ \A d \in Device : active'[d] => active[d]
         /\ UNCHANGED <<push_status, stale, ledger, history>>
<1>1. task[w] \in Task /\ task \in [Worker -> TaskInProgress]
  BY DEF TypeOK, TaskInProgress
<1> QED
  BY <1>1 DEF DeactivateTokens, Become, After, Task

\* SealOpenSending closes the open rows of its notification.
LEMMA SealEffect ==
  ASSUME TypeOK, NEW w \in Worker, SealOpenSending(w)
  PROVE  /\ task[w].pc = "seal"
         /\ After(w, "decide", task[w].todo, task[w].anySent, task[w].verdict)
         /\ ledger' = Sealed({task[w].job})
         /\ UNCHANGED <<push_status, stale, active, history>>
<1>1. task[w] \in Task /\ task \in [Worker -> TaskInProgress]
  BY DEF TypeOK, TaskInProgress
<1> QED
  BY <1>1 DEF SealOpenSending, Become, After, Task

\* Decide takes the verdict from what was sent and the ledger.
LEMMA DecideEffect ==
  ASSUME TypeOK, NEW w \in Worker, Decide(w)
  PROVE  /\ task[w].pc = "decide"
         /\ After(w, "finalize", task[w].todo, task[w].anySent,
                  IF task[w].anySent \/ HasAnySent(task[w].job) THEN "sent" ELSE "failed")
         /\ UNCHANGED <<database, history>>
<1>1. task[w] \in Task /\ task \in [Worker -> TaskInProgress]
  BY DEF TypeOK, TaskInProgress
<1> QED
  BY <1>1 DEF Decide, Become, After, Task

\* Finalize and Fault leave the slot of w idle.
LEMMA IdleEffect ==
  ASSUME TypeOK, NEW w \in Worker, Finalize(w) \/ Fault(w)
  PROVE  task'[w].pc = "idle" /\ \A v \in Worker \ {w} : task'[v] = task[v]
<1>1. task \in [Worker -> TaskInProgress] /\ task' = [task EXCEPT ![w] = NoTask]
  BY DEF TypeOK, Finalize, Fault, Become
<1>2. NoTask.pc = "idle"
  BY DEF NoTask
<1> QED
  BY <1>1, <1>2

\* A claim: idle slots start at "resolve" with a pending row each.
LEMMA TakeEffect ==
  ASSUME NEW ws \in SUBSET Idle, NEW owner \in [ws -> Pending], Take(owner)
  PROVE  /\ \A w \in Worker :
              IF w \in ws
              THEN /\ task[w].pc = "idle"
                   /\ owner[w] \in Pending
                   /\ task'[w] = [NoTask EXCEPT !.pc = "resolve", !.job = owner[w]]
              ELSE task'[w] = task[w]
         /\ \A n \in Notification :
              push_status'[n] # push_status[n] =>
                push_status[n] = "pending" /\ push_status'[n] = "processing"
         /\ UNCHANGED <<ledger, active, history>>
<1>1. \A w \in Worker : IF w \in ws
                        THEN task'[w] = [NoTask EXCEPT !.pc = "resolve", !.job = owner[w]]
                        ELSE task'[w] = task[w]
  BY DEF Take
<1>2. \A w \in ws : task[w].pc = "idle" /\ owner[w] \in Pending
  BY DEF Idle
<1>3. Range(owner) \subseteq Pending
  BY DEF Range
<1>4. \A n \in Notification :
        push_status'[n] # push_status[n] =>
          push_status[n] = "pending" /\ push_status'[n] = "processing"
  BY <1>3 DEF Take, Pending
<1> QED
  BY <1>1, <1>2, <1>4 DEF Take

-----------------------------------------------------------------------------
(* Nobody is forgotten, and sent is backed                                  *)

\* Device d of notification n was sent to, is being sent to, or was lost.
Tried(n, d) == d \in attempted[n] \cup orphaned[n] \/ \E w \in Worker : Holds(w, n, d)

\* Only a try leaves a row.
RowsTried == \A n \in Notification, d \in Device : ledger[n][d] # "none" => Tried(n, d)

\* Why n may be sent.
Backed(n) == HasAnySent(n) \/ \A d \in Recipients[n] : ~active[d]

\* What the job of w has seen to: every active recipient is tried or still to
\* do, and nothing is to do once the loop is over; what it will write is backed.
Progress(w) ==
  task[w].pc # "idle" =>
    /\ task[w].pc \notin {"device", "send", "record"} => task[w].todo = {}
    /\ task[w].pc = "record" => task[w].target \in attempted[task[w].job]
    /\ task[w].pc # "resolve" => \A d \in Recipients[task[w].job] :
         active[d] => d \in task[w].todo \/ Tried(task[w].job, d)
    /\ task[w].anySent => HasAnySent(task[w].job)
    /\ task[w].pc = "finalize" /\ task[w].verdict = "sent" => Backed(task[w].job)

\* NoDeviceForgotten and SentIsBacked with what the jobs under way know.
OutcomeInv ==
  /\ RowsTried
  /\ \A w \in Worker : Progress(w)
  /\ NoDeviceForgotten
  /\ SentIsBacked

\* A device that was tried stays so, a deactivated token too, and a row that
\* says sent.
Lasting ==
  /\ \A n \in Notification, d \in Device : Tried(n, d) => Tried(n, d)'
  /\ \A n \in Notification : attempted[n] \subseteq attempted'[n]
  /\ \A n \in Notification : HasAnySent(n) => HasAnySent(n)'
  /\ \A d \in Device : active'[d] => active[d]

\* No step releases a device without leaving word of the try.
LEMMA TriedLasts ==
  ASSUME \A n \in Notification : /\ attempted[n] \subseteq attempted'[n]
                                 /\ orphaned[n] \subseteq orphaned'[n],
         \A w \in Worker, n \in Notification, d \in Device :
           Holds(w, n, d) => Holds(w, n, d)' \/ d \in attempted'[n] \cup orphaned'[n]
  PROVE  \A n \in Notification, d \in Device : Tried(n, d) => Tried(n, d)'
BY DEF Tried

\* A step that touches neither rows, tokens nor history, and takes nobody from
\* between try_claim and the record.
LEMMA QuietLasts ==
  ASSUME UNCHANGED <<ledger, active, history>>,
         \A w \in Worker : task[w].pc \in {"send", "record"} => task'[w] = task[w]
  PROVE  Lasting
<1>1. \A w \in Worker, n \in Notification, d \in Device : Holds(w, n, d) => Holds(w, n, d)'
  BY DEF Holds
<1>2. \A n \in Notification, d \in Device : Tried(n, d) => Tried(n, d)'
  BY <1>1, TriedLasts DEF history
<1> QED
  BY <1>2 DEF Lasting, HasAnySent, history

\* Every step keeps what NobodyForgotten needs to last.
LEMMA Lasts ==
  ASSUME IInv, OutcomeInv, [Next]_vars
  PROVE  Lasting
<1>t. TypeOK
  BY DEF IInv
<1>1. ASSUME NEW w \in Worker, UNCHANGED <<ledger, active, history>>,
             task[w].pc \notin {"send", "record"},
             \A v \in Worker \ {w} : task'[v] = task[v]
      PROVE  Lasting
  BY <1>1, QuietLasts
<1>2. ASSUME NEW ws \in SUBSET Idle, NEW owner \in [ws -> Pending], Take(owner) PROVE Lasting
  <2>1. /\ UNCHANGED <<ledger, active, history>>
        /\ \A w \in Worker : task[w].pc # "idle" => task'[w] = task[w]
    BY <1>2, TakeEffect
  <2> QED
    BY <2>1, QuietLasts
<1>3. ASSUME NEW w \in Worker, NEW n \in Notification, ClaimById(w, n) PROVE Lasting
  <2>1. /\ {w} \in SUBSET Idle
        /\ [v \in {w} |-> n] \in [{w} -> Pending]
        /\ Take([v \in {w} |-> n])
    BY <1>3 DEF ClaimById
  <2> QED
    BY <2>1, <1>2
<1>4. ASSUME NEW ws \in SUBSET Idle, NEW owner \in [ws -> Pending], ClaimBatch(owner)
      PROVE  Lasting
  BY <1>4, <1>2 DEF ClaimBatch
<1>5. ASSUME NEW w \in Worker, Resolve(w) PROVE Lasting
  BY <1>t, <1>5, <1>1, ResolveEffect DEF After, database
<1>6. ASSUME NEW w \in Worker, NEW d \in Device, ClaimDevice(w, d) PROVE Lasting
  <2>1. /\ task[w].pc = "device"
        /\ \A v \in Worker \ {w} : task'[v] = task[v]
        /\ \A n \in Notification, e \in Device : ledger[n][e] = "sent" => ledger'[n][e] = "sent"
        /\ UNCHANGED <<active, history>>
    BY <1>t, <1>6, ClaimDeviceEffect DEF After
  <2>2. \A v \in Worker, n \in Notification, e \in Device : Holds(v, n, e) => Holds(v, n, e)'
    BY <2>1 DEF Holds
  <2>3. \A n \in Notification, e \in Device : Tried(n, e) => Tried(n, e)'
    BY <2>1, <2>2, TriedLasts DEF history
  <2> QED
    BY <2>1, <2>3 DEF Lasting, HasAnySent, history
<1>7. ASSUME NEW w \in Worker, NEW d \in Device, SkipDevice(w, d) PROVE Lasting
  BY <1>t, <1>7, <1>1, SkipDeviceEffect DEF After, database
<1>8. ASSUME NEW w \in Worker, NEW a \in Answers, Send(w, a) PROVE Lasting
  <2>1. /\ task[w].pc = "send"
        /\ task'[w].pc = "record" /\ task'[w].job = task[w].job /\ task'[w].target = task[w].target
        /\ \A v \in Worker \ {w} : task'[v] = task[v]
        /\ UNCHANGED <<ledger, active, orphaned>>
    BY <1>t, <1>8, SendEffect DEF After, database
  <2>2. \A n \in Notification : attempted[n] \subseteq attempted'[n]
    BY <1>t, <1>8, SendEffect DEF TypeOK
  <2>3. \A v \in Worker, n \in Notification, e \in Device : Holds(v, n, e) => Holds(v, n, e)'
    BY <2>1 DEF Holds
  <2>4. \A n \in Notification, e \in Device : Tried(n, e) => Tried(n, e)'
    BY <2>1, <2>2, <2>3, TriedLasts
  <2> QED
    BY <2>1, <2>2, <2>4 DEF Lasting, HasAnySent
<1>9. ASSUME NEW w \in Worker, MarkSent(w) \/ ReleaseClaim(w) PROVE Lasting
  <2>1. /\ task[w].pc = "record"
        /\ \A v \in Worker \ {w} : task'[v] = task[v]
        /\ \A n \in Notification, e \in Device : ledger[n][e] = "sent" => ledger'[n][e] = "sent"
        /\ UNCHANGED <<active, history>>
    <3>1. CASE MarkSent(w)
      BY <1>t, <3>1, MarkSentEffect DEF After, SentRow
    <3>2. CASE ReleaseClaim(w)
      BY <1>t, <3>2, ReleaseClaimEffect DEF After, ReleasedRow
    <3> QED
      BY <1>9, <3>1, <3>2
  <2>2. task[w].target \in attempted[task[w].job]
    BY <2>1 DEF OutcomeInv, Progress
  <2>3. \A v \in Worker, n \in Notification, e \in Device :
          Holds(v, n, e) => Holds(v, n, e)' \/ e \in attempted'[n]
    BY <2>1, <2>2 DEF Holds, history
  <2>4. \A n \in Notification, e \in Device : Tried(n, e) => Tried(n, e)'
    BY <2>1, <2>3, TriedLasts DEF history
  <2> QED
    BY <2>1, <2>4 DEF Lasting, HasAnySent, history
<1>10. ASSUME NEW w \in Worker, DeactivateTokens(w) PROVE Lasting
  <2>1. /\ task[w].pc = "deactivate"
        /\ \A v \in Worker \ {w} : task'[v] = task[v]
        /\ \A d \in Device : active'[d] => active[d]
        /\ UNCHANGED <<ledger, history>>
    BY <1>t, <1>10, DeactivateEffect DEF After
  <2>2. \A v \in Worker, n \in Notification, e \in Device : Holds(v, n, e) => Holds(v, n, e)'
    BY <2>1 DEF Holds
  <2>3. \A n \in Notification, e \in Device : Tried(n, e) => Tried(n, e)'
    BY <2>1, <2>2, TriedLasts DEF history
  <2> QED
    BY <2>1, <2>3 DEF Lasting, HasAnySent, history
<1>11. ASSUME UNCHANGED <<active, history>>,
              \E rows : ledger' = Sealed(rows),
              \A w \in Worker : task[w].pc \in {"send", "record"} => task'[w] = task[w]
       PROVE  Lasting
  <2>1. \A n \in Notification, e \in Device : ledger[n][e] = "sent" => ledger'[n][e] = "sent"
    BY <1>11 DEF Sealed
  <2>2. \A v \in Worker, n \in Notification, e \in Device : Holds(v, n, e) => Holds(v, n, e)'
    BY <1>11 DEF Holds
  <2>3. \A n \in Notification, e \in Device : Tried(n, e) => Tried(n, e)'
    BY <1>11, <2>2, TriedLasts DEF history
  <2> QED
    BY <1>11, <2>1, <2>3 DEF Lasting, HasAnySent, history
<1>12. ASSUME NEW w \in Worker, SealOpenSending(w) PROVE Lasting
  <2>1. /\ UNCHANGED <<active, history>>
        /\ ledger' = Sealed({task[w].job})
        /\ \A v \in Worker : task[v].pc \in {"send", "record"} => task'[v] = task[v]
    BY <1>t, <1>12, SealEffect DEF After
  <2> QED
    BY <1>11, <2>1
<1>13. ASSUME NEW w \in Worker, Decide(w) PROVE Lasting
  BY <1>t, <1>13, <1>1, DecideEffect DEF After, database
<1>14. ASSUME NEW w \in Worker, Finalize(w) PROVE Lasting
  BY <1>t, <1>14, <1>1, IdleEffect DEF Finalize
<1>15. CASE ReclaimStale
  <2>1. /\ UNCHANGED <<task, active, history>>
        /\ ledger' = Sealed({n \in Notification : push_status[n] = "processing" /\ stale[n]})
    BY <1>15 DEF ReclaimStale
  <2> QED
    BY <1>11, <2>1
<1>16. ASSUME NEW n \in Notification, LeaseExpires(n) PROVE Lasting
  BY <1>16, QuietLasts DEF LeaseExpires
<1>17. ASSUME NEW w \in Worker, Fault(w) PROVE Lasting
  <2>1. /\ UNCHANGED <<ledger, active, attempted>>
        /\ \A v \in Worker \ {w} : task'[v] = task[v]
        /\ orphaned' = IF task[w].pc \in {"send", "record"}
                       THEN [orphaned EXCEPT ![task[w].job] = @ \cup {task[w].target}]
                       ELSE orphaned
    BY <1>t, <1>17, IdleEffect DEF Fault, database
  <2>2. \A n \in Notification :
          /\ orphaned[n] \subseteq orphaned'[n]
          /\ task[w].pc \in {"send", "record"} /\ task[w].job = n => task[w].target \in orphaned'[n]
    BY <1>t, <2>1 DEF TypeOK
  <2>3. \A v \in Worker, n \in Notification, e \in Device :
          Holds(v, n, e) => Holds(v, n, e)' \/ e \in orphaned'[n]
    BY <2>1, <2>2 DEF Holds
  <2>4. \A n \in Notification, e \in Device : Tried(n, e) => Tried(n, e)'
    BY <2>1, <2>2, <2>3, TriedLasts
  <2> QED
    BY <2>1, <2>4 DEF Lasting, HasAnySent
<1>18. CASE UNCHANGED vars
  BY <1>18, QuietLasts DEF vars, history
<1> QED
  BY <1>3, <1>4, <1>5, <1>6, <1>7, <1>8, <1>9, <1>10, <1>12, <1>13, <1>14, <1>15, <1>16,
     <1>17, <1>18 DEF Next, JobStep

\* What lasts keeps the progress of a worker that takes no step.
LEMMA OthersKeep ==
  ASSUME IInv, OutcomeInv, Lasting, ConstantsAssumption,
         NEW v \in Worker, task'[v] = task[v]
  PROVE  Progress(v)'
<1>1. task[v].pc # "idle" => task[v].job \in Notification
  BY DEF IInv, TypeOK, TaskInProgress
<1>2. \A n \in Notification : Recipients[n] \subseteq Device
  BY DEF ConstantsAssumption
<1>3. \A n \in Notification : Backed(n) => Backed(n)'
  BY <1>2 DEF Backed, Lasting
<1> QED
  BY <1>1, <1>2, <1>3 DEF OutcomeInv, Progress, Lasting

\* It keeps what is known of rows and of finalized notifications too, when the
\* step makes no row without a try and finalizes nothing.
LEMMA OutcomesKeep ==
  ASSUME OutcomeInv, Lasting, ConstantsAssumption,
         \A n \in Notification : push_status'[n] \in Terminal => push_status[n] = push_status'[n],
         \A n \in Notification, d \in Device :
           ledger'[n][d] # "none" => ledger[n][d] # "none" \/ Tried(n, d)'
  PROVE  RowsTried' /\ NoDeviceForgotten' /\ SentIsBacked'
<1>1. \A n \in Notification : Recipients[n] \subseteq Device
  BY DEF ConstantsAssumption
<1>2. \A n \in Notification : Backed(n) => Backed(n)'
  BY <1>1 DEF Backed, Lasting
<1>3. RowsTried'
  BY DEF OutcomeInv, RowsTried, Lasting
<1>4. NoDeviceForgotten'
  BY <1>1 DEF OutcomeInv, NoDeviceForgotten, Lasting, Tried
<1>5. SentIsBacked'
  BY <1>2 DEF OutcomeInv, SentIsBacked, Backed, Terminal
<1> QED
  BY <1>3, <1>4, <1>5

\* Where the loop ends, nothing is left to do.
LEMMA LoopEnds ==
  ASSUME NEW todo, NEW invalid
  PROVE  AfterTarget(todo, invalid) # "device" => todo = {}
BY DEF AfterTarget

\* What the job of w knew of its notification n still holds after the step.
LEMMA Known ==
  ASSUME TypeOK, ConstantsAssumption, Lasting,
         NEW w \in Worker, Progress(w), task[w].pc # "idle",
         NEW n, n = task[w].job
  PROVE  /\ n \in Notification
         /\ task[w].pc # "resolve" =>
              \A d \in Recipients[n] : active'[d] => d \in task[w].todo \/ Tried(n, d)'
         /\ task[w].anySent => HasAnySent(n)'
<1>1. n \in Notification /\ Recipients[n] \subseteq Device
  BY DEF TypeOK, TaskInProgress, ConstantsAssumption
<1>2. task[w].pc # "resolve" =>
        \A d \in Recipients[n] : active[d] => d \in task[w].todo \/ Tried(n, d)
  BY DEF Progress
<1>3. /\ \A d \in Device : Tried(n, d) => Tried(n, d)'
      /\ \A d \in Device : active'[d] => active[d]
      /\ HasAnySent(n) => HasAnySent(n)'
  BY <1>1 DEF Lasting
<1>4. task[w].anySent => HasAnySent(n)
  BY DEF Progress
<1> QED
  BY <1>1, <1>2, <1>3, <1>4

\* The progress of w after a step that leaves its job n at pc.
LEMMA NewProgress ==
  ASSUME NEW w \in Worker, NEW n, n = task[w].job, NEW pc, NEW todo, NEW anySent, NEW verdict,
         After(w, pc, todo, anySent, verdict), pc \notin {"idle", "resolve"},
         pc \notin {"device", "send", "record"} => todo = {},
         pc = "record" => task'[w].target \in attempted'[n],
         \A d \in Recipients[n] : active'[d] => d \in todo \/ Tried(n, d)',
         anySent => HasAnySent(n)',
         pc = "finalize" /\ verdict = "sent" => Backed(n)'
  PROVE  Progress(w)'
BY DEF After, Progress

\* The job's own progress, step by step.
LEMMA JobStepProgress ==
  ASSUME IInv, OutcomeInv, Lasting, ConstantsAssumption, NEW w \in Worker, JobStep(w), ~Finalize(w),
         NEW n, n = task[w].job
  PROVE  /\ Progress(w)'
         /\ UNCHANGED push_status
         /\ \A v \in Worker \ {w} : task'[v] = task[v]
         /\ \A m \in Notification, d \in Device :
              ledger'[m][d] # "none" => ledger[m][d] # "none" \/ Tried(m, d)'
<1> DEFINE t == task[w]
           R == /\ Progress(w)'
                /\ UNCHANGED push_status
                /\ \A v \in Worker \ {w} : task'[v] = task[v]
                /\ \A m \in Notification, d \in Device :
                     ledger'[m][d] # "none" => ledger[m][d] # "none" \/ Tried(m, d)'
<1>t. TypeOK /\ Progress(w) /\ t \in Task
  BY DEF IInv, TypeOK, OutcomeInv, TaskInProgress
<1>p. t.pc # "idle"
  BY DEF JobStep, Resolve, ClaimDevice, SkipDevice, Send, MarkSent, ReleaseClaim,
         DeactivateTokens, SealOpenSending, Decide, Finalize
<1>k. /\ n \in Notification
      /\ t.pc # "resolve" =>
           \A d \in Recipients[n] : active'[d] => d \in t.todo \/ Tried(n, d)'
      /\ t.anySent => HasAnySent(n)'
  BY <1>t, <1>p, Known
<1>todo. t.pc \notin {"device", "send", "record"} => t.todo = {}
  BY <1>t, <1>p DEF Progress
<1>1. CASE Resolve(w)
  <2>1. /\ t.pc = "resolve"
        /\ IF Targets(n) = {}
           THEN After(w, "finalize", t.todo, t.anySent, "sent")
           ELSE After(w, "device", Targets(n), t.anySent, t.verdict)
        /\ UNCHANGED <<database, history>>
    BY <1>t, <1>1, ResolveEffect
  <2>2. \A d \in Recipients[n] : active'[d] => d \in Targets(n)
    BY <2>1 DEF Targets, database
  <2>3. ASSUME Targets(n) = {} PROVE Progress(w)'
    <3>1. After(w, "finalize", {}, t.anySent, "sent") /\ \A d \in Recipients[n] : ~active'[d]
      BY <1>todo, <2>1, <2>2, <2>3
    <3>2. Backed(n)'
      BY <3>1 DEF Backed
    <3>3. \A d \in Recipients[n] : active'[d] => d \in {} \/ Tried(n, d)'
      BY <3>1
    <3> QED
      BY <1>k, <3>1, <3>2, <3>3, NewProgress
  <2>4. ASSUME Targets(n) # {} PROVE Progress(w)'
    <3>1. After(w, "device", Targets(n), t.anySent, t.verdict)
      BY <2>1, <2>4
    <3>2. \A d \in Recipients[n] : active'[d] => d \in Targets(n) \/ Tried(n, d)'
      BY <2>2
    <3> QED
      BY <1>k, <3>1, <3>2, NewProgress
  <2>5. \A v \in Worker \ {w} : task'[v] = task[v]
    BY <2>1 DEF After
  <2> QED
    BY <2>1, <2>3, <2>4, <2>5 DEF database
<1>2. ASSUME NEW d \in Device, ClaimDevice(w, d) PROVE R
  <2>1. /\ t.pc = "device"
        /\ After(w, "send", t.todo \ {d}, t.anySent, t.verdict)
        /\ task'[w].target = d
        /\ UNCHANGED <<push_status, stale, active, history>>
    BY <1>t, <1>2, ClaimDeviceEffect
  <2>l. \A m \in Notification, e \in Device :
          ledger'[m][e] = IF m = t.job /\ e = d THEN "sending" ELSE ledger[m][e]
    BY <1>t, <1>2, ClaimDeviceEffect
  <2>2. Tried(n, d)'
    BY <2>1 DEF After, Tried, Holds
  <2>3. \A e \in Recipients[n] : active'[e] => e \in t.todo \ {d} \/ Tried(n, e)'
    BY <1>k, <2>1, <2>2
  <2>4. Progress(w)'
    BY <1>k, <2>1, <2>3, NewProgress
  <2>5. \A m \in Notification, e \in Device :
          ledger'[m][e] # "none" => ledger[m][e] # "none" \/ Tried(m, e)'
    BY <2>l, <2>2
  <2> QED
    BY <2>1, <2>4, <2>5 DEF After
<1>3. ASSUME NEW d \in Device, SkipDevice(w, d) PROVE R
  <2> DEFINE pc == AfterTarget(t.todo \ {d}, t.invalid)
  <2>1. /\ t.pc = "device"
        /\ After(w, pc, t.todo \ {d}, t.anySent, t.verdict)
        /\ ledger[n][d] # "none"
        /\ UNCHANGED <<database, history>>
    BY <1>t, <1>3, SkipDeviceEffect
  <2>2. pc \in {"device", "deactivate", "seal"} /\ (pc # "device" => t.todo \ {d} = {})
    BY AfterTargetPoint, LoopEnds
  <2>3. Tried(n, d)'
    BY <1>k, <2>1 DEF OutcomeInv, RowsTried, Lasting
  <2>4. \A e \in Recipients[n] : active'[e] => e \in t.todo \ {d} \/ Tried(n, e)'
    BY <1>k, <2>1, <2>3
  <2> HIDE DEF pc
  <2>5. Progress(w)'
    BY <1>k, <2>1, <2>2, <2>4, NewProgress
  <2> QED
    BY <2>1, <2>5 DEF After, database
<1>4. ASSUME NEW a \in Answers, Send(w, a) PROVE R
  <2>1. /\ t.pc = "send"
        /\ After(w, "record", t.todo, t.anySent, t.verdict)
        /\ task'[w].target = t.target
        /\ attempted' = [attempted EXCEPT ![n] = @ \cup {t.target}]
        /\ UNCHANGED <<database, orphaned>>
    BY <1>t, <1>4, SendEffect
  <2>2. task'[w].target \in attempted'[n]
    BY <1>t, <1>k, <2>1 DEF TypeOK
  <2>3. Progress(w)'
    BY <1>k, <2>1, <2>2, NewProgress
  <2> QED
    BY <2>1, <2>3 DEF After, database
<1>5. CASE MarkSent(w)
  <2> DEFINE pc == AfterTarget(t.todo, t.invalid)
  <2>1. /\ t.pc = "record" /\ t.reply = "ok"
        /\ After(w, pc, t.todo, TRUE, t.verdict)
        /\ \A m \in Notification, e \in Device :
             ledger'[m][e] = IF m = t.job /\ e = t.target
                             THEN SentRow(ledger[m][e]) ELSE ledger[m][e]
        /\ UNCHANGED <<push_status, stale, active, history>>
    BY <1>t, <1>5, MarkSentEffect
  <2>2. pc \in {"device", "deactivate", "seal"} /\ (pc # "device" => t.todo = {})
    BY AfterTargetPoint, LoopEnds
  <2>3. t.target \in Device
    BY <1>t, <2>1 DEF IInv, TypeOK, TaskInProgress
  <2>4. Holds(w, n, t.target)
    BY <2>1 DEF Holds
  <2>5. ledger[n][t.target] # "none"
    BY <1>k, <2>3, <2>4 DEF IInv, RowsGuardDevices
  <2>6. ledger'[n][t.target] = "sent"
    BY <1>k, <2>1, <2>3, <2>5 DEF SentRow
  <2>7. HasAnySent(n)'
    BY <2>3, <2>6 DEF HasAnySent
  <2>8. \A m \in Notification, e \in Device : ledger'[m][e] # "none" => ledger[m][e] # "none"
    BY <2>1 DEF SentRow
  <2> HIDE DEF pc
  <2>9. /\ After(w, pc, t.todo, TRUE, t.verdict)
        /\ \A e \in Recipients[n] : active'[e] => e \in t.todo \/ Tried(n, e)'
    BY <1>k, <2>1
  <2>10. Progress(w)'
    BY <1>k, <2>2, <2>7, <2>9, NewProgress
  <2> QED
    BY <2>1, <2>8, <2>10 DEF After
<1>6. CASE ReleaseClaim(w)
  <2>1. PICK invalid : After(w, AfterTarget(t.todo, invalid), t.todo, t.anySent, t.verdict)
    BY <1>t, <1>6, ReleaseClaimEffect
  <2> DEFINE pc == AfterTarget(t.todo, invalid)
  <2>2. /\ t.pc = "record"
        /\ \A m \in Notification, e \in Device : ledger'[m][e] # "none" => ledger[m][e] # "none"
        /\ UNCHANGED <<push_status, stale, active, history>>
    BY <1>t, <1>6, ReleaseClaimEffect DEF ReleasedRow
  <2>3. pc \in {"device", "deactivate", "seal"} /\ (pc # "device" => t.todo = {})
    BY AfterTargetPoint, LoopEnds
  <2>4. After(w, pc, t.todo, t.anySent, t.verdict)
    BY <2>1
  <2> HIDE DEF pc
  <2>5. Progress(w)'
    BY <1>k, <2>2, <2>3, <2>4, NewProgress
  <2> QED
    BY <2>2, <2>4, <2>5 DEF After
<1>7. CASE DeactivateTokens(w)
  <2>1. /\ t.pc = "deactivate"
        /\ After(w, "seal", t.todo, t.anySent, t.verdict)
        /\ UNCHANGED <<push_status, stale, ledger, history>>
    BY <1>t, <1>7, DeactivateEffect
  <2>2. Progress(w)'
    BY <1>k, <1>todo, <2>1, NewProgress
  <2> QED
    BY <2>1, <2>2 DEF After
<1>8. CASE SealOpenSending(w)
  <2>1. /\ t.pc = "seal"
        /\ After(w, "decide", t.todo, t.anySent, t.verdict)
        /\ ledger' = Sealed({n})
        /\ UNCHANGED <<push_status, stale, active, history>>
    BY <1>t, <1>8, SealEffect
  <2>2. Progress(w)'
    BY <1>k, <1>todo, <2>1, NewProgress
  <2>3. \A m \in Notification, e \in Device : ledger'[m][e] # "none" => ledger[m][e] # "none"
    BY <2>1 DEF Sealed
  <2> QED
    BY <2>1, <2>2, <2>3 DEF After
<1>9. CASE Decide(w)
  <2> DEFINE verdict == IF t.anySent \/ HasAnySent(n) THEN "sent" ELSE "failed"
  <2>1. /\ t.pc = "decide"
        /\ After(w, "finalize", t.todo, t.anySent, verdict)
        /\ UNCHANGED <<database, history>>
    BY <1>t, <1>9, DecideEffect
  <2>2. verdict = "sent" => HasAnySent(n)'
    BY <1>k DEF Lasting
  <2> HIDE DEF verdict
  <2>3. verdict = "sent" => Backed(n)'
    BY <2>2 DEF Backed
  <2>4. Progress(w)'
    BY <1>k, <1>todo, <2>1, <2>3, NewProgress
  <2> QED
    BY <2>1, <2>4 DEF After, database
<1> QED
  BY <1>1, <1>2, <1>3, <1>4, <1>5, <1>6, <1>7, <1>8, <1>9 DEF JobStep

\* Without jobs and rows there is nothing to forget.
LEMMA InitOutcome ==
  ASSUME Init PROVE OutcomeInv
<1>1. \A n \in Notification : push_status[n] = "pending"
  BY DEF Init
<1>2. \A n \in Notification, d \in Device : ledger[n][d] = "none"
  BY DEF Init
<1>3. \A w \in Worker : task[w].pc = "idle"
  BY DEF Init, NoTask
<1> QED
  BY <1>1, <1>2, <1>3 DEF OutcomeInv, RowsTried, Progress, NoDeviceForgotten, SentIsBacked, Terminal

\* OutcomeInv is kept by every step.
LEMMA OutcomeInductive ==
  ASSUME ConstantsAssumption, IInv, OutcomeInv, [Next]_vars
  PROVE  OutcomeInv'
<1>t. TypeOK
  BY DEF IInv
<1>l. Lasting
  BY Lasts
\* A step of one worker that finalizes nothing.
<1>1. ASSUME NEW w \in Worker, Progress(w)', \A v \in Worker \ {w} : task'[v] = task[v],
             UNCHANGED push_status,
             \A n \in Notification, d \in Device :
               ledger'[n][d] # "none" => ledger[n][d] # "none" \/ Tried(n, d)'
      PROVE  OutcomeInv'
  <2>1. \A v \in Worker : Progress(v)'
    BY <1>l, <1>1, OthersKeep
  <2>2. RowsTried' /\ NoDeviceForgotten' /\ SentIsBacked'
    BY <1>l, <1>1, OutcomesKeep
  <2> QED
    BY <2>1, <2>2 DEF OutcomeInv
\* A step of no worker that finalizes nothing.
<1>2. ASSUME UNCHANGED task,
             \A n \in Notification : push_status'[n] \in Terminal => push_status[n] = push_status'[n],
             \A n \in Notification, d \in Device : ledger'[n][d] # "none" => ledger[n][d] # "none"
      PROVE  OutcomeInv'
  <2>1. \A v \in Worker : Progress(v)'
    BY <1>l, <1>2, OthersKeep
  <2>2. RowsTried' /\ NoDeviceForgotten' /\ SentIsBacked'
    BY <1>l, <1>2, OutcomesKeep
  <2> QED
    BY <2>1, <2>2 DEF OutcomeInv
<1>3. ASSUME NEW ws \in SUBSET Idle, NEW owner \in [ws -> Pending], Take(owner)
      PROVE  OutcomeInv'
  <2>1. /\ \A v \in Worker :
             IF v \in ws
             THEN task'[v] = [NoTask EXCEPT !.pc = "resolve", !.job = owner[v]]
             ELSE task'[v] = task[v]
        /\ \A n \in Notification :
             push_status'[n] # push_status[n] =>
               push_status[n] = "pending" /\ push_status'[n] = "processing"
        /\ UNCHANGED ledger
    BY <1>3, TakeEffect
  <2>2. ASSUME NEW v \in ws PROVE Progress(v)'
    <3>1. v \in Worker
      BY DEF Idle
    <3>2. task'[v].pc = "resolve" /\ task'[v].todo = {} /\ task'[v].anySent = FALSE
      BY <2>1, <3>1 DEF NoTask
    <3> QED
      BY <3>2 DEF Progress
  <2>3. ASSUME NEW v \in Worker \ ws PROVE Progress(v)'
    BY <1>l, <2>1, OthersKeep
  <2>4. \A n \in Notification : push_status'[n] \in Terminal => push_status[n] = push_status'[n]
    BY <2>1 DEF Terminal
  <2>5. RowsTried' /\ NoDeviceForgotten' /\ SentIsBacked'
    BY <1>l, <2>1, <2>4, OutcomesKeep
  <2> QED
    BY <2>2, <2>3, <2>5 DEF OutcomeInv
<1>4. ASSUME NEW w \in Worker, NEW n \in Notification, ClaimById(w, n) PROVE OutcomeInv'
  <2>1. /\ {w} \in SUBSET Idle
        /\ [v \in {w} |-> n] \in [{w} -> Pending]
        /\ Take([v \in {w} |-> n])
    BY <1>4 DEF ClaimById
  <2> QED
    BY <2>1, <1>3
<1>5. ASSUME NEW ws \in SUBSET Idle, NEW owner \in [ws -> Pending], ClaimBatch(owner)
      PROVE  OutcomeInv'
  BY <1>5, <1>3 DEF ClaimBatch
<1>6. ASSUME NEW w \in Worker, JobStep(w), ~Finalize(w) PROVE OutcomeInv'
  BY <1>l, <1>1, <1>6, JobStepProgress
<1>7. ASSUME NEW w \in Worker, Finalize(w) PROVE OutcomeInv'
  <2> DEFINE n == task[w].job
  <2>1. /\ task[w].pc = "finalize" /\ n \in Notification /\ Recipients[n] \subseteq Device
        /\ \A m \in Notification :
             push_status'[m] = IF m = n THEN task[w].verdict ELSE push_status[m]
        /\ UNCHANGED <<ledger, active, history>>
    BY <1>t, <1>7 DEF Finalize, TypeOK, TaskInProgress, ConstantsAssumption
  <2>2. task'[w].pc = "idle" /\ \A v \in Worker \ {w} : task'[v] = task[v]
    BY <1>t, <1>7, IdleEffect
  <2>3. Progress(w)'
    BY <2>2 DEF Progress
  <2>4. \A v \in Worker : Progress(v)'
    BY <1>l, <2>2, <2>3, OthersKeep
  <2>5. Progress(w)
    BY DEF OutcomeInv
  <2>6. /\ \A d \in Recipients[n] : active[d] => Tried(n, d)
        /\ task[w].verdict = "sent" => Backed(n)
    BY <2>1, <2>5 DEF Progress
  <2>7. RowsTried'
    BY <1>l, <2>1 DEF OutcomeInv, RowsTried, Lasting
  <2>8. \A m \in Notification : \A d \in Recipients[m] :
          push_status'[m] \in Terminal /\ active'[d] => Tried(m, d)'
    <3> SUFFICES ASSUME NEW m \in Notification, NEW d \in Recipients[m],
                        push_status'[m] \in Terminal, active'[d]
                 PROVE  Tried(m, d)'
      OBVIOUS
    <3>1. d \in Device /\ active[d]
      BY <2>1 DEF ConstantsAssumption
    <3>2. Tried(m, d)
      <4>1. CASE m = n
        BY <2>6, <3>1, <4>1
      <4>2. CASE m # n
        BY <2>1, <3>1, <4>2 DEF OutcomeInv, NoDeviceForgotten, Tried
      <4> QED
        BY <4>1, <4>2
    <3> QED
      BY <1>l, <3>1, <3>2 DEF Lasting
  <2>9. NoDeviceForgotten'
    BY <2>8 DEF NoDeviceForgotten, Tried
  <2>10. SentIsBacked'
    BY <2>1, <2>6 DEF OutcomeInv, SentIsBacked, Backed, HasAnySent
  <2> QED
    BY <2>4, <2>7, <2>9, <2>10 DEF OutcomeInv
<1>8. CASE ReclaimStale
  BY <1>2, <1>8 DEF ReclaimStale, Sealed, Terminal
<1>9. ASSUME NEW n \in Notification, LeaseExpires(n) PROVE OutcomeInv'
  BY <1>2, <1>9 DEF LeaseExpires
<1>10. ASSUME NEW w \in Worker, Fault(w) PROVE OutcomeInv'
  <2>1. task'[w].pc = "idle" /\ \A v \in Worker \ {w} : task'[v] = task[v]
    BY <1>t, <1>10, IdleEffect
  <2>2. Progress(w)'
    BY <2>1 DEF Progress
  <2>3. UNCHANGED database
    BY <1>10 DEF Fault
  <2> QED
    BY <1>1, <2>1, <2>2, <2>3 DEF database
<1>11. CASE UNCHANGED vars
  BY <1>2, <1>11 DEF vars
<1> QED
  BY <1>4, <1>5, <1>6, <1>7, <1>8, <1>9, <1>10, <1>11 DEF Next

\* OutcomeInv always holds.
LEMMA AlwaysOutcomeInv == Spec => []OutcomeInv
<1>1. IInv /\ OutcomeInv /\ [Next]_vars => OutcomeInv'
  BY ConstantsAssumption, OutcomeInductive
<1> QED
  BY <1>1, InitOutcome, AlwaysIInv, PTL DEF Spec

\* When a notification is finalized, no active recipient device was passed over:
\* a job skips a device only because another job made its row, and whoever made
\* it called the sender, is about to, or died with it.
THEOREM NobodyForgotten == Spec => []NoDeviceForgotten
<1>1. OutcomeInv => NoDeviceForgotten
  BY DEF OutcomeInv
<1> QED
  BY <1>1, AlwaysOutcomeInv, PTL

\* A notification is finalized as sent only on a row that says so, which no
\* later release, seal or reclaim takes away, or because nobody was left to
\* send to.
THEOREM SentStaysBacked == Spec => []SentIsBacked
<1>1. OutcomeInv => SentIsBacked
  BY DEF OutcomeInv
<1> QED
  BY <1>1, AlwaysOutcomeInv, PTL

-----------------------------------------------------------------------------
(* While leases cover jobs: no open row is left, and failed means none sent *)

\* A row in sending is held by the job that owns the notification, or nobody
\* owns it and it is still processing, for reclaim to find.
OpenRowsHeld ==
  \A n \in Notification, d \in Device : ledger[n][d] = "sending" =>
    /\ push_status[n] = "processing"
    /\ \A w \in Worker : task[w].pc # "idle" /\ task[w].job = n => Holds(w, n, d)

\* No row says sent when a job decides on failed, and none does afterwards.
FailuresStand ==
  /\ \A n \in Notification : push_status[n] = "failed" => ~HasAnySent(n)
  /\ \A w \in Worker :
       task[w].pc = "finalize" /\ task[w].verdict = "failed" => ~HasAnySent(task[w].job)

LeaseInv == OpenRowsHeld /\ FailuresStand

\* A step of the job that owns n, which touches rows of n only: what is left
\* open must be its own, and a verdict of failed must be true.
LEMMA OwnRowsOnly ==
  ASSUME TypeOK, OwnerInv, LeaseInv,
         NEW w \in Worker, task[w].pc # "idle", NEW n, n = task[w].job,
         UNCHANGED push_status, \A v \in Worker \ {w} : task'[v] = task[v], task'[w].job = n,
         \A m \in Notification \ {n}, e \in Device : ledger'[m][e] = ledger[m][e],
         \A e \in Device : ledger'[n][e] = "sending" => Holds(w, n, e)',
         task'[w].pc = "finalize" /\ task'[w].verdict = "failed" => ~HasAnySent(n)'
  PROVE  LeaseInv'
<1>1. /\ n \in Notification /\ push_status[n] = "processing"
      /\ \A v \in Worker : task[v].pc # "idle" => task[v].job \in Notification
      /\ \A v \in Worker : task[v].pc # "idle" /\ task[v].job = n => v = w
  BY DEF TypeOK, TaskInProgress, OwnerInv, SingleOwner
<1>2. ASSUME NEW m \in Notification, NEW d \in Device, ledger'[m][d] = "sending"
      PROVE  /\ push_status'[m] = "processing"
             /\ \A v \in Worker : task'[v].pc # "idle" /\ task'[v].job = m => Holds(v, m, d)'
  <2>1. CASE m = n
    BY <1>1, <1>2, <2>1
  <2>2. CASE m # n
    BY <1>2, <2>2 DEF LeaseInv, OpenRowsHeld, Holds
  <2> QED
    BY <2>1, <2>2
<1>3. \A m \in Notification \ {n} : ~HasAnySent(m) => ~HasAnySent(m)'
  BY DEF HasAnySent
<1>4. \A m \in Notification : push_status'[m] = "failed" => ~HasAnySent(m)'
  BY <1>1, <1>3 DEF LeaseInv, FailuresStand
<1>5. ASSUME NEW v \in Worker, task'[v].pc = "finalize", task'[v].verdict = "failed"
      PROVE  ~HasAnySent(task[v].job)'
  <2>1. CASE v = w
    BY <1>5, <2>1 DEF HasAnySent
  <2>2. CASE v # w
    <3>1. task'[v] = task[v] /\ task[v].job \in Notification \ {n}
      BY <1>1, <1>5, <2>2
    <3>2. ~HasAnySent(task[v].job)
      BY <1>5, <3>1 DEF LeaseInv, FailuresStand
    <3> QED
      BY <3>1, <3>2 DEF HasAnySent
  <2> QED
    BY <2>1, <2>2
<1>6. OpenRowsHeld'
  BY <1>2 DEF OpenRowsHeld
<1>7. FailuresStand'
  BY <1>4, <1>5 DEF FailuresStand
<1> QED
  BY <1>6, <1>7 DEF LeaseInv

\* Every step of a job but its last is such a step.
LEMMA JobStepLease ==
  ASSUME TypeOK, OwnerInv, LeaseInv, NEW w \in Worker, JobStep(w), ~Finalize(w),
         NEW n, n = task[w].job
  PROVE  LeaseInv'
<1> DEFINE t == task[w]
<1>p. t.pc # "idle"
  BY DEF JobStep, Resolve, ClaimDevice, SkipDevice, Send, MarkSent, ReleaseClaim,
         DeactivateTokens, SealOpenSending, Decide, Finalize
<1>n. n \in Notification
  BY <1>p DEF TypeOK, TaskInProgress
<1>o. \A e \in Device : ledger[n][e] = "sending" => Holds(w, n, e)
  BY <1>n, <1>p DEF LeaseInv, OpenRowsHeld
\* Steps that leave the ledger alone.
<1>q. ASSUME NEW pc, NEW todo, NEW anySent, NEW verdict, After(w, pc, todo, anySent, verdict),
             UNCHANGED <<push_status, ledger>>,
             t.pc # "record", t.pc = "send" => pc = "record" /\ task'[w].target = t.target,
             pc = "finalize" /\ verdict = "failed" => ~HasAnySent(n)
      PROVE  LeaseInv'
  <2>1. /\ \A v \in Worker \ {w} : task'[v] = task[v]
        /\ task'[w].pc = pc /\ task'[w].job = n /\ task'[w].verdict = verdict
    BY <1>q DEF After
  <2>2. \A e \in Device : Holds(w, n, e) => Holds(w, n, e)'
    BY <1>q, <2>1 DEF Holds
  <2>3. \A e \in Device : ledger'[n][e] = "sending" => Holds(w, n, e)'
    BY <1>o, <1>q, <2>2
  <2>4. task'[w].pc = "finalize" /\ task'[w].verdict = "failed" => ~HasAnySent(n)'
    BY <1>q, <2>1 DEF HasAnySent
  <2>5. \A m \in Notification \ {n}, e \in Device : ledger'[m][e] = ledger[m][e]
    BY <1>q
  <2> QED
    BY <1>p, <1>q, <2>1, <2>3, <2>4, <2>5, OwnRowsOnly
\* Steps that do not end at a verdict.
<1>r. ASSUME UNCHANGED push_status, NEW pc, pc # "finalize", NEW todo, NEW anySent, NEW verdict,
             After(w, pc, todo, anySent, verdict),
             \A m \in Notification \ {n}, e \in Device : ledger'[m][e] = ledger[m][e],
             \A e \in Device : ledger'[n][e] = "sending" => Holds(w, n, e)'
      PROVE  LeaseInv'
  <2>1. /\ \A v \in Worker \ {w} : task'[v] = task[v]
        /\ task'[w].pc # "finalize" /\ task'[w].job = n
    BY <1>r DEF After
  <2> QED
    BY <1>p, <1>r, <2>1, OwnRowsOnly
<1>1. CASE Resolve(w)
  <2>1. /\ t.pc = "resolve"
        /\ \/ After(w, "finalize", t.todo, t.anySent, "sent")
           \/ After(w, "device", Targets(n), t.anySent, t.verdict)
        /\ UNCHANGED <<push_status, ledger>>
    BY <1>1, ResolveEffect DEF database
  <2> QED
    BY <1>q, <2>1
<1>2. ASSUME NEW d \in Device, ClaimDevice(w, d) PROVE LeaseInv'
  <2>1. /\ t.pc = "device"
        /\ After(w, "send", t.todo \ {d}, t.anySent, t.verdict)
        /\ task'[w].target = d
        /\ UNCHANGED push_status
    BY <1>2, ClaimDeviceEffect
  <2>2. \A m \in Notification, e \in Device :
          ledger'[m][e] = IF m = t.job /\ e = d THEN "sending" ELSE ledger[m][e]
    BY <1>2, ClaimDeviceEffect
  <2>3. \A e \in Device : ledger[n][e] # "sending"
    BY <1>o, <2>1 DEF Holds
  <2>4. Holds(w, n, d)'
    BY <2>1 DEF After, Holds
  <2>5. \A e \in Device : ledger'[n][e] = "sending" => Holds(w, n, e)'
    BY <1>n, <2>2, <2>3, <2>4
  <2>6. \A m \in Notification \ {n}, e \in Device : ledger'[m][e] = ledger[m][e]
    BY <2>2
  <2> QED
    BY <1>r, <2>1, <2>5, <2>6
<1>3. ASSUME NEW d \in Device, SkipDevice(w, d) PROVE LeaseInv'
  <2> DEFINE pc == AfterTarget(t.todo \ {d}, t.invalid)
  <2>1. /\ t.pc = "device"
        /\ After(w, pc, t.todo \ {d}, t.anySent, t.verdict)
        /\ UNCHANGED <<push_status, ledger>>
    BY <1>3, SkipDeviceEffect DEF database
  <2>2. pc # "finalize"
    BY AfterTargetPoint
  <2> HIDE DEF pc
  <2> QED
    BY <1>q, <2>1, <2>2
<1>4. ASSUME NEW a \in Answers, Send(w, a) PROVE LeaseInv'
  <2>1. /\ t.pc = "send"
        /\ After(w, "record", t.todo, t.anySent, t.verdict)
        /\ task'[w].target = t.target
        /\ UNCHANGED <<push_status, ledger>>
    BY <1>4, SendEffect DEF database
  <2> QED
    BY <1>q, <2>1
\* mark_sent and release_claim leave the one row the job held no longer open.
<1>5. ASSUME MarkSent(w) \/ ReleaseClaim(w) PROVE LeaseInv'
  <2>1. PICK invalid, anySent : After(w, AfterTarget(t.todo, invalid), t.todo, anySent, t.verdict)
    BY <1>5, MarkSentEffect, ReleaseClaimEffect
  <2> DEFINE pc == AfterTarget(t.todo, invalid)
  <2>2. /\ UNCHANGED push_status
        /\ \A m \in Notification, e \in Device :
             IF m = t.job /\ e = t.target THEN ledger'[m][e] # "sending"
                                          ELSE ledger'[m][e] = ledger[m][e]
    <3>1. CASE MarkSent(w)
      <4>1. /\ UNCHANGED push_status
            /\ \A m \in Notification, e \in Device :
                 ledger'[m][e] = IF m = t.job /\ e = t.target
                                 THEN SentRow(ledger[m][e]) ELSE ledger[m][e]
        BY <3>1, MarkSentEffect
      <4>2. \A row : SentRow(row) # "sending"
        BY DEF SentRow
      <4> QED
        BY <4>1, <4>2
    <3>2. CASE ReleaseClaim(w)
      BY <3>2, ReleaseClaimEffect DEF ReleasedRow
    <3> QED
      BY <1>5, <3>1, <3>2
  <2>3. \A m \in Notification \ {n}, e \in Device : ledger'[m][e] = ledger[m][e]
    BY <2>2
  <2>4. \A e \in Device : ledger'[n][e] # "sending"
    BY <1>n, <1>o, <2>2 DEF Holds
  <2>5. pc # "finalize"
    BY AfterTargetPoint
  <2>6. After(w, pc, t.todo, anySent, t.verdict)
    BY <2>1
  <2> HIDE DEF pc
  <2> QED
    BY <1>r, <2>2, <2>3, <2>4, <2>5, <2>6
<1>6. CASE DeactivateTokens(w)
  <2>1. /\ t.pc = "deactivate"
        /\ After(w, "seal", t.todo, t.anySent, t.verdict)
        /\ UNCHANGED <<push_status, ledger>>
    BY <1>6, DeactivateEffect
  <2> QED
    BY <1>q, <2>1
<1>7. CASE SealOpenSending(w)
  <2>1. /\ After(w, "decide", t.todo, t.anySent, t.verdict)
        /\ ledger' = Sealed({n})
        /\ UNCHANGED push_status
    BY <1>7, SealEffect
  <2>2. /\ \A m \in Notification \ {n}, e \in Device : ledger'[m][e] = ledger[m][e]
        /\ \A e \in Device : ledger'[n][e] # "sending"
    BY <1>n, <2>1 DEF Sealed
  <2> QED
    BY <1>r, <2>1, <2>2
<1>8. CASE Decide(w)
  <2> DEFINE verdict == IF t.anySent \/ HasAnySent(n) THEN "sent" ELSE "failed"
  <2>1. /\ t.pc = "decide"
        /\ After(w, "finalize", t.todo, t.anySent, verdict)
        /\ UNCHANGED <<push_status, ledger>>
    BY <1>8, DecideEffect DEF database
  <2>2. verdict = "failed" => ~HasAnySent(n)
    OBVIOUS
  <2> HIDE DEF verdict
  <2> QED
    BY <1>q, <2>1, <2>2
<1> QED
  BY <1>1, <1>2, <1>3, <1>4, <1>5, <1>6, <1>7, <1>8 DEF JobStep

\* LeaseInv is kept by every step while leases cover jobs.
LEMMA LeaseInductive ==
  ASSUME TypeOK, OwnerInv, LeaseInv, [Next]_vars
  PROVE  LeaseInv'
<1>1. \A v \in Worker : task[v].pc # "idle" =>
        /\ task[v].job \in Notification
        /\ push_status[task[v].job] = "processing"
        /\ ~stale[task[v].job]
  BY DEF TypeOK, TaskInProgress, OwnerInv, SingleOwner, LeaseHeld
\* Steps of no job that leave the ledger alone.
<1>2. ASSUME UNCHANGED <<push_status, ledger>>,
             \A v \in Worker : task'[v].pc # "idle" => task'[v] = task[v]
      PROVE  LeaseInv'
  <2>1. OpenRowsHeld'
    BY <1>2 DEF LeaseInv, OpenRowsHeld, Holds
  <2>2. \A n \in Notification : push_status'[n] = "failed" => ~HasAnySent(n)'
    BY <1>2 DEF LeaseInv, FailuresStand, HasAnySent
  <2>3. \A v \in Worker :
          task'[v].pc = "finalize" /\ task'[v].verdict = "failed" => ~HasAnySent(task[v].job)'
    BY <1>2 DEF LeaseInv, FailuresStand, HasAnySent
  <2> QED
    BY <2>1, <2>2, <2>3 DEF LeaseInv, FailuresStand
<1>3. ASSUME NEW ws \in SUBSET Idle, NEW owner \in [ws -> Pending], Take(owner)
      PROVE  LeaseInv'
  <2>1. /\ \A v \in Worker :
             IF v \in ws
             THEN /\ owner[v] \in Pending
                  /\ task'[v] = [NoTask EXCEPT !.pc = "resolve", !.job = owner[v]]
             ELSE task'[v] = task[v]
        /\ \A n \in Notification :
             push_status'[n] # push_status[n] =>
               push_status[n] = "pending" /\ push_status'[n] = "processing"
        /\ UNCHANGED ledger
    BY <1>3, TakeEffect
  <2>2. \A v \in ws : task'[v].pc = "resolve" /\ task'[v].job \in Pending
    BY <2>1 DEF NoTask, Idle
  <2>3. OpenRowsHeld'
    <3> SUFFICES ASSUME NEW n \in Notification, NEW d \in Device, ledger'[n][d] = "sending"
                 PROVE  /\ push_status'[n] = "processing"
                        /\ \A v \in Worker :
                             task'[v].pc # "idle" /\ task'[v].job = n => Holds(v, n, d)'
      BY DEF OpenRowsHeld
    <3>1. /\ push_status[n] = "processing"
          /\ \A v \in Worker : task[v].pc # "idle" /\ task[v].job = n => Holds(v, n, d)
      BY <2>1 DEF LeaseInv, OpenRowsHeld
    <3>2. \A v \in ws : task'[v].job # n
      BY <2>2, <3>1 DEF Pending
    <3> QED
      BY <2>1, <3>1, <3>2 DEF Holds
  <2>4. \A n \in Notification : HasAnySent(n)' <=> HasAnySent(n)
    BY <2>1 DEF HasAnySent
  <2>5. \A n \in Notification : push_status'[n] = "failed" => ~HasAnySent(n)'
    BY <2>1, <2>4 DEF LeaseInv, FailuresStand
  <2>6. ASSUME NEW v \in Worker, task'[v].pc = "finalize", task'[v].verdict = "failed"
        PROVE  ~HasAnySent(task[v].job)'
    <3>1. task'[v] = task[v]
      BY <2>1, <2>2, <2>6
    <3>2. ~HasAnySent(task[v].job)
      BY <2>6, <3>1 DEF LeaseInv, FailuresStand
    <3> QED
      BY <2>1, <3>1, <3>2 DEF HasAnySent
  <2>7. FailuresStand'
    BY <2>5, <2>6 DEF FailuresStand
  <2> QED
    BY <2>3, <2>7 DEF LeaseInv
<1>4. ASSUME NEW w \in Worker, NEW n \in Notification, ClaimById(w, n) PROVE LeaseInv'
  <2>1. /\ {w} \in SUBSET Idle
        /\ [v \in {w} |-> n] \in [{w} -> Pending]
        /\ Take([v \in {w} |-> n])
    BY <1>4 DEF ClaimById
  <2> QED
    BY <2>1, <1>3
<1>5. ASSUME NEW ws \in SUBSET Idle, NEW owner \in [ws -> Pending], ClaimBatch(owner)
      PROVE  LeaseInv'
  BY <1>5, <1>3 DEF ClaimBatch
<1>6. ASSUME NEW w \in Worker, JobStep(w), ~Finalize(w) PROVE LeaseInv'
  BY <1>6, JobStepLease
<1>7. ASSUME NEW w \in Worker, Finalize(w) PROVE LeaseInv'
  <2> DEFINE n == task[w].job
  <2>1. /\ task[w].pc = "finalize" /\ n \in Notification
        /\ \A m \in Notification :
             push_status'[m] = IF m = n THEN task[w].verdict ELSE push_status[m]
        /\ UNCHANGED ledger
    BY <1>7 DEF Finalize, TypeOK, TaskInProgress
  <2>2. task'[w].pc = "idle" /\ \A v \in Worker \ {w} : task'[v] = task[v]
    BY <1>7, IdleEffect
  <2>3. \A d \in Device : ledger[n][d] # "sending"
    BY <2>1 DEF LeaseInv, OpenRowsHeld, Holds
  <2>4. OpenRowsHeld'
    BY <2>1, <2>2, <2>3 DEF LeaseInv, OpenRowsHeld, Holds
  <2>5. \A m \in Notification : HasAnySent(m)' <=> HasAnySent(m)
    BY <2>1 DEF HasAnySent
  <2>6. task[w].verdict = "failed" => ~HasAnySent(n)
    BY <2>1 DEF LeaseInv, FailuresStand
  <2>7. \A m \in Notification : push_status'[m] = "failed" => ~HasAnySent(m)'
    BY <2>1, <2>5, <2>6 DEF LeaseInv, FailuresStand
  <2>8. \A v \in Worker :
          task'[v].pc = "finalize" /\ task'[v].verdict = "failed" => ~HasAnySent(task[v].job)'
    BY <2>1, <2>2 DEF LeaseInv, FailuresStand, HasAnySent
  <2>9. FailuresStand'
    BY <2>7, <2>8 DEF FailuresStand
  <2> QED
    BY <2>4, <2>9 DEF LeaseInv
\* Reclaim requeues what no live job owns, and closes its rows.
<1>8. CASE ReclaimStale
  <2> DEFINE expired == {n \in Notification : push_status[n] = "processing" /\ stale[n]}
  <2>1. /\ \A n \in Notification :
             push_status'[n] = IF n \in expired THEN "pending" ELSE push_status[n]
        /\ \A n \in Notification, d \in Device :
             ledger'[n][d] = IF n \in expired /\ ledger[n][d] = "sending"
                             THEN "sent" ELSE ledger[n][d]
        /\ UNCHANGED task
    BY <1>8 DEF ReclaimStale, Sealed
  <2>2. \A v \in Worker : task[v].pc # "idle" => task[v].job \in Notification \ expired
    BY <1>1
  <2>3. \A n \in expired : push_status[n] = "processing"
    OBVIOUS
  <2> HIDE DEF expired
  <2>4. OpenRowsHeld'
    BY <2>1 DEF LeaseInv, OpenRowsHeld, Holds
  <2>5. \A n \in Notification \ expired : HasAnySent(n)' => HasAnySent(n)
    BY <2>1 DEF HasAnySent
  <2>6. \A n \in Notification : push_status'[n] = "failed" => ~HasAnySent(n)'
    BY <2>1, <2>3, <2>5 DEF LeaseInv, FailuresStand
  <2>7. ASSUME NEW v \in Worker, task'[v].pc = "finalize", task'[v].verdict = "failed"
        PROVE  ~HasAnySent(task[v].job)'
    <3>1. task'[v] = task[v] /\ task[v].job \in Notification \ expired
      BY <2>1, <2>2, <2>7
    <3>2. ~HasAnySent(task[v].job)
      BY <2>7, <3>1 DEF LeaseInv, FailuresStand
    <3> QED
      BY <2>1, <3>1, <3>2 DEF HasAnySent
  <2>8. FailuresStand'
    BY <2>6, <2>7 DEF FailuresStand
  <2> QED
    BY <2>4, <2>8 DEF LeaseInv
<1>9. ASSUME NEW n \in Notification, LeaseExpires(n) PROVE LeaseInv'
  BY <1>2, <1>9 DEF LeaseExpires
<1>10. ASSUME NEW w \in Worker, Fault(w) PROVE LeaseInv'
  BY <1>2, <1>10, IdleEffect DEF Fault, database
<1>11. CASE UNCHANGED vars
  BY <1>2, <1>11 DEF vars
<1> QED
  BY <1>4, <1>5, <1>6, <1>7, <1>8, <1>9, <1>10, <1>11 DEF Next

\* LeaseInv always holds if leases cover jobs.
LEMMA AlwaysLeaseInv ==
  ASSUME LeaseCoversJob
  PROVE  Spec => []LeaseInv
<1>1. Init => LeaseInv
  BY DEF Init, LeaseInv, OpenRowsHeld, FailuresStand, NoTask
<1>2. IInv /\ OwnerInv /\ LeaseInv /\ [Next]_vars => LeaseInv'
  BY LeaseInductive DEF IInv
<1> QED
  BY <1>1, <1>2, AlwaysIInv, AlwaysOwnerInv, PTL DEF Spec

\* While leases cover jobs, a finalized notification has no row left in sending:
\* its job closed each row it opened, and reclaim those of jobs that died.
THEOREM RowsAreClosed ==
  ASSUME LeaseCoversJob
  PROVE  Spec => []NoOpenRowLeft
<1>1. LeaseInv => NoOpenRowLeft
  BY DEF LeaseInv, OpenRowsHeld, NoOpenRowLeft, Terminal
<1> QED
  BY <1>1, AlwaysLeaseInv, PTL

\* While leases cover jobs, a notification finalized as failed was sent to no
\* device, on the word of its delivery rows.
THEOREM FailedSentNone ==
  ASSUME LeaseCoversJob
  PROVE  Spec => []FailedMeansNoneSent
<1>1. LeaseInv => FailedMeansNoneSent
  BY DEF LeaseInv, FailuresStand, FailedMeansNoneSent
<1> QED
  BY <1>1, AlwaysLeaseInv, PTL

=============================================================================
