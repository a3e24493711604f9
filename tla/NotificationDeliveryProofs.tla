---------------------- MODULE NotificationDeliveryProofs ----------------------
(***************************************************************************)
(* What NotificationDelivery guarantees for every set of notifications,    *)
(* devices and workers.                                                    *)
(***************************************************************************)
EXTENDS NotificationDelivery, TLAPS

-----------------------------------------------------------------------------
(* Types                                                                    *)

\* Take keeps the types when the workers of the owner function are idle and
\* get pending rows, as in claim_by_id and claim_pending_batch.
LEMMA TakeType ==
  ASSUME TypeOK,
         NEW ws \in SUBSET Idle, NEW owner \in [ws -> Pending],
         Take(owner)
  PROVE  TypeOK'
<1>1. ws \subseteq Worker /\ \A w \in ws : owner[w] \in Notification
  BY DEF Idle, Pending
<1>2. push_status' \in [Notification -> PushStatus]
  BY DEF Take, TypeOK, PushStatus
<1>3. stale' \in [Notification -> BOOLEAN]
  BY Zenon DEF Take, TypeOK
<1>4. DOMAIN owner = ws
  OBVIOUS
<1>5. \A n \in Notification :
        [NoTask EXCEPT !.pc = "resolve", !.job = n] \in TaskInProgress
  BY DEF NoTask, Task, TaskInProgress, Point, Reply, Terminal
<1>6. task' \in [Worker -> TaskInProgress]
  BY <1>1, <1>4, <1>5 DEF Take, TypeOK
<1> QED
  BY <1>2, <1>3, <1>6 DEF Take, TypeOK, history

\* A step of one worker that leaves its task well formed.
LEMMA BecomeType ==
  ASSUME TypeOK, NEW w \in Worker, NEW t \in TaskInProgress, Become(w, t)
  PROVE  task' \in [Worker -> TaskInProgress]
BY DEF TypeOK, Become

\* Where the loop over targets can continue.
LEMMA AfterTargetPoint ==
  ASSUME NEW todo, NEW invalid
  PROVE  AfterTarget(todo, invalid) \in {"device", "deactivate", "seal"}
BY DEF AfterTarget

\* ExpoSender.send answers one of three ways, whatever ended its call.
LEMMA AnswersReply ==
  ASSUME NEW a \in Answers
  PROVE  a.reply \in Reply
<1>1. PICK o \in Outcome : a = [reply |-> Classify(o), landed |-> o.landed]
  BY DEF Answers, Endings
<1>2. o.ending \in Ending /\ o.named \in BOOLEAN
  BY DEF Outcome
<1>3. Classify(o) \in Reply
  BY <1>2, Zenon DEF Classify, Reply, Ending
<1> QED
  BY <1>1, <1>3

\* Every step of _execute_job keeps the types.
LEMMA JobStepType ==
  ASSUME TypeOK, ConstantsAssumption, NEW w \in Worker, JobStep(w)
  PROVE  TypeOK'
<1> DEFINE t == task[w]
<1>t. /\ t \in TaskInProgress
      /\ task \in [Worker -> TaskInProgress]
  BY DEF TypeOK
<1>1. CASE Resolve(w)
  <2> DEFINE targets == Targets(t.job)
             u == IF targets = {}
                  THEN [t EXCEPT !.pc = "finalize", !.verdict = "sent"]
                  ELSE [t EXCEPT !.pc = "device", !.todo = targets]
  <2>1. t.pc = "resolve" /\ Become(w, u) /\ UNCHANGED <<database, history>>
    BY <1>1 DEF Resolve
  <2>2. targets \subseteq Device
    BY <1>t, <2>1 DEF ConstantsAssumption, TaskInProgress, Targets
  <2>3. u \in TaskInProgress
    BY <1>t, <2>1, <2>2 DEF TaskInProgress, Task, Point, Terminal
  <2> QED
    BY <2>1, <2>3, BecomeType DEF TypeOK, database, history
<1>2. ASSUME NEW d \in Device, ClaimDevice(w, d) PROVE TypeOK'
  <2> DEFINE u == [t EXCEPT !.pc = "send", !.todo = @ \ {d}, !.target = d]
  <2>1. u \in TaskInProgress /\ t.job \in Notification
    BY <1>t, <1>2 DEF ClaimDevice, TaskInProgress, Task, Point
  <2>2. Become(w, u)
    BY <1>2 DEF ClaimDevice
  <2>3. ledger' \in [Notification -> [Device -> RowStatus]]
    BY <1>2, <2>1 DEF ClaimDevice, TypeOK, RowStatus
  <2> QED
    BY <1>2, <2>1, <2>2, <2>3, BecomeType DEF ClaimDevice, TypeOK, history
<1>3. ASSUME NEW d \in Device, SkipDevice(w, d) PROVE TypeOK'
  <2> DEFINE rest == t.todo \ {d}
             u == [t EXCEPT !.pc = AfterTarget(rest, t.invalid), !.todo = rest]
  <2>1. t.pc = "device" /\ Become(w, u) /\ UNCHANGED <<database, history>>
    BY <1>3 DEF SkipDevice
  <2>2. u \in TaskInProgress
    BY <1>t, <2>1, AfterTargetPoint DEF TaskInProgress, Task, Point
  <2> QED
    BY <2>1, <2>2, BecomeType DEF TypeOK, database, history
<1>4. ASSUME NEW a \in Answers, Send(w, a) PROVE TypeOK'
  <2> DEFINE u == [t EXCEPT !.pc = "record", !.reply = a.reply]
  <2>0. a.reply \in Reply
    BY AnswersReply
  <2>1. /\ u \in TaskInProgress
        /\ t.job \in Notification
        /\ t.target \in Device
    BY <1>t, <1>4, <2>0 DEF Send, TaskInProgress, Task, Point
  <2>2. Become(w, u)
    BY <1>4 DEF Send
  <2>3. /\ attempted' \in [Notification -> SUBSET Device]
        /\ misreported' \in [Notification -> SUBSET Device]
        /\ duplicated' \in [Notification -> SUBSET Device]
        /\ confirmed' \in [Notification -> SUBSET Device]
    BY <1>4, <2>1 DEF Send, TypeOK
  <2> QED
    BY <1>4, <2>1, <2>2, <2>3, BecomeType DEF Send, TypeOK, database
<1>5. CASE MarkSent(w)
  <2> DEFINE u == [t EXCEPT !.pc = AfterTarget(t.todo, t.invalid),
                            !.target = NoDevice, !.reply = "none", !.anySent = TRUE]
  <2>1. /\ u \in TaskInProgress
        /\ t.job \in Notification
    BY <1>t, <1>5, AfterTargetPoint DEF MarkSent, TaskInProgress, Task, Point
  <2>2. Become(w, u)
    BY <1>5 DEF MarkSent
  <2>3. ledger' \in [Notification -> [Device -> RowStatus]]
    BY <1>5, <2>1 DEF MarkSent, SentRow, TypeOK, RowStatus
  <2> QED
    BY <1>5, <2>1, <2>2, <2>3, BecomeType DEF MarkSent, TypeOK, history
<1>6. CASE ReleaseClaim(w)
  <2> DEFINE invalid == IF t.reply = "unregistered" THEN t.invalid \cup {t.target}
                                                    ELSE t.invalid
             u == [t EXCEPT !.pc = AfterTarget(t.todo, invalid),
                            !.target = NoDevice, !.reply = "none", !.invalid = invalid]
  <2>1. /\ t.pc = "record"
        /\ Become(w, u)
        /\ ledger' = [ledger EXCEPT ![t.job][t.target] = ReleasedRow(@)]
        /\ UNCHANGED <<push_status, stale, active, history>>
    BY <1>6 DEF ReleaseClaim
  <2>2. invalid \in SUBSET Device /\ t.job \in Notification
    BY <1>t, <2>1 DEF TaskInProgress, Task
  <2>3. u \in TaskInProgress
    <3>1. AfterTarget(t.todo, invalid) \in {"device", "deactivate", "seal"}
      BY AfterTargetPoint
    <3> HIDE DEF invalid
    <3> QED
      BY <1>t, <2>1, <2>2, <3>1 DEF TaskInProgress, Task, Point
  <2>4. ledger' \in [Notification -> [Device -> RowStatus]]
    BY <2>1, <2>2 DEF ReleasedRow, TypeOK, RowStatus
  <2> QED
    BY <2>1, <2>3, <2>4, BecomeType DEF TypeOK, history
<1>7. CASE DeactivateTokens(w)
  <2>1. [t EXCEPT !.pc = "seal"] \in TaskInProgress
    BY <1>t, <1>7 DEF DeactivateTokens, TaskInProgress, Task, Point
  <2>2. active' \in [Device -> BOOLEAN]
    BY <1>7, Zenon DEF DeactivateTokens
  <2> QED
    BY <1>7, <2>1, <2>2, BecomeType DEF DeactivateTokens, TypeOK, history
<1>8. CASE SealOpenSending(w)
  <2>1. [t EXCEPT !.pc = "decide"] \in TaskInProgress
    BY <1>t, <1>8 DEF SealOpenSending, TaskInProgress, Task, Point
  <2>2. ledger' \in [Notification -> [Device -> RowStatus]]
    BY <1>8 DEF SealOpenSending, Sealed, TypeOK, RowStatus
  <2> QED
    BY <1>8, <2>1, <2>2, BecomeType DEF SealOpenSending, TypeOK, history
<1>9. CASE Decide(w)
  <2> DEFINE u == [t EXCEPT !.pc = "finalize",
                     !.verdict = IF t.anySent \/ HasAnySent(t.job) THEN "sent" ELSE "failed"]
  <2>1. u \in TaskInProgress
    BY <1>t, <1>9 DEF Decide, TaskInProgress, Task, Point, Terminal
  <2>2. Become(w, u) /\ UNCHANGED <<database, history>>
    BY <1>9 DEF Decide
  <2> QED
    BY <2>1, <2>2, BecomeType DEF TypeOK, database, history
<1>10. CASE Finalize(w)
  <2>1. NoTask \in TaskInProgress
    BY DEF NoTask, TaskInProgress, Task, Point
  <2>2. t.job \in Notification /\ t.verdict \in Terminal
    BY <1>t, <1>10 DEF Finalize, TaskInProgress
  <2>3. push_status' \in [Notification -> PushStatus] /\ stale' \in [Notification -> BOOLEAN]
    BY <1>10, <2>2 DEF Finalize, TypeOK, PushStatus, Terminal
  <2> QED
    BY <1>10, <2>1, <2>3, BecomeType DEF Finalize, TypeOK, history
<1> QED
  BY <1>1, <1>2, <1>3, <1>4, <1>5, <1>6, <1>7, <1>8, <1>9, <1>10 DEF JobStep

\* Every step of the pipeline keeps the types.
LEMMA NextType ==
  ASSUME TypeOK, ConstantsAssumption, [Next]_vars
  PROVE  TypeOK'
<1>1. ASSUME NEW w \in Worker, NEW n \in Notification, ClaimById(w, n)
      PROVE  TypeOK'
  <2>1. /\ {w} \in SUBSET Idle
        /\ [v \in {w} |-> n] \in [{w} -> Pending]
        /\ Take([v \in {w} |-> n])
    BY <1>1 DEF ClaimById
  <2> QED
    BY <2>1, TakeType
<1>2. ASSUME NEW ws \in SUBSET Idle, NEW owner \in [ws -> Pending], ClaimBatch(owner)
      PROVE  TypeOK'
  BY <1>2, TakeType DEF ClaimBatch
<1>3. ASSUME NEW w \in Worker, JobStep(w) PROVE TypeOK'
  BY <1>3, JobStepType
<1>4. CASE ReclaimStale
  <2> DEFINE expired == {n \in Notification : push_status[n] = "processing" /\ stale[n]}
  <2>1. push_status' \in [Notification -> PushStatus]
    BY <1>4 DEF ReclaimStale, TypeOK, PushStatus
  <2>2. stale' = [n \in Notification |-> n \notin expired /\ stale[n]]
    BY <1>4 DEF ReclaimStale
  <2>3. stale' \in [Notification -> BOOLEAN]
    BY <2>2, Zenon
  <2>4. ledger' \in [Notification -> [Device -> RowStatus]]
    BY <1>4 DEF ReclaimStale, Sealed, TypeOK, RowStatus
  <2> QED
    BY <1>4, <2>1, <2>3, <2>4 DEF ReclaimStale, TypeOK, history
<1>5. ASSUME NEW n \in Notification, LeaseExpires(n) PROVE TypeOK'
  BY <1>5 DEF LeaseExpires, TypeOK, history
<1>6. ASSUME NEW w \in Worker, Fault(w) PROVE TypeOK'
  <2>1. NoTask \in TaskInProgress
    BY DEF NoTask, TaskInProgress, Task, Point
  <2>2. orphaned' \in [Notification -> SUBSET Device]
    BY <1>6 DEF Fault, TypeOK, TaskInProgress
  <2> QED
    BY <1>6, <2>1, <2>2, BecomeType DEF Fault, TypeOK, database
<1>7. CASE UNCHANGED vars
  BY <1>7 DEF vars, TypeOK
<1> QED
  BY <1>1, <1>2, <1>3, <1>4, <1>5, <1>6, <1>7 DEF Next

\* The pipeline starts well typed.
LEMMA InitType == Init => TypeOK
BY DEF Init, TypeOK, PushStatus, RowStatus, NoTask, TaskInProgress, Task, Point

\* Every reachable state of the tables and of the jobs is well typed: the
\* statuses are those of the database's check constraints, and a job between
\* try_claim and the record always knows its notification and its device.
THEOREM TypeCorrect == Spec => []TypeOK
<1>1. TypeOK /\ [Next]_vars => TypeOK'
  BY NextType, ConstantsAssumption
<1> QED
  BY <1>1, InitType, PTL DEF Spec

-----------------------------------------------------------------------------
(* The delivery rows as locks                                               *)

\* ExclusiveDevice is not inductive alone: try_claim keeps it only because a
\* held device has a row, and rows survive sealing and reclaim.
IInv == TypeOK /\ ExclusiveDevice /\ RowsGuardDevices

\* A step keeps the lock discipline when nobody starts to hold a device, rows
\* stay and no outcome is added.
LEMMA NothingNewHeld ==
  ASSUME IInv,
         UNCHANGED <<confirmed, orphaned>>,
         \A n \in Notification, d \in Device : ledger[n][d] # "none" => ledger'[n][d] # "none",
         \A w \in Worker : task'[w].pc \in {"send", "record"} => task'[w] = task[w]
  PROVE  ExclusiveDevice' /\ RowsGuardDevices'
<1>1. \A w \in Worker, n \in Notification, d \in Device :
        Holds(w, n, d)' => Holds(w, n, d) /\ task'[w] = task[w]
  BY DEF Holds
<1>2. ExclusiveDevice'
  BY <1>1 DEF IInv, ExclusiveDevice
<1>3. RowsGuardDevices'
  BY <1>1 DEF IInv, RowsGuardDevices
<1> QED
  BY <1>2, <1>3

\* try_claim: the new holder met no row, so nobody held the device and nothing
\* was decided about it.
LEMMA ClaimDeviceKeeps ==
  ASSUME IInv, NEW w \in Worker, NEW d \in Device, ClaimDevice(w, d)
  PROVE  ExclusiveDevice' /\ RowsGuardDevices'
<1> DEFINE n == task[w].job
<1>1. /\ n \in Notification
      /\ task \in [Worker -> TaskInProgress]
      /\ ledger \in [Notification -> [Device -> RowStatus]]
  BY DEF IInv, TypeOK, TaskInProgress, ClaimDevice
<1>2. /\ ledger[n][d] = "none"
      /\ ledger' = [ledger EXCEPT ![n][d] = "sending"]
      /\ UNCHANGED <<confirmed, orphaned>>
  BY DEF ClaimDevice, history
<1>3. /\ \A v \in Worker \ {w} : task'[v] = task[v]
      /\ task'[w].pc = "send"
      /\ task'[w].job = n
      /\ task'[w].target = d
  BY <1>1 DEF ClaimDevice, Become, TaskInProgress, Task
<1>4. \A v \in Worker, m \in Notification, e \in Device :
        Holds(v, m, e)' <=> (IF v = w THEN m = n /\ e = d ELSE Holds(v, m, e))
  BY <1>3 DEF Holds
<1>5. /\ \A v \in Worker : ~Holds(v, n, d)
      /\ d \notin confirmed[n] \cup orphaned[n]
  BY <1>1, <1>2 DEF IInv, RowsGuardDevices
<1>6. \A m \in Notification, e \in Device :
        ledger'[m][e] = IF m = n /\ e = d THEN "sending" ELSE ledger[m][e]
  BY <1>1, <1>2
<1>7. ExclusiveDevice'
  BY <1>4, <1>5 DEF IInv, ExclusiveDevice
<1>8. RowsGuardDevices'
  BY <1>1, <1>2, <1>3, <1>4, <1>5, <1>6 DEF IInv, RowsGuardDevices
<1> QED
  BY <1>7, <1>8

\* ExpoSender.send: the holder stays the holder, and confirms its own device.
LEMMA SendKeeps ==
  ASSUME IInv, NEW w \in Worker, NEW a \in Answers, Send(w, a)
  PROVE  ExclusiveDevice' /\ RowsGuardDevices'
<1> DEFINE n == task[w].job
           d == task[w].target
<1>1. /\ n \in Notification
      /\ d \in Device
      /\ task \in [Worker -> TaskInProgress]
      /\ confirmed \in [Notification -> SUBSET Device]
  BY DEF IInv, TypeOK, TaskInProgress, Send
<1>2. /\ UNCHANGED <<ledger, orphaned>>
      /\ confirmed' = [confirmed EXCEPT ![n] = IF a.reply = "ok" THEN @ \cup {d} ELSE @]
  BY DEF Send, database
<1>3. /\ \A v \in Worker \ {w} : task'[v] = task[v]
      /\ task[w].pc = "send"
      /\ task'[w].pc = "record"
      /\ task'[w].job = n
      /\ task'[w].target = d
      /\ task'[w].reply = a.reply
  BY <1>1 DEF Send, Become, TaskInProgress, Task
<1>4. \A v \in Worker, m \in Notification, e \in Device :
        Holds(v, m, e)' <=> Holds(v, m, e)
  BY <1>3 DEF Holds
<1>5. /\ Holds(w, n, d)
      /\ d \notin confirmed[n]
  BY <1>1, <1>3 DEF IInv, RowsGuardDevices, Holds
<1>6. \A m \in Notification, e \in Device :
        e \in confirmed'[m] <=> (e \in confirmed[m] \/ (m = n /\ e = d /\ a.reply = "ok"))
  BY <1>1, <1>2
<1>7. ExclusiveDevice'
  BY <1>4 DEF IInv, ExclusiveDevice
<1>8. \A v \in Worker, m \in Notification, e \in Device :
        Holds(v, m, e) /\ v # w => ~(m = n /\ e = d)
  BY <1>1, <1>5 DEF IInv, ExclusiveDevice
<1>9. \A m \in Notification, e \in Device :
        Holds(w, m, e) => m = n /\ e = d
  BY DEF Holds
<1>10. RowsGuardDevices'
  <2> SUFFICES ASSUME NEW m \in Notification, NEW e \in Device
               PROVE  /\ e \in confirmed'[m] \cup orphaned'[m] => ledger'[m][e] # "none"
                      /\ \A v \in Worker : Holds(v, m, e)' =>
                           /\ ledger'[m][e] # "none"
                           /\ e \notin orphaned'[m]
                           /\ e \in confirmed'[m] =>
                                task'[v].pc = "record" /\ task'[v].reply = "ok"
    BY DEF RowsGuardDevices
  <2>1. e \in confirmed'[m] \cup orphaned'[m] => ledger'[m][e] # "none"
    BY <1>2, <1>5, <1>6 DEF IInv, RowsGuardDevices
  <2>2. ASSUME NEW v \in Worker, Holds(v, m, e)'
        PROVE  /\ ledger'[m][e] # "none"
               /\ e \notin orphaned'[m]
               /\ e \in confirmed'[m] => task'[v].pc = "record" /\ task'[v].reply = "ok"
    <3>1. Holds(v, m, e)
      BY <1>4, <2>2
    <3>2. ledger'[m][e] # "none" /\ e \notin orphaned'[m]
      BY <1>2, <3>1 DEF IInv, RowsGuardDevices
    <3>3. CASE v = w
      BY <1>3, <1>5, <1>6, <1>9, <3>1, <3>2, <3>3
    <3>4. CASE v # w
      BY <1>3, <1>6, <1>8, <3>1, <3>2, <3>4 DEF IInv, RowsGuardDevices
    <3> QED
      BY <3>3, <3>4
  <2> QED
    BY <2>1, <2>2
<1> QED
  BY <1>7, <1>10

\* release_claim: only the holder's row goes, and Expo confirmed nothing for it.
LEMMA ReleaseClaimKeeps ==
  ASSUME IInv, NEW w \in Worker, ReleaseClaim(w)
  PROVE  ExclusiveDevice' /\ RowsGuardDevices'
<1> DEFINE n == task[w].job
           d == task[w].target
<1>1. /\ n \in Notification
      /\ d \in Device
      /\ task \in [Worker -> TaskInProgress]
      /\ ledger \in [Notification -> [Device -> RowStatus]]
      /\ task[w].pc = "record"
      /\ task[w].reply # "ok"
  BY DEF IInv, TypeOK, TaskInProgress, ReleaseClaim
<1>2. /\ ledger' = [ledger EXCEPT ![n][d] = ReleasedRow(@)]
      /\ UNCHANGED <<confirmed, orphaned>>
  BY DEF ReleaseClaim, history
<1>3. PICK p \in {"device", "deactivate", "seal"} : task'[w].pc = p
  <2> DEFINE invalid == IF task[w].reply = "unregistered"
                        THEN task[w].invalid \cup {task[w].target}
                        ELSE task[w].invalid
  <2>1. AfterTarget(task[w].todo, invalid) \in {"device", "deactivate", "seal"}
    BY AfterTargetPoint
  <2>2. task'[w].pc = AfterTarget(task[w].todo, invalid)
    BY <1>1 DEF ReleaseClaim, Become, TaskInProgress, Task
  <2> QED
    BY <2>1, <2>2
<1>4. \A v \in Worker \ {w} : task'[v] = task[v]
  BY <1>1 DEF ReleaseClaim, Become
<1>5. \A v \in Worker, m \in Notification, e \in Device :
        Holds(v, m, e)' <=> v # w /\ Holds(v, m, e)
  BY <1>3, <1>4 DEF Holds
<1>6. /\ Holds(w, n, d)
      /\ d \notin confirmed[n] \cup orphaned[n]
  BY <1>1 DEF IInv, RowsGuardDevices, Holds
<1>7. \A m \in Notification, e \in Device :
        ~(m = n /\ e = d) => ledger'[m][e] = ledger[m][e]
  BY <1>1, <1>2
<1>8. \A v \in Worker \ {w} : ~Holds(v, n, d)
  BY <1>1, <1>6 DEF IInv, ExclusiveDevice
<1>9. ExclusiveDevice'
  BY <1>5 DEF IInv, ExclusiveDevice
<1>10. RowsGuardDevices'
  BY <1>2, <1>4, <1>5, <1>6, <1>7, <1>8 DEF IInv, RowsGuardDevices
<1> QED
  BY <1>9, <1>10

\* A worker that dies while it holds a device leaves its row behind.
LEMMA FaultKeeps ==
  ASSUME IInv, NEW w \in Worker, Fault(w)
  PROVE  ExclusiveDevice' /\ RowsGuardDevices'
<1> DEFINE n == task[w].job
           d == task[w].target
<1>1. /\ task \in [Worker -> TaskInProgress]
      /\ orphaned \in [Notification -> SUBSET Device]
      /\ UNCHANGED <<ledger, confirmed>>
  BY DEF IInv, TypeOK, Fault, database
<1>2. \A v \in Worker, m \in Notification, e \in Device :
        Holds(v, m, e)' <=> v # w /\ Holds(v, m, e)
  <2>1. task'[w].pc = "idle" /\ \A v \in Worker \ {w} : task'[v] = task[v]
    BY <1>1 DEF Fault, Become, NoTask
  <2> QED
    BY <2>1 DEF Holds
<1>3. \A v \in Worker \ {w} : task'[v] = task[v]
  BY <1>1 DEF Fault, Become
<1>4. ExclusiveDevice'
  BY <1>2 DEF IInv, ExclusiveDevice
<1>5. CASE task[w].pc \in {"send", "record"}
  <2>1. n \in Notification /\ d \in Device
    BY <1>1, <1>5 DEF TaskInProgress
  <2>2. \A m \in Notification, e \in Device :
          e \in orphaned'[m] <=> (e \in orphaned[m] \/ (m = n /\ e = d))
    BY <1>1, <1>5, <2>1 DEF Fault
  <2>3. Holds(w, n, d)
    BY <1>5 DEF Holds
  <2>4. \A v \in Worker \ {w} : ~Holds(v, n, d)
    BY <2>1, <2>3 DEF IInv, ExclusiveDevice
  <2>5. ledger[n][d] # "none"
    BY <2>1, <2>3 DEF IInv, RowsGuardDevices
  <2>6. RowsGuardDevices'
    BY <1>1, <1>2, <1>3, <2>2, <2>4, <2>5 DEF IInv, RowsGuardDevices
  <2> QED
    BY <1>4, <2>6
<1>6. CASE task[w].pc \notin {"send", "record"}
  <2>1. orphaned' = orphaned
    BY <1>6 DEF Fault
  <2> QED
    BY <1>1, <1>2, <1>3, <1>4, <2>1 DEF IInv, RowsGuardDevices
<1> QED
  BY <1>5, <1>6

\* Every step of _execute_job keeps the lock discipline.
LEMMA JobStepKeeps ==
  ASSUME IInv, NEW w \in Worker, JobStep(w)
  PROVE  ExclusiveDevice' /\ RowsGuardDevices'
<1> DEFINE t == task[w]
<1>1. /\ task \in [Worker -> TaskInProgress]
      /\ ledger \in [Notification -> [Device -> RowStatus]]
  BY DEF IInv, TypeOK
<1>2. ASSUME NEW u, Become(w, u), u.pc \notin {"send", "record"}
      PROVE  \A v \in Worker : task'[v].pc \in {"send", "record"} => task'[v] = task[v]
  BY <1>1, <1>2 DEF Become
<1>3. CASE Resolve(w)
  <2> DEFINE targets == Targets(t.job)
             u == IF targets = {}
                  THEN [t EXCEPT !.pc = "finalize", !.verdict = "sent"]
                  ELSE [t EXCEPT !.pc = "device", !.todo = targets]
  <2>1. Become(w, u) /\ UNCHANGED <<database, history>>
    BY <1>3 DEF Resolve
  <2>2. u.pc \in {"finalize", "device"}
    BY <1>1 DEF TaskInProgress, Task
  <2> QED
    BY <1>2, <2>1, <2>2, NothingNewHeld DEF database, history
<1>4. ASSUME NEW d \in Device, ClaimDevice(w, d) PROVE ExclusiveDevice' /\ RowsGuardDevices'
  BY <1>4, ClaimDeviceKeeps
<1>5. ASSUME NEW d \in Device, SkipDevice(w, d) PROVE ExclusiveDevice' /\ RowsGuardDevices'
  <2> DEFINE rest == t.todo \ {d}
             u == [t EXCEPT !.pc = AfterTarget(rest, t.invalid), !.todo = rest]
  <2>1. Become(w, u) /\ UNCHANGED <<database, history>>
    BY <1>5 DEF SkipDevice
  <2>2. u.pc \in {"device", "deactivate", "seal"}
    BY <1>1, AfterTargetPoint DEF TaskInProgress, Task
  <2> QED
    BY <1>2, <2>1, <2>2, NothingNewHeld DEF database, history
<1>6. ASSUME NEW a \in Answers, Send(w, a) PROVE ExclusiveDevice' /\ RowsGuardDevices'
  BY <1>6, SendKeeps
<1>7. CASE MarkSent(w)
  <2> DEFINE u == [t EXCEPT !.pc = AfterTarget(t.todo, t.invalid),
                            !.target = NoDevice, !.reply = "none", !.anySent = TRUE]
  <2>1. /\ Become(w, u)
        /\ ledger' = [ledger EXCEPT ![t.job][t.target] = SentRow(@)]
        /\ UNCHANGED history
    BY <1>7 DEF MarkSent
  <2>2. u.pc \in {"device", "deactivate", "seal"}
    BY <1>1, AfterTargetPoint DEF TaskInProgress, Task
  <2>3. \A n \in Notification, d \in Device : ledger[n][d] # "none" => ledger'[n][d] # "none"
    BY <1>1, <2>1 DEF SentRow
  <2> QED
    BY <1>2, <2>1, <2>2, <2>3, NothingNewHeld DEF history
<1>8. CASE ReleaseClaim(w)
  BY <1>8, ReleaseClaimKeeps
<1>9. CASE DeactivateTokens(w)
  <2>1. Become(w, [t EXCEPT !.pc = "seal"]) /\ UNCHANGED <<ledger, history>>
    BY <1>9 DEF DeactivateTokens
  <2>2. [t EXCEPT !.pc = "seal"].pc = "seal"
    BY <1>1 DEF TaskInProgress, Task
  <2> QED
    BY <1>2, <2>1, <2>2, NothingNewHeld DEF history
<1>10. CASE SealOpenSending(w)
  <2>1. Become(w, [t EXCEPT !.pc = "decide"]) /\ ledger' = Sealed({t.job}) /\ UNCHANGED history
    BY <1>10 DEF SealOpenSending
  <2>2. [t EXCEPT !.pc = "decide"].pc = "decide"
    BY <1>1 DEF TaskInProgress, Task
  <2>3. \A n \in Notification, d \in Device : ledger[n][d] # "none" => ledger'[n][d] # "none"
    BY <2>1 DEF Sealed
  <2> QED
    BY <1>2, <2>1, <2>2, <2>3, NothingNewHeld DEF history
<1>11. CASE Decide(w)
  <2> DEFINE u == [t EXCEPT !.pc = "finalize",
                     !.verdict = IF t.anySent \/ HasAnySent(t.job) THEN "sent" ELSE "failed"]
  <2>1. Become(w, u) /\ UNCHANGED <<database, history>>
    BY <1>11 DEF Decide
  <2>2. u.pc = "finalize"
    BY <1>1 DEF TaskInProgress, Task
  <2> QED
    BY <1>2, <2>1, <2>2, NothingNewHeld DEF database, history
<1>12. CASE Finalize(w)
  <2>1. Become(w, NoTask) /\ UNCHANGED <<ledger, history>>
    BY <1>12 DEF Finalize
  <2>2. NoTask.pc = "idle"
    BY DEF NoTask
  <2> QED
    BY <1>2, <2>1, <2>2, NothingNewHeld DEF history
<1> QED
  BY <1>3, <1>4, <1>5, <1>6, <1>7, <1>8, <1>9, <1>10, <1>11, <1>12 DEF JobStep

\* A claim of notifications touches no delivery row.
LEMMA TakeKeeps ==
  ASSUME IInv, NEW ws \in SUBSET Idle, NEW owner \in [ws -> Pending], Take(owner)
  PROVE  ExclusiveDevice' /\ RowsGuardDevices'
<1>1. UNCHANGED <<ledger, confirmed, orphaned>>
  BY DEF Take, history
<1>2. \A w \in Worker : task'[w].pc \in {"send", "record"} => task'[w] = task[w]
  BY DEF Take, NoTask
<1> QED
  BY <1>1, <1>2, NothingNewHeld

\* The lock discipline is inductive.
LEMMA Inductive ==
  ASSUME IInv, ConstantsAssumption, [Next]_vars
  PROVE  IInv'
<1>1. TypeOK'
  BY NextType DEF IInv
<1>2. ASSUME NEW w \in Worker, NEW n \in Notification, ClaimById(w, n)
      PROVE  ExclusiveDevice' /\ RowsGuardDevices'
  <2>1. /\ {w} \in SUBSET Idle
        /\ [v \in {w} |-> n] \in [{w} -> Pending]
        /\ Take([v \in {w} |-> n])
    BY <1>2 DEF ClaimById
  <2> QED
    BY <2>1, TakeKeeps
<1>3. ASSUME NEW ws \in SUBSET Idle, NEW owner \in [ws -> Pending], ClaimBatch(owner)
      PROVE  ExclusiveDevice' /\ RowsGuardDevices'
  BY <1>3, TakeKeeps DEF ClaimBatch
<1>4. ASSUME NEW w \in Worker, JobStep(w) PROVE ExclusiveDevice' /\ RowsGuardDevices'
  BY <1>4, JobStepKeeps
<1>5. ASSUME ReclaimStale PROVE ExclusiveDevice' /\ RowsGuardDevices'
  <2>1. /\ \A n \in Notification, d \in Device : ledger[n][d] # "none" => ledger'[n][d] # "none"
        /\ UNCHANGED <<task, confirmed, orphaned>>
    BY <1>5 DEF ReclaimStale, Sealed, history
  <2> QED
    BY <2>1, NothingNewHeld
<1>6. ASSUME NEW n \in Notification, LeaseExpires(n) PROVE ExclusiveDevice' /\ RowsGuardDevices'
  BY <1>6, NothingNewHeld DEF LeaseExpires, history
<1>7. ASSUME NEW w \in Worker, Fault(w) PROVE ExclusiveDevice' /\ RowsGuardDevices'
  BY <1>7, FaultKeeps
<1>8. ASSUME UNCHANGED vars PROVE ExclusiveDevice' /\ RowsGuardDevices'
  BY <1>8, NothingNewHeld DEF vars
<1>9. ExclusiveDevice' /\ RowsGuardDevices'
  BY <1>2, <1>3, <1>4, <1>5, <1>6, <1>7, <1>8 DEF Next
<1> QED
  BY <1>1, <1>9 DEF IInv

\* It holds at the start: no rows, no holders.
LEMMA InitInv == Init => IInv
<1> SUFFICES ASSUME Init PROVE IInv
  OBVIOUS
<1>1. TypeOK
  BY InitType
<1>2. \A w \in Worker, n \in Notification, d \in Device : ~Holds(w, n, d)
  BY DEF Init, Holds, NoTask
<1>3. ExclusiveDevice /\ RowsGuardDevices
  BY <1>2 DEF Init, ExclusiveDevice, RowsGuardDevices
<1> QED
  BY <1>1, <1>3 DEF IInv

\* A job about to call Expo holds its device, so the device is undecided.
LEMMA InvNoResend == IInv => NoResend
<1> SUFFICES ASSUME IInv, NEW w \in Worker, task[w].pc = "send"
             PROVE  task[w].target \notin confirmed[task[w].job] \cup orphaned[task[w].job]
  BY DEF NoResend
<1>1. task[w].job \in Notification /\ task[w].target \in Device
  BY DEF IInv, TypeOK, TaskInProgress
<1>2. Holds(w, task[w].job, task[w].target)
  BY DEF Holds
<1> QED
  BY <1>1, <1>2 DEF IInv, RowsGuardDevices

\* The lock discipline always holds.
LEMMA AlwaysIInv == Spec => []IInv
<1>1. IInv /\ [Next]_vars => IInv'
  BY Inductive, ConstantsAssumption
<1> QED
  BY <1>1, InitInv, PTL DEF Spec

\* Two jobs never work on the same device of the same notification at once,
\* however many jobs hold the notification: the unique constraint of
\* notification_push_deliveries is a lock, and nothing breaks it.
THEOREM DeviceExclusion == Spec => []ExclusiveDevice
<1>1. IInv => ExclusiveDevice
  BY DEF IInv
<1> QED
  BY <1>1, AlwaysIInv, PTL

\* A confirmed device keeps its row for good, and so does one whose worker died.
THEOREM RowsOutliveJobs == Spec => []RowsGuardDevices
<1>1. IInv => RowsGuardDevices
  BY DEF IInv
<1> QED
  BY <1>1, AlwaysIInv, PTL

\* Expo is never called again for a device it confirmed, or whose worker died
\* between try_claim and the record.
THEOREM NeverExpoAgain == Spec => []NoResend
BY InvNoResend, AlwaysIInv, PTL

-----------------------------------------------------------------------------
(* Repeated pushes                                                          *)

\* A push that lands twice landed first under an error answer: the sender is
\* never called for a device it confirmed.
LEMMA SendRepeatsMisreported ==
  ASSUME IInv, OnlyMisreportedRepeat, NEW w \in Worker, NEW a \in Answers, Send(w, a)
  PROVE  OnlyMisreportedRepeat'
<1> DEFINE n == task[w].job
           d == task[w].target
<1>1. n \in Notification /\ d \in Device
  BY DEF IInv, TypeOK, TaskInProgress, Send
<1>2. d \notin confirmed[n]
  BY <1>1, InvNoResend DEF NoResend, Send
<1>3. \A m \in Notification : misreported[m] \subseteq misreported'[m]
  BY <1>1 DEF Send, IInv, TypeOK
<1>4. \A m \in Notification :
        duplicated'[m] \subseteq duplicated[m] \cup (IF m = n THEN {d} \cap misreported[n] ELSE {})
  BY <1>1, <1>2 DEF Send, IInv, TypeOK
<1> QED
  BY <1>3, <1>4 DEF OnlyMisreportedRepeat

\* Whatever crashes, expires or overlaps, Expo accepts a push of a notification
\* to a device a second time only after it answered the first one, accepted,
\* with an error.
THEOREM RepeatsAreMisreported == Spec => []OnlyMisreportedRepeat
<1>1. Init => OnlyMisreportedRepeat
  BY DEF Init, OnlyMisreportedRepeat
<1>2. IInv /\ OnlyMisreportedRepeat /\ [Next]_vars => OnlyMisreportedRepeat'
  <2> SUFFICES ASSUME IInv, OnlyMisreportedRepeat, [Next]_vars PROVE OnlyMisreportedRepeat'
    OBVIOUS
  <2>1. ASSUME NEW w \in Worker, NEW a \in Answers, Send(w, a) PROVE OnlyMisreportedRepeat'
    BY <2>1, SendRepeatsMisreported
  <2>2. ASSUME UNCHANGED <<misreported, duplicated>> PROVE OnlyMisreportedRepeat'
    BY <2>2 DEF OnlyMisreportedRepeat
  <2>3. \/ \E w \in Worker, a \in Answers : Send(w, a)
        \/ UNCHANGED <<misreported, duplicated>>
    BY DEF Next, vars, history, ClaimById, ClaimBatch, Take, JobStep, Resolve, ClaimDevice,
           SkipDevice, MarkSent, ReleaseClaim, DeactivateTokens, SealOpenSending, Decide,
           Finalize, ReclaimStale, LeaseExpires, Fault
  <2> QED
    BY <2>1, <2>2, <2>3
<1> QED
  BY <1>1, <1>2, AlwaysIInv, PTL DEF Spec

-----------------------------------------------------------------------------
(* Ownership, while no job outlasts its lease                                 *)

\* SingleOwner needs that the lease of a live job has not expired, else reclaim
\* would requeue its notification.
LeaseHeld == \A w \in Worker : task[w].pc # "idle" => ~stale[task[w].job]

OwnerInv == SingleOwner /\ LeaseHeld

\* A step that leaves push_status and stale alone, and every task idle or on
\* the same job as before, keeps the ownership.
LEMMA SameOwners ==
  ASSUME OwnerInv,
         UNCHANGED <<push_status, stale>>,
         \A w \in Worker : task'[w].pc # "idle" => task[w].pc # "idle" /\ task'[w].job = task[w].job
  PROVE  OwnerInv'
BY DEF OwnerInv, SingleOwner, LeaseHeld

\* Steps of a job other than its last keep the job and the notification's row.
LEMMA JobStepOwners ==
  ASSUME IInv, OwnerInv, NEW w \in Worker, JobStep(w)
  PROVE  OwnerInv'
<1> DEFINE t == task[w]
<1>1. task \in [Worker -> TaskInProgress] /\ push_status \in [Notification -> PushStatus]
      /\ stale \in [Notification -> BOOLEAN]
  BY DEF IInv, TypeOK
<1>2. ASSUME NEW u, Become(w, u), t.pc # "idle", u.job = t.job, UNCHANGED <<push_status, stale>>
      PROVE  OwnerInv'
  <2>1. \A v \in Worker : task'[v].pc # "idle" => task[v].pc # "idle" /\ task'[v].job = task[v].job
    BY <1>1, <1>2 DEF Become
  <2> QED
    BY <1>2, <2>1, SameOwners
<1>3. CASE Resolve(w)
  <2> DEFINE targets == Targets(t.job)
             u == IF targets = {}
                  THEN [t EXCEPT !.pc = "finalize", !.verdict = "sent"]
                  ELSE [t EXCEPT !.pc = "device", !.todo = targets]
  <2>1. Become(w, u) /\ t.pc = "resolve" /\ UNCHANGED <<push_status, stale>>
    BY <1>3 DEF Resolve, database
  <2>2. u.job = t.job
    BY <1>1 DEF TaskInProgress, Task
  <2> QED
    BY <1>2, <2>1, <2>2
<1>4. ASSUME NEW d \in Device, ClaimDevice(w, d) PROVE OwnerInv'
  <2> DEFINE u == [t EXCEPT !.pc = "send", !.todo = @ \ {d}, !.target = d]
  <2>1. Become(w, u) /\ t.pc = "device" /\ UNCHANGED <<push_status, stale>>
    BY <1>4 DEF ClaimDevice
  <2>2. u.job = t.job
    BY <1>1 DEF TaskInProgress, Task
  <2> QED
    BY <1>2, <2>1, <2>2
<1>5. ASSUME NEW d \in Device, SkipDevice(w, d) PROVE OwnerInv'
  <2> DEFINE rest == t.todo \ {d}
             u == [t EXCEPT !.pc = AfterTarget(rest, t.invalid), !.todo = rest]
  <2>1. Become(w, u) /\ t.pc = "device" /\ UNCHANGED <<push_status, stale>>
    BY <1>5 DEF SkipDevice, database
  <2>2. u.job = t.job
    BY <1>1 DEF TaskInProgress, Task
  <2> QED
    BY <1>2, <2>1, <2>2
<1>6. ASSUME NEW a \in Answers, Send(w, a) PROVE OwnerInv'
  <2> DEFINE u == [t EXCEPT !.pc = "record", !.reply = a.reply]
  <2>1. Become(w, u) /\ t.pc = "send" /\ UNCHANGED <<push_status, stale>>
    BY <1>6 DEF Send, database
  <2>2. u.job = t.job
    BY <1>1 DEF TaskInProgress, Task
  <2> QED
    BY <1>2, <2>1, <2>2
<1>7. CASE MarkSent(w)
  <2> DEFINE u == [t EXCEPT !.pc = AfterTarget(t.todo, t.invalid),
                            !.target = NoDevice, !.reply = "none", !.anySent = TRUE]
  <2>1. Become(w, u) /\ t.pc = "record" /\ UNCHANGED <<push_status, stale>>
    BY <1>7 DEF MarkSent
  <2>2. u.job = t.job
    BY <1>1 DEF TaskInProgress, Task
  <2> QED
    BY <1>2, <2>1, <2>2
<1>8. CASE ReleaseClaim(w)
  <2> DEFINE invalid == IF t.reply = "unregistered" THEN t.invalid \cup {t.target}
                                                    ELSE t.invalid
             u == [t EXCEPT !.pc = AfterTarget(t.todo, invalid),
                            !.target = NoDevice, !.reply = "none", !.invalid = invalid]
  <2>1. Become(w, u) /\ t.pc = "record" /\ UNCHANGED <<push_status, stale>>
    BY <1>8 DEF ReleaseClaim
  <2>2. u.job = t.job
    BY <1>1 DEF TaskInProgress, Task
  <2> QED
    BY <1>2, <2>1, <2>2
<1>9. CASE DeactivateTokens(w)
  <2>1. Become(w, [t EXCEPT !.pc = "seal"]) /\ t.pc = "deactivate" /\ UNCHANGED <<push_status, stale>>
    BY <1>9 DEF DeactivateTokens
  <2>2. [t EXCEPT !.pc = "seal"].job = t.job
    BY <1>1 DEF TaskInProgress, Task
  <2> QED
    BY <1>2, <2>1, <2>2
<1>10. CASE SealOpenSending(w)
  <2>1. Become(w, [t EXCEPT !.pc = "decide"]) /\ t.pc = "seal" /\ UNCHANGED <<push_status, stale>>
    BY <1>10 DEF SealOpenSending
  <2>2. [t EXCEPT !.pc = "decide"].job = t.job
    BY <1>1 DEF TaskInProgress, Task
  <2> QED
    BY <1>2, <2>1, <2>2
<1>11. CASE Decide(w)
  <2> DEFINE u == [t EXCEPT !.pc = "finalize",
                     !.verdict = IF t.anySent \/ HasAnySent(t.job) THEN "sent" ELSE "failed"]
  <2>1. Become(w, u) /\ t.pc = "decide" /\ UNCHANGED <<push_status, stale>>
    BY <1>11 DEF Decide, database
  <2>2. u.job = t.job
    BY <1>1 DEF TaskInProgress, Task
  <2> QED
    BY <1>2, <2>1, <2>2
<1>12. CASE Finalize(w)
  <2>1. /\ t.pc # "idle"
        /\ t.job \in Notification
        /\ task'[w].pc = "idle"
        /\ \A v \in Worker \ {w} : task'[v] = task[v]
    BY <1>1, <1>12 DEF Finalize, Become, NoTask, TaskInProgress
  <2>2. \A n \in Notification : n # t.job => push_status'[n] = push_status[n] /\ stale'[n] = stale[n]
    BY <1>1, <1>12 DEF Finalize
  <2>3. \A v \in Worker : task'[v].pc # "idle" =>
          /\ v # w
          /\ task[v].job # t.job
          /\ task[v].job \in Notification
    BY <1>1, <2>1 DEF OwnerInv, SingleOwner, TaskInProgress
  <2> QED
    BY <2>1, <2>2, <2>3 DEF OwnerInv, SingleOwner, LeaseHeld
<1> QED
  BY <1>3, <1>4, <1>5, <1>6, <1>7, <1>8, <1>9, <1>10, <1>11, <1>12 DEF JobStep

\* A claim gives each pending row to one worker; no live job has such a row.
LEMMA TakeOwners ==
  ASSUME IInv, OwnerInv,
         NEW ws \in SUBSET Idle, NEW owner \in [ws -> Pending],
         \A v, w \in ws : owner[v] = owner[w] => v = w,
         Take(owner)
  PROVE  OwnerInv'
<1>1. /\ DOMAIN owner = ws
      /\ task \in [Worker -> TaskInProgress]
      /\ \A w \in ws : /\ task[w].pc = "idle"
                       /\ owner[w] \in Notification
                       /\ push_status[owner[w]] = "pending"
  BY DEF IInv, TypeOK, Idle, Pending
<1>2. \A n \in Notification : n \in Range(owner) <=> \E w \in ws : owner[w] = n
  BY <1>1 DEF Range
<1>3. \A w \in Worker : IF w \in ws
                        THEN task'[w].pc = "resolve" /\ task'[w].job = owner[w]
                        ELSE task'[w] = task[w]
  BY <1>1 DEF Take, NoTask
<1>4. \A w \in ws : push_status'[owner[w]] = "processing" /\ ~stale'[owner[w]]
  BY <1>1, <1>2 DEF Take
<1>5. \A w \in Worker \ ws : task[w].pc # "idle" =>
        /\ task[w].job \in Notification
        /\ \A v \in ws : owner[v] # task[w].job
  BY <1>1 DEF OwnerInv, SingleOwner, TaskInProgress
<1>6. \A w \in Worker \ ws : task[w].pc # "idle" =>
        push_status'[task[w].job] = "processing" /\ ~stale'[task[w].job]
  BY <1>2, <1>5 DEF Take, OwnerInv, SingleOwner, LeaseHeld
<1>7. SingleOwner'
  BY <1>3, <1>4, <1>5, <1>6 DEF OwnerInv, SingleOwner
<1>8. LeaseHeld'
  BY <1>3, <1>4, <1>6 DEF LeaseHeld
<1> QED
  BY <1>7, <1>8 DEF OwnerInv

\* Ownership is inductive while leases cover jobs.
LEMMA OwnerInductive ==
  ASSUME LeaseCoversJob, IInv, OwnerInv, [Next]_vars
  PROVE  OwnerInv'
<1>1. ASSUME NEW w \in Worker, NEW n \in Notification, ClaimById(w, n)
      PROVE  OwnerInv'
  <2>1. /\ {w} \in SUBSET Idle
        /\ [v \in {w} |-> n] \in [{w} -> Pending]
        /\ \A u, v \in {w} : u = v
        /\ Take([v \in {w} |-> n])
    BY <1>1 DEF ClaimById
  <2> HIDE DEF OwnerInv
  <2> QED
    BY <2>1, TakeOwners
<1>2. ASSUME NEW ws \in SUBSET Idle, NEW owner \in [ws -> Pending], ClaimBatch(owner)
      PROVE  OwnerInv'
  <2>1. \A v, w \in ws : owner[v] = owner[w] => v = w
    BY <1>2 DEF ClaimBatch, IsInjective
  <2> QED
    BY <1>2, <2>1, TakeOwners DEF ClaimBatch
<1>3. ASSUME NEW w \in Worker, JobStep(w) PROVE OwnerInv'
  BY <1>3, JobStepOwners
<1>4. CASE ReclaimStale
  <2>1. task' = task
    BY <1>4 DEF ReclaimStale
  <2>2. \A w \in Worker : task[w].pc # "idle" => task[w].job \in Notification
    BY DEF IInv, TypeOK, TaskInProgress
  <2>3. \A n \in Notification : ~stale[n] => push_status'[n] = push_status[n] /\ ~stale'[n]
    BY <1>4 DEF ReclaimStale
  <2> QED
    BY <2>1, <2>2, <2>3 DEF OwnerInv, SingleOwner, LeaseHeld
<1>5. ASSUME NEW n \in Notification, LeaseExpires(n) PROVE OwnerInv'
  <2>1. \A w \in Worker : task[w].job # n
    BY <1>5 DEF LeaseExpires
  <2>2. \A m \in Notification : m # n => stale'[m] = stale[m]
    BY <1>5 DEF LeaseExpires, IInv, TypeOK
  <2>3. \A w \in Worker : task[w].pc # "idle" => task[w].job \in Notification
    BY DEF IInv, TypeOK, TaskInProgress
  <2> QED
    BY <1>5, <2>1, <2>2, <2>3 DEF LeaseExpires, OwnerInv, SingleOwner, LeaseHeld
<1>6. ASSUME NEW w \in Worker, Fault(w) PROVE OwnerInv'
  <2>1. task'[w].pc = "idle" /\ \A v \in Worker \ {w} : task'[v] = task[v]
    BY <1>6 DEF Fault, Become, NoTask, IInv, TypeOK
  <2> QED
    BY <1>6, <2>1, SameOwners DEF Fault, database
<1>7. CASE UNCHANGED vars
  BY <1>7, SameOwners DEF vars
<1> QED
  BY <1>1, <1>2, <1>3, <1>4, <1>5, <1>6, <1>7 DEF Next

\* While leases cover jobs, a live job owns its notification.
LEMMA AlwaysOwnerInv ==
  ASSUME LeaseCoversJob
  PROVE  Spec => []OwnerInv
<1>1. Init => OwnerInv
  BY DEF Init, OwnerInv, SingleOwner, LeaseHeld, NoTask
<1>2. IInv /\ OwnerInv /\ [Next]_vars => OwnerInv'
  BY OwnerInductive
<1> QED
  BY <1>1, <1>2, AlwaysIInv, PTL DEF Spec

\* If no live job outlasts RECLAIM_AFTER_SECONDS, each notification is worked on
\* by at most one job, and is processing as long as it is.
THEOREM SingleOwnerWithinLease ==
  ASSUME LeaseCoversJob
  PROVE  Spec => []SingleOwner
<1>1. OwnerInv => SingleOwner
  BY DEF OwnerInv
<1> QED
  BY <1>1, AlwaysOwnerInv, PTL

-----------------------------------------------------------------------------
(* The life of a notification, as NotificationLifecycle states it            *)

\* A step of the pipeline is a step of the life of the notifications, or none.
LEMMA LifeStep ==
  ASSUME IInv, OwnerInv, [Next]_vars
  PROVE  [Life!LifeNext]_push_status
<1>0. push_status \in [Notification -> PushStatus]
  BY DEF IInv, TypeOK
<1>1. ASSUME NEW owner, Range(owner) \subseteq Pending, Take(owner) PROVE Life!Claim
  <2>1. Range(owner) \in SUBSET Notification
    BY <1>1 DEF Pending
  <2>2. Life!Move(Range(owner), "pending", "processing")
    BY <1>1 DEF Life!Move, Take, Pending
  <2> QED
    BY <2>1, <2>2 DEF Life!Claim
<1>2. ASSUME NEW w \in Worker, NEW n \in Notification, ClaimById(w, n) PROVE Life!LifeNext
  <2>1. Range([v \in {w} |-> n]) \subseteq Pending /\ Take([v \in {w} |-> n])
    BY <1>2 DEF ClaimById, Range
  <2> QED
    BY <2>1, <1>1 DEF Life!LifeNext
<1>3. ASSUME NEW ws \in SUBSET Idle, NEW owner \in [ws -> Pending], ClaimBatch(owner)
      PROVE  Life!LifeNext
  <2>1. Range(owner) \subseteq Pending /\ Take(owner)
    BY <1>3 DEF ClaimBatch, Range
  <2> QED
    BY <2>1, <1>1 DEF Life!LifeNext
<1>4. ASSUME NEW w \in Worker, Finalize(w) PROVE Life!LifeNext
  <2> DEFINE n == task[w].job
  <2>1. /\ push_status' = [push_status EXCEPT ![n] = task[w].verdict]
        /\ n \in Notification
        /\ task[w].verdict \in {"sent", "failed"}
        /\ push_status[n] = "processing"
    BY <1>4 DEF Finalize, IInv, TypeOK, TaskInProgress, Terminal, OwnerInv, SingleOwner
  <2>2. Life!Move({n}, "processing", task[w].verdict)
    BY <1>0, <2>1 DEF Life!Move
  <2> QED
    BY <2>1, <2>2 DEF Life!Conclude, Life!LifeNext
<1>5. ASSUME ReclaimStale PROVE Life!LifeNext
  <2> DEFINE expired == {n \in Notification : push_status[n] = "processing" /\ stale[n]}
  <2>1. Life!Move(expired, "processing", "pending")
    BY <1>5 DEF ReclaimStale, Life!Move
  <2> QED
    BY <2>1 DEF Life!Requeue, Life!LifeNext
<1>6. \/ \E w \in Worker, n \in Notification : ClaimById(w, n)
      \/ \E ws \in SUBSET Idle : \E owner \in [ws -> Pending] : ClaimBatch(owner)
      \/ \E w \in Worker : Finalize(w)
      \/ ReclaimStale
      \/ UNCHANGED push_status
  BY DEF Next, vars, database, JobStep, Resolve, ClaimDevice, SkipDevice, Send, MarkSent,
         ReleaseClaim, DeactivateTokens, SealOpenSending, Decide, LeaseExpires, Fault
<1> QED
  BY <1>2, <1>3, <1>4, <1>5, <1>6

\* If no live job outlasts RECLAIM_AFTER_SECONDS, push_status goes from pending
\* to processing, from there to sent or failed, or back by reclaim: nothing else.
THEOREM LifecycleWithinLease ==
  ASSUME LeaseCoversJob
  PROVE  Spec => Lifecycle
<1>1. Init => Life!LifeInit
  BY DEF Init, Life!LifeInit
<1>2. IInv /\ OwnerInv /\ [Next]_vars => [Life!LifeNext]_push_status
  BY LifeStep
<1> QED
  BY <1>1, <1>2, AlwaysIInv, AlwaysOwnerInv, PTL DEF Spec, Lifecycle, Life!LifeSpec

=============================================================================
