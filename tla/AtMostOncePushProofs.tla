-------------------------- MODULE AtMostOncePushProofs --------------------------
(***************************************************************************)
(* NotificationDelivery implements AtMostOncePush, for every set of        *)
(* notifications, devices and workers, with leases that may expire under   *)
(* live jobs, crashes and reclaims.                                        *)
(***************************************************************************)
EXTENDS NotificationDeliveryProofs

-----------------------------------------------------------------------------
(* Functions from notifications to sets of devices                          *)

DeviceSets == [Notification -> SUBSET Device]

Plus(f, n, d)  == [f EXCEPT ![n] = @ \cup {d}]
Minus(f, n, d) == [f EXCEPT ![n] = @ \ {d}]

\* They are equal when they have the same devices ...
LEMMA SameDevices ==
  ASSUME NEW f \in DeviceSets, NEW g \in DeviceSets,
         \A n \in Notification, d \in Device : d \in g[n] <=> d \in f[n]
  PROVE  g = f
<1>1. \A n \in Notification : g[n] = f[n]
  BY DEF DeviceSets
<1> QED
  BY <1>1 DEF DeviceSets

\* ... which decides what adding or removing one device leaves.
LEMMA OneMore ==
  ASSUME NEW f \in DeviceSets, NEW g \in DeviceSets,
         NEW n \in Notification, NEW d \in Device,
         \A m \in Notification, e \in Device : e \in g[m] <=> e \in f[m] \/ (m = n /\ e = d)
  PROVE  g = Plus(f, n, d)
<1> DEFINE h == Plus(f, n, d)
<1>1. h \in DeviceSets
  BY DEF DeviceSets, Plus
<1>2. \A m \in Notification, e \in Device : e \in h[m] <=> e \in g[m]
  BY DEF DeviceSets, Plus
<1> QED
  BY <1>1, <1>2, SameDevices

\* A function that differs from f only in lacking d at n is Minus(f, n, d).
LEMMA OneLess ==
  ASSUME NEW f \in DeviceSets, NEW g \in DeviceSets,
         NEW n \in Notification, NEW d \in Device,
         \A m \in Notification, e \in Device : e \in g[m] <=> e \in f[m] /\ ~(m = n /\ e = d)
  PROVE  g = Minus(f, n, d)
<1> DEFINE h == Minus(f, n, d)
<1>1. h \in DeviceSets
  BY DEF DeviceSets, Minus
<1>2. \A m \in Notification, e \in Device : e \in h[m] <=> e \in g[m]
  BY DEF DeviceSets, Minus
<1> QED
  BY <1>1, <1>2, SameDevices

-----------------------------------------------------------------------------
(* The mapping                                                              *)

\* Open and Closed device by device.
LEMMA MappedSets ==
  /\ Open \in DeviceSets
  /\ Closed \in DeviceSets
  /\ \A n \in Notification, d \in Device :
       /\ d \in Open[n] <=> \E w \in Worker : Holds(w, n, d)
       /\ d \in Closed[n] <=> \/ ledger[n][d] = "sent"
                              \/ ledger[n][d] = "sending" /\ d \notin Open[n]
BY DEF Open, Closed, DeviceSets

\* The same of the sets after a step.
LEMMA MappedSetsNext ==
  /\ Open' \in DeviceSets
  /\ Closed' \in DeviceSets
  /\ \A n \in Notification, d \in Device :
       /\ d \in Open'[n] <=> \E w \in Worker : Holds(w, n, d)'
       /\ d \in Closed'[n] <=> \/ ledger'[n][d] = "sent"
                               \/ ledger'[n][d] = "sending" /\ d \notin Open'[n]
BY DEF Open, Closed, DeviceSets

\* What all steps but six leave alone: who holds what, the rows, the outcomes.
LEMMA NothingMapped ==
  ASSUME \A w \in Worker, n \in Notification, d \in Device : Holds(w, n, d)' <=> Holds(w, n, d),
         UNCHANGED <<ledger, confirmed>>
  PROVE  UNCHANGED Push!pushVars
<1>1. Open' = Open
  BY DEF Open
<1>2. Closed' = Closed
  BY <1>1 DEF Closed
<1> QED
  BY <1>1, <1>2 DEF Push!pushVars

\* A worker lets go of its device: nobody else has it.
LEMMA LetGo ==
  ASSUME IInv,
         NEW w \in Worker, NEW n \in Notification, NEW d \in Device, Holds(w, n, d),
         task'[w].pc \notin {"send", "record"},
         \A v \in Worker \ {w} : task'[v] = task[v]
  PROVE  /\ d \in Open[n]
         /\ Open' = Minus(Open, n, d)
         /\ \A m \in Notification, e \in Device :
              e \in Open'[m] <=> e \in Open[m] /\ ~(m = n /\ e = d)
<1>1. \A v \in Worker, m \in Notification, e \in Device :
        Holds(v, m, e)' <=> v # w /\ Holds(v, m, e)
  BY DEF Holds
<1>2. \A v \in Worker \ {w} : ~Holds(v, n, d)
  BY DEF IInv, ExclusiveDevice
<1>3. \A m \in Notification, e \in Device : Holds(w, m, e) => m = n /\ e = d
  BY DEF Holds
<1>4. \A m \in Notification, e \in Device :
        e \in Open'[m] <=> e \in Open[m] /\ ~(m = n /\ e = d)
  BY <1>1, <1>2, <1>3, MappedSets, MappedSetsNext
<1>5. d \in Open[n]
  BY MappedSets
<1>6. Open' = Minus(Open, n, d)
  <2>1. Open \in DeviceSets /\ Open' \in DeviceSets
    BY MappedSets, MappedSetsNext
  <2> QED
    BY <1>4, <2>1, OneLess
<1> QED
  BY <1>4, <1>5, <1>6

\* try_claim begins an attempt: the device had no row, so no attempt is under
\* way and none was confirmed or lost.
LEMMA ClaimBegins ==
  ASSUME IInv, NEW w \in Worker, NEW d \in Device, ClaimDevice(w, d)
  PROVE  Push!Begin(task[w].job, d)
<1> DEFINE n == task[w].job
<1>1. /\ n \in Notification
      /\ task \in [Worker -> TaskInProgress]
      /\ ledger \in [Notification -> [Device -> RowStatus]]
  BY DEF IInv, TypeOK, TaskInProgress, ClaimDevice
<1>2. /\ ledger[n][d] = "none"
      /\ ledger' = [ledger EXCEPT ![n][d] = "sending"]
      /\ task[w].pc = "device"
      /\ UNCHANGED confirmed
  BY DEF ClaimDevice, history
<1>3. /\ \A v \in Worker \ {w} : task'[v] = task[v]
      /\ task'[w].pc = "send"
      /\ task'[w].job = n
      /\ task'[w].target = d
  BY <1>1 DEF ClaimDevice, Become, TaskInProgress, Task
<1>4. \A v \in Worker, m \in Notification, e \in Device :
        Holds(v, m, e)' <=> (IF v = w THEN m = n /\ e = d ELSE Holds(v, m, e))
  BY <1>3 DEF Holds
<1>5. \A m \in Notification, e \in Device : ~Holds(w, m, e)
  BY <1>2 DEF Holds
<1>6. \A v \in Worker : ~Holds(v, n, d)
  BY <1>1, <1>2 DEF IInv, RowsGuardDevices
<1>7. \A m \in Notification, e \in Device :
        e \in Open'[m] <=> e \in Open[m] \/ (m = n /\ e = d)
  BY <1>4, <1>5, MappedSets, MappedSetsNext
<1>8. Open' = Plus(Open, n, d)
  <2>1. Open \in DeviceSets /\ Open' \in DeviceSets
    BY MappedSets, MappedSetsNext
  <2> QED
    BY <1>1, <1>7, <2>1, OneMore
<1>9. \A m \in Notification, e \in Device :
        ledger'[m][e] = IF m = n /\ e = d THEN "sending" ELSE ledger[m][e]
  BY <1>1, <1>2
<1>10. \A m \in Notification, e \in Device : e \in Closed'[m] <=> e \in Closed[m]
  BY <1>2, <1>7, <1>9, MappedSets, MappedSetsNext
<1>11. Closed' = Closed
  BY <1>10, SameDevices, MappedSets, MappedSetsNext
<1>12. d \notin Open[n] \cup Closed[n]
  BY <1>1, <1>2, <1>6, MappedSets
<1> QED
  BY <1>2, <1>8, <1>11, <1>12 DEF Push!Begin, Plus

\* Expo's success confirms the attempt, once; any other answer is not seen.
LEMMA SendConfirms ==
  ASSUME IInv, NEW w \in Worker, NEW a \in Answers, Send(w, a)
  PROVE  Push!Confirm(task[w].job, task[w].target) \/ UNCHANGED Push!pushVars
<1> DEFINE n == task[w].job
           d == task[w].target
<1>1. /\ n \in Notification
      /\ d \in Device
      /\ task \in [Worker -> TaskInProgress]
      /\ confirmed \in [Notification -> SUBSET Device]
      /\ task[w].pc = "send"
  BY DEF IInv, TypeOK, TaskInProgress, Send
<1>2. /\ \A v \in Worker \ {w} : task'[v] = task[v]
      /\ task'[w].pc = "record"
      /\ task'[w].job = n
      /\ task'[w].target = d
  BY <1>1 DEF Send, Become, TaskInProgress, Task
<1>3. \A v \in Worker, m \in Notification, e \in Device : Holds(v, m, e)' <=> Holds(v, m, e)
  BY <1>1, <1>2 DEF Holds
<1>4. UNCHANGED ledger
  BY DEF Send, database
<1>5. Open' = Open
  BY <1>3 DEF Open
<1>6. Closed' = Closed
  BY <1>4, <1>5 DEF Closed
<1>7. d \in Open[n] /\ d \notin confirmed[n]
  BY <1>1, MappedSets, InvNoResend DEF Holds, NoResend
<1>8. CASE a.reply = "ok"
  <2>1. confirmed' = [confirmed EXCEPT ![n] = @ \cup {d}]
    BY <1>1, <1>8 DEF Send
  <2> QED
    BY <1>5, <1>6, <1>7, <2>1 DEF Push!Confirm
<1>9. CASE a.reply # "ok"
  <2>1. confirmed' = confirmed
    BY <1>1, <1>9 DEF Send
  <2> QED
    BY <1>5, <1>6, <2>1 DEF Push!pushVars
<1> QED
  BY <1>8, <1>9

\* mark_sent concludes the attempt.
LEMMA MarkSentConcludes ==
  ASSUME IInv, NEW w \in Worker, MarkSent(w)
  PROVE  Push!Conclude(task[w].job, task[w].target)
<1> DEFINE n == task[w].job
           d == task[w].target
<1>1. /\ n \in Notification
      /\ d \in Device
      /\ task \in [Worker -> TaskInProgress]
      /\ ledger \in [Notification -> [Device -> RowStatus]]
      /\ task[w].pc = "record"
  BY DEF IInv, TypeOK, TaskInProgress, MarkSent
<1>2. /\ ledger' = [ledger EXCEPT ![n][d] = SentRow(@)]
      /\ UNCHANGED confirmed
  BY DEF MarkSent, history
<1>3. /\ task'[w].pc \in {"device", "deactivate", "seal"}
      /\ \A v \in Worker \ {w} : task'[v] = task[v]
  BY <1>1, AfterTargetPoint DEF MarkSent, Become, TaskInProgress, Task
<1>4. Holds(w, n, d) /\ ledger[n][d] # "none"
  BY <1>1 DEF Holds, IInv, RowsGuardDevices
<1>5. /\ d \in Open[n]
      /\ Open' = Minus(Open, n, d)
      /\ \A m \in Notification, e \in Device :
           e \in Open'[m] <=> e \in Open[m] /\ ~(m = n /\ e = d)
  BY <1>1, <1>3, <1>4, LetGo
<1>6. \A m \in Notification, e \in Device :
        ledger'[m][e] = IF m = n /\ e = d THEN "sent" ELSE ledger[m][e]
  BY <1>1, <1>2, <1>4 DEF SentRow
<1>7. \A m \in Notification, e \in Device :
        e \in Closed'[m] <=> e \in Closed[m] \/ (m = n /\ e = d)
  BY <1>5, <1>6, MappedSets, MappedSetsNext
<1>8. Closed' = Plus(Closed, n, d)
  <2>1. Closed \in DeviceSets /\ Closed' \in DeviceSets
    BY MappedSets, MappedSetsNext
  <2> QED
    BY <1>1, <1>7, <2>1, OneMore
<1> QED
  BY <1>2, <1>5, <1>8 DEF Push!Conclude, Plus, Minus

\* release_claim lets the attempt fail: it was not confirmed, and a row that
\* was sealed meanwhile stays closed.
LEMMA ReleaseFails ==
  ASSUME IInv, NEW w \in Worker, ReleaseClaim(w)
  PROVE  Push!Fail(task[w].job, task[w].target)
<1> DEFINE n == task[w].job
           d == task[w].target
<1>1. /\ n \in Notification
      /\ d \in Device
      /\ task \in [Worker -> TaskInProgress]
      /\ ledger \in [Notification -> [Device -> RowStatus]]
      /\ task[w].pc = "record"
      /\ task[w].reply # "ok"
  BY DEF IInv, TypeOK, TaskInProgress, ReleaseClaim
<1>2. /\ ledger' = [ledger EXCEPT ![n][d] = ReleasedRow(@)]
      /\ UNCHANGED confirmed
  BY DEF ReleaseClaim, history
<1>3. /\ task'[w].pc \in {"device", "deactivate", "seal"}
      /\ \A v \in Worker \ {w} : task'[v] = task[v]
  <2> DEFINE invalid == IF task[w].reply = "unregistered"
                        THEN task[w].invalid \cup {task[w].target}
                        ELSE task[w].invalid
  <2>1. AfterTarget(task[w].todo, invalid) \in {"device", "deactivate", "seal"}
    BY AfterTargetPoint
  <2>2. /\ task'[w].pc = AfterTarget(task[w].todo, invalid)
        /\ \A v \in Worker \ {w} : task'[v] = task[v]
    BY <1>1 DEF ReleaseClaim, Become, TaskInProgress, Task
  <2> QED
    BY <2>1, <2>2
<1>4. Holds(w, n, d) /\ d \notin confirmed[n] /\ ledger[n][d] # "none"
  BY <1>1 DEF Holds, IInv, RowsGuardDevices
<1>5. /\ d \in Open[n]
      /\ Open' = Minus(Open, n, d)
      /\ \A m \in Notification, e \in Device :
           e \in Open'[m] <=> e \in Open[m] /\ ~(m = n /\ e = d)
  BY <1>1, <1>3, <1>4, LetGo
<1>6. \A m \in Notification, e \in Device :
        ledger'[m][e] = IF m = n /\ e = d THEN ReleasedRow(ledger[n][d]) ELSE ledger[m][e]
  BY <1>1, <1>2
<1>7. \A m \in Notification, e \in Device : e \in Closed'[m] <=> e \in Closed[m]
  BY <1>1, <1>5, <1>6, MappedSets, MappedSetsNext DEF ReleasedRow, RowStatus
<1>8. Closed' = Closed
  BY <1>7, SameDevices, MappedSets, MappedSetsNext
<1> QED
  BY <1>1, <1>2, <1>4, <1>5, <1>8, MappedSets DEF Push!Fail, Minus

\* A worker that dies with a device in hand concludes its attempt: the row stays,
\* and closes the device.  Any other death is not seen.
LEMMA FaultConcludes ==
  ASSUME IInv, NEW w \in Worker, Fault(w)
  PROVE  Push!Conclude(task[w].job, task[w].target) \/ UNCHANGED Push!pushVars
<1> DEFINE n == task[w].job
           d == task[w].target
<1>1. /\ task \in [Worker -> TaskInProgress]
      /\ ledger \in [Notification -> [Device -> RowStatus]]
      /\ UNCHANGED <<ledger, confirmed>>
      /\ task'[w].pc = "idle"
      /\ \A v \in Worker \ {w} : task'[v] = task[v]
  BY DEF IInv, TypeOK, Fault, Become, NoTask, database
<1>2. CASE task[w].pc \in {"send", "record"}
  <2>1. n \in Notification /\ d \in Device /\ Holds(w, n, d)
    BY <1>1, <1>2 DEF TaskInProgress, Holds
  <2>2. ledger[n][d] \in {"sending", "sent"}
    BY <1>1, <2>1 DEF IInv, RowsGuardDevices, RowStatus
  <2>3. /\ d \in Open[n]
        /\ Open' = Minus(Open, n, d)
        /\ \A m \in Notification, e \in Device :
             e \in Open'[m] <=> e \in Open[m] /\ ~(m = n /\ e = d)
    BY <1>1, <2>1, LetGo
  <2>4. \A m \in Notification, e \in Device :
          e \in Closed'[m] <=> e \in Closed[m] \/ (m = n /\ e = d)
    BY <1>1, <2>2, <2>3, MappedSets, MappedSetsNext
  <2>5. Closed' = Plus(Closed, n, d)
    <3>1. Closed \in DeviceSets /\ Closed' \in DeviceSets
      BY MappedSets, MappedSetsNext
    <3> QED
      BY <2>1, <2>4, <3>1, OneMore
  <2> QED
    BY <1>1, <2>3, <2>5 DEF Push!Conclude, Plus, Minus
<1>3. CASE task[w].pc \notin {"send", "record"}
  <2>1. \A v \in Worker, m \in Notification, e \in Device : Holds(v, m, e)' <=> Holds(v, m, e)
    BY <1>1, <1>3 DEF Holds
  <2> QED
    BY <1>1, <2>1, NothingMapped
<1> QED
  BY <1>2, <1>3

\* Sealing, by the job or by reclaim, closes devices with an attempt under way
\* and changes nothing for those without: they were closed when it ended.
LEMMA SealCloses ==
  ASSUME IInv, NEW rows, ledger' = Sealed(rows), UNCHANGED confirmed,
         \A w \in Worker, n \in Notification, d \in Device : Holds(w, n, d)' <=> Holds(w, n, d)
  PROVE  Push!Close
<1> DEFINE S == [n \in Notification |->
                   {d \in Open[n] : n \in rows /\ ledger[n][d] = "sending"}]
<1>1. ledger \in [Notification -> [Device -> RowStatus]]
  BY DEF IInv, TypeOK
<1>2. Open' = Open
  BY DEF Open
<1>3. S \in [Notification -> SUBSET Device] /\ \A n \in Notification : S[n] \subseteq Open[n]
  BY MappedSets DEF DeviceSets
<1>4. \A n \in Notification, d \in Device :
        ledger'[n][d] = IF n \in rows /\ ledger[n][d] = "sending" THEN "sent" ELSE ledger[n][d]
  BY DEF Sealed
<1>5. \A n \in Notification, d \in Device :
        d \in Closed'[n] <=> d \in Closed[n] \cup S[n]
  BY <1>2, <1>4, MappedSets, MappedSetsNext
<1>6. Closed' = [n \in Notification |-> Closed[n] \cup S[n]]
  <2> DEFINE h == [n \in Notification |-> Closed[n] \cup S[n]]
  <2>1. h \in DeviceSets
    BY <1>3, MappedSets DEF DeviceSets
  <2>2. \A n \in Notification, d \in Device : d \in Closed'[n] <=> d \in h[n]
    BY <1>5
  <2> HIDE DEF h
  <2>3. Closed' = h
    BY <2>1, <2>2, SameDevices, MappedSetsNext
  <2> QED
    BY <2>3 DEF h
<1> QED
  BY <1>2, <1>3, <1>6 DEF Push!Close

\* A step that moves workers between points at which they hold nothing.
LEMMA NotHolding ==
  ASSUME \A w \in Worker : \/ task'[w] = task[w]
                           \/ /\ task[w].pc \notin {"send", "record"}
                              /\ task'[w].pc \notin {"send", "record"}
  PROVE  \A w \in Worker, n \in Notification, d \in Device : Holds(w, n, d)' <=> Holds(w, n, d)
BY DEF Holds

\* Every step of a job is a step of AtMostOncePush, or none.
LEMMA JobStepMapped ==
  ASSUME IInv, NEW w \in Worker, JobStep(w)
  PROVE  [Push!PushNext]_Push!pushVars
<1> DEFINE t == task[w]
<1>1. /\ t \in TaskInProgress
      /\ task \in [Worker -> TaskInProgress]
  BY DEF IInv, TypeOK
<1>2. ASSUME NEW u, Become(w, u), t.pc \notin {"send", "record"}, u.pc \notin {"send", "record"}
      PROVE  \A v \in Worker, n \in Notification, d \in Device : Holds(v, n, d)' <=> Holds(v, n, d)
  <2>1. \A v \in Worker : task'[v] = IF v = w THEN u ELSE task[v]
    BY <1>1, <1>2 DEF Become
  <2> QED
    BY <1>2, <2>1, NotHolding
<1>3. CASE Resolve(w)
  <2> DEFINE targets == Targets(t.job)
             u == IF targets = {}
                  THEN [t EXCEPT !.pc = "finalize", !.verdict = "sent"]
                  ELSE [t EXCEPT !.pc = "device", !.todo = targets]
  <2>1. t.pc = "resolve" /\ Become(w, u) /\ UNCHANGED <<ledger, confirmed>>
    BY <1>3 DEF Resolve, database, history
  <2>2. u.pc \in {"finalize", "device"}
    BY <1>1 DEF TaskInProgress, Task
  <2> QED
    BY <1>2, <2>1, <2>2, NothingMapped
<1>4. ASSUME NEW d \in Device, ClaimDevice(w, d) PROVE Push!PushNext
  BY <1>1, <1>4, ClaimBegins DEF Push!PushNext, ClaimDevice, TaskInProgress
<1>5. ASSUME NEW d \in Device, SkipDevice(w, d) PROVE UNCHANGED Push!pushVars
  <2> DEFINE rest == t.todo \ {d}
             u == [t EXCEPT !.pc = AfterTarget(rest, t.invalid), !.todo = rest]
  <2>1. t.pc = "device" /\ Become(w, u) /\ UNCHANGED <<ledger, confirmed>>
    BY <1>5 DEF SkipDevice, database, history
  <2>2. u.pc \in {"device", "deactivate", "seal"}
    BY <1>1, AfterTargetPoint DEF TaskInProgress, Task
  <2> QED
    BY <1>2, <2>1, <2>2, NothingMapped
<1>6. ASSUME NEW a \in Answers, Send(w, a) PROVE [Push!PushNext]_Push!pushVars
  BY <1>1, <1>6, SendConfirms DEF Push!PushNext, Send, TaskInProgress
<1>7. CASE MarkSent(w)
  BY <1>1, <1>7, MarkSentConcludes DEF Push!PushNext, MarkSent, TaskInProgress
<1>8. CASE ReleaseClaim(w)
  BY <1>1, <1>8, ReleaseFails DEF Push!PushNext, ReleaseClaim, TaskInProgress
<1>9. CASE DeactivateTokens(w)
  <2>1. /\ t.pc = "deactivate" /\ Become(w, [t EXCEPT !.pc = "seal"])
        /\ UNCHANGED <<ledger, confirmed>>
    BY <1>9 DEF DeactivateTokens, history
  <2>2. [t EXCEPT !.pc = "seal"].pc = "seal"
    BY <1>1 DEF TaskInProgress, Task
  <2> QED
    BY <1>2, <2>1, <2>2, NothingMapped
<1>10. CASE SealOpenSending(w)
  <2>1. /\ t.pc = "seal" /\ Become(w, [t EXCEPT !.pc = "decide"])
        /\ ledger' = Sealed({t.job})
        /\ UNCHANGED confirmed
    BY <1>10 DEF SealOpenSending, history
  <2>2. [t EXCEPT !.pc = "decide"].pc = "decide"
    BY <1>1 DEF TaskInProgress, Task
  <2>3. Push!Close
    BY <1>2, <2>1, <2>2, SealCloses
  <2> QED
    BY <2>3 DEF Push!PushNext
<1>11. CASE Decide(w)
  <2> DEFINE u == [t EXCEPT !.pc = "finalize",
                     !.verdict = IF t.anySent \/ HasAnySent(t.job) THEN "sent" ELSE "failed"]
  <2>1. t.pc = "decide" /\ Become(w, u) /\ UNCHANGED <<ledger, confirmed>>
    BY <1>11 DEF Decide, database, history
  <2>2. u.pc = "finalize"
    BY <1>1 DEF TaskInProgress, Task
  <2> QED
    BY <1>2, <2>1, <2>2, NothingMapped
<1>12. CASE Finalize(w)
  <2>1. t.pc = "finalize" /\ Become(w, NoTask) /\ UNCHANGED <<ledger, confirmed>>
    BY <1>12 DEF Finalize, history
  <2>2. NoTask.pc = "idle"
    BY DEF NoTask
  <2> QED
    BY <1>2, <2>1, <2>2, NothingMapped
<1> QED
  BY <1>3, <1>4, <1>5, <1>6, <1>7, <1>8, <1>9, <1>10, <1>11, <1>12 DEF JobStep

\* So is every other step.
LEMMA StepMapped ==
  ASSUME IInv, [Next]_vars
  PROVE  [Push!PushNext]_Push!pushVars
<1>1. ASSUME NEW ws \in SUBSET Idle, NEW owner \in [ws -> Pending], Take(owner)
      PROVE  UNCHANGED Push!pushVars
  <2>1. UNCHANGED <<ledger, confirmed>>
    BY <1>1 DEF Take, history
  <2>2. \A w \in Worker : \/ task'[w] = task[w]
                          \/ task[w].pc = "idle" /\ task'[w].pc = "resolve"
    BY <1>1 DEF Take, NoTask, Idle
  <2>3. \A w \in Worker, n \in Notification, d \in Device : Holds(w, n, d)' <=> Holds(w, n, d)
    BY <2>2, NotHolding
  <2> QED
    BY <2>1, <2>3, NothingMapped
<1>2. ASSUME NEW w \in Worker, NEW n \in Notification, ClaimById(w, n)
      PROVE  UNCHANGED Push!pushVars
  <2>1. /\ {w} \in SUBSET Idle
        /\ [v \in {w} |-> n] \in [{w} -> Pending]
        /\ Take([v \in {w} |-> n])
    BY <1>2 DEF ClaimById
  <2> QED
    BY <2>1, <1>1
<1>3. ASSUME NEW ws \in SUBSET Idle, NEW owner \in [ws -> Pending], ClaimBatch(owner)
      PROVE  UNCHANGED Push!pushVars
  BY <1>3, <1>1 DEF ClaimBatch
<1>4. ASSUME NEW w \in Worker, JobStep(w) PROVE [Push!PushNext]_Push!pushVars
  BY <1>4, JobStepMapped
<1>5. CASE ReclaimStale
  <2>1. /\ ledger' = Sealed({n \in Notification : push_status[n] = "processing" /\ stale[n]})
        /\ UNCHANGED <<task, confirmed>>
    BY <1>5 DEF ReclaimStale, history
  <2>2. Push!Close
    BY <2>1, SealCloses DEF Holds
  <2> QED
    BY <2>2 DEF Push!PushNext
<1>6. ASSUME NEW w \in Worker, Fault(w) PROVE [Push!PushNext]_Push!pushVars
  <2>1. CASE task[w].pc \in {"send", "record"}
    BY <1>6, <2>1, FaultConcludes DEF Push!PushNext, IInv, TypeOK, TaskInProgress
  <2>2. CASE task[w].pc \notin {"send", "record"}
    <3>1. \A v \in Worker : IF v = w THEN task'[v].pc = "idle" ELSE task'[v] = task[v]
      <4>1. task' = [task EXCEPT ![w] = NoTask] /\ task \in [Worker -> TaskInProgress]
        BY <1>6 DEF Fault, Become, IInv, TypeOK
      <4>2. \A v \in Worker : task'[v] = IF v = w THEN NoTask ELSE task[v]
        BY <4>1
      <4>3. NoTask.pc = "idle"
        BY DEF NoTask
      <4> QED
        BY <4>2, <4>3
    <3>2. \A v \in Worker, n \in Notification, d \in Device : Holds(v, n, d)' <=> Holds(v, n, d)
      BY <2>2, <3>1, NotHolding
    <3> QED
      BY <1>6, <3>2, NothingMapped DEF Fault, database
  <2> QED
    BY <2>1, <2>2
<1>7. CASE UNCHANGED <<task, ledger, confirmed>>
  <2>1. \A w \in Worker, n \in Notification, d \in Device : Holds(w, n, d)' <=> Holds(w, n, d)
    BY <1>7 DEF Holds
  <2> QED
    BY <1>7, <2>1, NothingMapped
<1>8. ASSUME NEW n \in Notification, LeaseExpires(n) PROVE UNCHANGED <<task, ledger, confirmed>>
  BY <1>8 DEF LeaseExpires, history
<1>9. UNCHANGED vars => UNCHANGED <<task, ledger, confirmed>>
  BY DEF vars
<1> QED
  BY <1>2, <1>3, <1>4, <1>5, <1>6, <1>7, <1>8, <1>9 DEF Next

\* At the start no attempt is under way, none was confirmed and none is closed.
LEMMA InitMapped == Init => Push!PushInit
<1> SUFFICES ASSUME Init PROVE Push!PushInit
  OBVIOUS
<1>1. \A w \in Worker, n \in Notification, d \in Device : ~Holds(w, n, d)
  BY DEF Init, Holds, NoTask
<1>2. \A n \in Notification, d \in Device : d \notin Open[n] /\ d \notin Closed[n]
  BY <1>1, MappedSets DEF Init
<1>3. Open = [n \in Notification |-> {}] /\ Closed = [n \in Notification |-> {}]
  <2> DEFINE none == [n \in Notification |-> {}]
  <2>1. none \in DeviceSets /\ \A n \in Notification, d \in Device : d \notin none[n]
    BY DEF DeviceSets
  <2> QED
    BY <1>2, <2>1, SameDevices, MappedSets
<1> QED
  BY <1>3 DEF Init, Push!PushInit

\* The delivery ledger keeps its promise whatever overlaps, crashes or is
\* reclaimed: one attempt per device at a time, none after one that was confirmed
\* or died undecided, a repetition only after a certain failure.
THEOREM LedgerImplementsAtMostOnce == Spec => AtMostOnce
<1>1. IInv /\ [Next]_vars => [Push!PushNext]_Push!pushVars
  BY StepMapped
<1> QED
  BY <1>1, InitMapped, AlwaysIInv, PTL DEF Spec, AtMostOnce, Push!PushSpec

=============================================================================
