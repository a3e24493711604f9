------------------------- MODULE NotificationDelivery -------------------------
(***************************************************************************)
(* The delivery pipeline: DeliveryRunner and the services it calls on the  *)
(* shared Postgres tables.  Every transaction the code commits is one      *)
(* action; the Expo HTTP call, made outside any transaction, is another.   *)
(* Workers are threads executing one claimed job each, of one or of        *)
(* several service instances: all they share is the database and Expo.     *)
(***************************************************************************)
EXTENDS Integers, FiniteSets, Functions, ExpoSender

CONSTANTS
  Notification,     \* rows of public.notifications
  Device,           \* rows of public.device_tokens
  Worker,           \* slots for claimed jobs, over every service instance
  Recipients,       \* Recipients[n]: devices the recipient query finds for n
  Rank,             \* Rank[d]: position of d in the query's ORDER BY
  BatchSize,        \* config.BATCH_SIZE
  LeaseCoversJob,   \* TRUE: no live job outlasts RECLAIM_AFTER_SECONDS
  Healthy,          \* workers whose calls of Expo and Postgres all return
  NoJob, NoDevice

ASSUME ConstantsAssumption ==
  /\ Recipients \in [Notification -> SUBSET Device]
  /\ Rank \in [Device -> Nat]
  /\ BatchSize \in Nat \ {0}
  /\ LeaseCoversJob \in BOOLEAN
  /\ Healthy \subseteq Worker
  /\ NoJob \notin Notification
  /\ NoDevice \notin Device

VARIABLES
  push_status,  \* notifications.push_status
  stale,        \* updated_at is older than RECLAIM_AFTER_SECONDS
  ledger,       \* notification_push_deliveries.status, "none" without a row
  active,       \* device_tokens.is_active
  task,         \* the local state of each worker's _execute_job
  \* What happened so far, kept only to state properties:
  attempted,    \* devices the sender was called for, per notification
  confirmed,    \* devices for which a worker saw Expo's success
  misreported,  \* devices whose push Expo accepted while the sender saw an error
  duplicated,   \* devices whose push Expo accepted more than once
  orphaned      \* devices whose worker died between claim and record

database == <<push_status, stale, ledger, active>>
history  == <<attempted, confirmed, misreported, duplicated, orphaned>>
vars     == <<push_status, stale, ledger, active, task,
              attempted, confirmed, misreported, duplicated, orphaned>>

-----------------------------------------------------------------------------
PushStatus == {"pending", "processing", "sent", "failed"}
Terminal   == {"sent", "failed"}
RowStatus  == {"none", "sending", "sent"}

\* The points of _execute_job between two transactions.
Point == {"idle", "resolve", "device", "send", "record",
          "deactivate", "seal", "decide", "finalize"}

Task == [pc      : Point,
         job     : Notification \cup {NoJob},
         todo    : SUBSET Device,              \* targets not yet tried
         target  : Device \cup {NoDevice},     \* the target being tried
         reply   : Reply \cup {"none"},
         anySent : BOOLEAN,                    \* some outcome is "sent"
         invalid : SUBSET Device,              \* invalid_token_ids
         verdict : Terminal \cup {"none"}]

\* The fields a task has set at each point.
TaskInProgress ==
  {t \in Task : /\ t.pc # "idle" => t.job \in Notification
                /\ t.pc \in {"send", "record"} => t.target \in Device
                /\ t.pc = "finalize" => t.verdict \in Terminal}

NoTask == [pc |-> "idle", job |-> NoJob, todo |-> {}, target |-> NoDevice,
           reply |-> "none", anySent |-> FALSE, invalid |-> {},
           verdict |-> "none"]

TypeOK ==
  /\ push_status \in [Notification -> PushStatus]
  /\ stale \in [Notification -> BOOLEAN]
  /\ ledger \in [Notification -> [Device -> RowStatus]]
  /\ active \in [Device -> BOOLEAN]
  /\ task \in [Worker -> TaskInProgress]
  /\ attempted \in [Notification -> SUBSET Device]
  /\ confirmed \in [Notification -> SUBSET Device]
  /\ misreported \in [Notification -> SUBSET Device]
  /\ duplicated \in [Notification -> SUBSET Device]
  /\ orphaned \in [Notification -> SUBSET Device]

Init ==
  /\ push_status = [n \in Notification |-> "pending"]
  /\ stale = [n \in Notification |-> FALSE]
  /\ ledger = [n \in Notification |-> [d \in Device |-> "none"]]
  /\ active = [d \in Device |-> TRUE]
  /\ task = [w \in Worker |-> NoTask]
  /\ attempted = [n \in Notification |-> {}]
  /\ confirmed = [n \in Notification |-> {}]
  /\ misreported = [n \in Notification |-> {}]
  /\ duplicated = [n \in Notification |-> {}]
  /\ orphaned = [n \in Notification |-> {}]

-----------------------------------------------------------------------------
(* The claim: pending -> processing, one short transaction.                 *)

Idle == {w \in Worker : task[w].pc = "idle"}

Pending == {n \in Notification : push_status[n] = "pending"}

\* The rows in the range of owner become processing, each owned by one worker.
Take(owner) ==
  /\ push_status' = [n \in Notification |->
                       IF n \in Range(owner) THEN "processing" ELSE push_status[n]]
  /\ stale' = [n \in Notification |-> n \notin Range(owner) /\ stale[n]]
  /\ task' = [w \in Worker |->
                IF w \in DOMAIN owner
                THEN [NoTask EXCEPT !.pc = "resolve", !.job = owner[w]]
                ELSE task[w]]
  /\ UNCHANGED <<ledger, active, history>>

\* Defect: the claim does not require the row to be pending.
ClaimAnyStatus(w, n) ==
  /\ w \in Idle
  /\ n \in Notification
  /\ Take([v \in {w} |-> n])

\* claim_by_id, won.  A miss changes no table.
ClaimById(w, n) ==
  /\ w \in Idle
  /\ n \in Pending
  /\ Take([v \in {w} |-> n])

\* claim_pending_batch: at most BatchSize pending rows.  SKIP LOCKED may pass
\* over any row another transaction holds at that moment, an older one too, so
\* ORDER BY created_at bounds nothing here.  Only one worker gets each row.
ClaimBatch(owner) ==
  /\ DOMAIN owner # {}
  /\ Cardinality(DOMAIN owner) <= BatchSize
  /\ IsInjective(owner)
  /\ Take(owner)

-----------------------------------------------------------------------------
(* _execute_job                                                             *)

Become(w, t) == task' = [task EXCEPT ![w] = t]

\* Defect: the loop stops at the first unregistered token.
StopAtInvalid(todo, invalid) ==
  IF invalid # {} THEN "deactivate" ELSE IF todo # {} THEN "device" ELSE "seal"

\* Defect: the loop ends without a decision.
SkipDecision(todo, invalid) == IF todo # {} THEN "device" ELSE "finalize"

\* Where the loop over targets continues, and where it ends.
AfterTarget(todo, invalid) ==
  CASE todo # {}                  -> "device"
    [] todo = {} /\ invalid # {}  -> "deactivate"
    [] todo = {} /\ invalid = {}  -> "seal"

\* RecipientResolver.resolve.  Users, tenants, roles and preferences do not
\* change while the worker runs: only is_active does.
Targets(n) == {d \in Recipients[n] : active[d]}

\* Without targets the job is finalized as sent.
Resolve(w) ==
  LET t == task[w]
      targets == Targets(t.job)
  IN /\ t.pc = "resolve"
     /\ Become(w, IF targets = {}
                  THEN [t EXCEPT !.pc = "finalize", !.verdict = "sent"]
                  ELSE [t EXCEPT !.pc = "device", !.todo = targets])
     /\ UNCHANGED <<database, history>>

\* d is next in the order of the targets.
IsNext(w, d) == d \in task[w].todo /\ \A e \in task[w].todo : Rank[d] <= Rank[e]

\* Defect: no unique constraint on (notification_id, device_token_id).
ClaimWithoutConflict(w, d) ==
  LET t == task[w]
  IN /\ t.pc = "device"
     /\ IsNext(w, d)
     /\ ledger' = [ledger EXCEPT ![t.job][d] = "sending"]
     /\ Become(w, [t EXCEPT !.pc = "send", !.todo = @ \ {d}, !.target = d])
     /\ UNCHANGED <<push_status, stale, active, history>>

\* try_claim: INSERT ... ON CONFLICT DO NOTHING returned a row.
ClaimDevice(w, d) ==
  LET t == task[w]
  IN /\ t.pc = "device"
     /\ IsNext(w, d)
     /\ ledger[t.job][d] = "none"
     /\ ledger' = [ledger EXCEPT ![t.job][d] = "sending"]
     /\ Become(w, [t EXCEPT !.pc = "send", !.todo = @ \ {d}, !.target = d])
     /\ UNCHANGED <<push_status, stale, active, history>>

\* try_claim met an existing row: the device is skipped.
SkipDevice(w, d) ==
  LET t == task[w]
      rest == t.todo \ {d}
  IN /\ t.pc = "device"
     /\ IsNext(w, d)
     /\ ledger[t.job][d] # "none"
     /\ Become(w, [t EXCEPT !.pc = AfterTarget(rest, t.invalid), !.todo = rest])
     /\ UNCHANGED <<database, history>>

\* ExpoSender.send, in no transaction.
Send(w, answer) ==
  LET t == task[w]
      n == t.job
      d == t.target
  IN /\ t.pc = "send"
     /\ Become(w, [t EXCEPT !.pc = "record", !.reply = answer.reply])
     /\ attempted' = [attempted EXCEPT ![n] = @ \cup {d}]
     /\ confirmed' = [confirmed EXCEPT ![n] =
                        IF answer.reply = "ok" THEN @ \cup {d} ELSE @]
     /\ misreported' = [misreported EXCEPT ![n] =
                          IF answer.landed /\ answer.reply # "ok" THEN @ \cup {d} ELSE @]
     /\ duplicated' = [duplicated EXCEPT ![n] =
                         IF answer.landed /\ d \in confirmed[n] \cup misreported[n]
                         THEN @ \cup {d} ELSE @]
     /\ UNCHANGED <<database, orphaned>>

\* mark_sent: the UPDATE touches an existing row, whatever its status.
SentRow(row) == IF row = "none" THEN "none" ELSE "sent"

MarkSent(w) ==
  LET t == task[w]
  IN /\ t.pc = "record"
     /\ t.reply = "ok"
     /\ ledger' = [ledger EXCEPT ![t.job][t.target] = SentRow(@)]
     /\ Become(w, [t EXCEPT !.pc = AfterTarget(t.todo, t.invalid),
                            !.target = NoDevice, !.reply = "none", !.anySent = TRUE])
     /\ UNCHANGED <<push_status, stale, active, history>>

\* Defect: the DELETE has no condition on the row's status.
ReleasedAnyRow(row) == "none"

\* release_claim: the DELETE touches only a row still "sending".
ReleasedRow(row) == IF row = "sending" THEN "none" ELSE row

ReleaseClaim(w) ==
  LET t == task[w]
      invalid == IF t.reply = "unregistered" THEN t.invalid \cup {t.target} ELSE t.invalid
  IN /\ t.pc = "record"
     /\ t.reply # "ok"
     /\ ledger' = [ledger EXCEPT ![t.job][t.target] = ReleasedRow(@)]
     /\ Become(w, [t EXCEPT !.pc = AfterTarget(t.todo, invalid),
                            !.target = NoDevice, !.reply = "none", !.invalid = invalid])
     /\ UNCHANGED <<push_status, stale, active, history>>

DeactivateTokens(w) ==
  LET t == task[w]
  IN /\ t.pc = "deactivate"
     /\ active' = [d \in Device |-> d \notin t.invalid /\ active[d]]
     /\ Become(w, [t EXCEPT !.pc = "seal"])
     /\ UNCHANGED <<push_status, stale, ledger, history>>

\* Defect: open rows are deleted, as before reclaim sealed them.
SealDeletes(rows) ==
  [n \in Notification |-> [d \in Device |->
     IF n \in rows /\ ledger[n][d] = "sending" THEN "none" ELSE ledger[n][d]]]

\* Defect: open rows are left as they are.
SealNothing(rows) == ledger

\* The open rows of the notifications in rows become "sent".
Sealed(rows) ==
  [n \in Notification |-> [d \in Device |->
     IF n \in rows /\ ledger[n][d] = "sending" THEN "sent" ELSE ledger[n][d]]]

SealOpenSending(w) ==
  LET t == task[w]
  IN /\ t.pc = "seal"
     /\ ledger' = Sealed({t.job})
     /\ Become(w, [t EXCEPT !.pc = "decide"])
     /\ UNCHANGED <<push_status, stale, active, history>>

HasAnySent(n) == \E d \in Device : ledger[n][d] = "sent"

\* Defect: only this job's own outcomes decide.
DecideAlone(w) ==
  LET t == task[w]
  IN /\ t.pc = "decide"
     /\ Become(w, [t EXCEPT !.pc = "finalize",
                     !.verdict = IF t.anySent THEN "sent" ELSE "failed"])
     /\ UNCHANGED <<database, history>>

\* any_sent: an outcome of this job, else the ledger as it is now.
Decide(w) ==
  LET t == task[w]
  IN /\ t.pc = "decide"
     /\ Become(w, [t EXCEPT !.pc = "finalize",
                     !.verdict = IF t.anySent \/ HasAnySent(t.job) THEN "sent" ELSE "failed"])
     /\ UNCHANGED <<database, history>>

\* finalize: the UPDATE has no condition on the status it overwrites.
Finalize(w) ==
  LET t == task[w]
  IN /\ t.pc = "finalize"
     /\ push_status' = [push_status EXCEPT ![t.job] = t.verdict]
     /\ stale' = [stale EXCEPT ![t.job] = FALSE]
     /\ Become(w, NoTask)
     /\ UNCHANGED <<ledger, active, history>>

-----------------------------------------------------------------------------
(* Reclaim, time and failures                                               *)

\* Defect: a row with an open delivery is left to its worker.
ReclaimWithoutOpenRows ==
  LET expired == {n \in Notification :
                    /\ push_status[n] = "processing" /\ stale[n]
                    /\ \A d \in Device : ledger[n][d] # "sending"}
  IN /\ expired # {}
     /\ push_status' = [n \in Notification |->
                          IF n \in expired THEN "pending" ELSE push_status[n]]
     /\ stale' = [n \in Notification |-> n \notin expired /\ stale[n]]
     /\ UNCHANGED <<ledger, active, task, history>>

\* reclaim_stale: one statement requeues every expired row and seals its
\* open deliveries.
ReclaimStale ==
  LET expired == {n \in Notification : push_status[n] = "processing" /\ stale[n]}
  IN /\ expired # {}
     /\ push_status' = [n \in Notification |->
                          IF n \in expired THEN "pending" ELSE push_status[n]]
     /\ stale' = [n \in Notification |-> n \notin expired /\ stale[n]]
     /\ ledger' = Sealed(expired)
     /\ UNCHANGED <<active, task, history>>

\* RECLAIM_AFTER_SECONDS pass after the claim of n.  Nothing renews
\* updated_at while a job runs.
LeaseExpires(n) ==
  /\ push_status[n] = "processing"
  /\ ~stale[n]
  /\ LeaseCoversJob => \A w \in Worker : task[w].job # n
  /\ stale' = [stale EXCEPT ![n] = TRUE]
  /\ UNCHANGED <<push_status, ledger, active, task, history>>

\* An exception leaves _execute_job, or the process dies: the job is
\* forgotten where it stands.
Fault(w) ==
  LET t == task[w]
  IN /\ t.pc # "idle"
     /\ orphaned' = IF t.pc \in {"send", "record"}
                    THEN [orphaned EXCEPT ![t.job] = @ \cup {t.target}]
                    ELSE orphaned
     /\ Become(w, NoTask)
     /\ UNCHANGED <<database, attempted, confirmed, misreported, duplicated>>

-----------------------------------------------------------------------------
JobStep(w) ==
  \/ Resolve(w)
  \/ \E d \in Device : ClaimDevice(w, d)
  \/ \E d \in Device : SkipDevice(w, d)
  \/ \E a \in Answers : Send(w, a)
  \/ MarkSent(w)
  \/ ReleaseClaim(w)
  \/ DeactivateTokens(w)
  \/ SealOpenSending(w)
  \/ Decide(w)
  \/ Finalize(w)

Next ==
  \/ \E w \in Worker, n \in Notification : ClaimById(w, n)
  \/ \E ws \in SUBSET Idle : \E owner \in [ws -> Pending] : ClaimBatch(owner)
  \/ \E w \in Worker : JobStep(w)
  \/ ReclaimStale
  \/ \E n \in Notification : LeaseExpires(n)
  \/ \E w \in Worker : Fault(w)

Spec == Init /\ [][Next]_vars

\* Expo and the database answer the healthy workers, the poller of a healthy
\* instance keeps polling and reclaiming, and time passes.  Any other worker may
\* hang for ever at any point.  Faults are not excluded here.
Fairness ==
  /\ \A w \in Healthy : WF_vars(JobStep(w))
  /\ \A n \in Notification : WF_vars(\E w \in Healthy : ClaimById(w, n))
  /\ \A n \in Notification : WF_vars(LeaseExpires(n))
  /\ WF_vars(ReclaimStale)

FairSpec == Spec /\ Fairness

-----------------------------------------------------------------------------
(* Properties                                                               *)

\* Worker w is between its claim of (n, d) and the record of Expo's answer.
Holds(w, n, d) ==
  /\ task[w].pc \in {"send", "record"}
  /\ task[w].job = n
  /\ task[w].target = d

\* The row of notification_push_deliveries is a lock: two workers are never
\* between try_claim and mark_sent/release_claim of the same device of the same
\* notification, even when reclaim gave the notification to a second worker.
ExclusiveDevice ==
  \A v, w \in Worker : \A n \in Notification, d \in Device :
    Holds(v, n, d) /\ Holds(w, n, d) => v = w

\* Expo is never called again for a device it confirmed, nor for one whose
\* worker died between try_claim and the record ("never Expo again").
NoResend ==
  \A w \in Worker : task[w].pc = "send" =>
    task[w].target \notin confirmed[task[w].job] \cup orphaned[task[w].job]

\* Why the two above hold: a device that was confirmed, was orphaned or is being
\* sent to keeps a row, so no try_claim of it succeeds; and while a worker holds
\* it, nothing but that worker's own success was ever confirmed.
RowsGuardDevices ==
  \A n \in Notification, d \in Device :
    /\ d \in confirmed[n] \cup orphaned[n] => ledger[n][d] # "none"
    /\ \A w \in Worker : Holds(w, n, d) =>
         /\ ledger[n][d] # "none"
         /\ d \notin orphaned[n]
         /\ d \in confirmed[n] => task[w].pc = "record" /\ task[w].reply = "ok"

\* A finalized notification has no recipient device that no job took up: each
\* active one was sent to, is held by a worker between claim and record, or lost
\* its worker there, which may have been before Expo was called.
NoDeviceForgotten ==
  \A n \in Notification : push_status[n] \in Terminal =>
    \A d \in Recipients[n] : active[d] =>
      \/ d \in attempted[n] \cup orphaned[n]
      \/ \E w \in Worker : Holds(w, n, d)

\* A notification finalized as sent has a delivery row that says so, and keeps
\* it, unless no recipient device was left to send to.
SentIsBacked ==
  \A n \in Notification : push_status[n] = "sent" =>
    \/ HasAnySent(n)
    \/ \A d \in Recipients[n] : ~active[d]

\* While leases cover jobs, a live job owns its notification alone, and the
\* notification is processing until that job finalizes it.
SingleOwner ==
  /\ \A w \in Worker : task[w].pc # "idle" => push_status[task[w].job] = "processing"
  /\ \A v, w \in Worker :
       (task[v].pc # "idle" /\ task[w].pc # "idle" /\ task[v].job = task[w].job) => v = w

\* Once no job works on it any more, a failed notification has no device that
\* was sent to ("sent if >= 1 device succeeds; else failed").
FailedMeansNoneSent ==
  \A n \in Notification :
    (push_status[n] = "failed" /\ \A w \in Worker : task[w].job # n) => ~HasAnySent(n)

\* A finalized notification leaves no delivery row in sending: reclaim looks
\* at processing notifications only, so nothing would ever close it.
NoOpenRowLeft ==
  \A n \in Notification : push_status[n] \in Terminal =>
    \A d \in Device : ledger[n][d] # "sending"

Life == INSTANCE NotificationLifecycle WITH status <- push_status

\* While leases cover jobs, push_status keeps to the life of a notification.
Lifecycle == Life!LifeSpec

\* Expo accepts a second push of a notification to a device only if it answered
\* the first one, though accepted, with an error: no crash, reclaim or overlap
\* of jobs repeats any other push.
OnlyMisreportedRepeat ==
  \A n \in Notification : duplicated[n] \subseteq misreported[n]

\* Expo never accepts two pushes of one notification to one device.
NoDuplicatePush == \A n \in Notification : duplicated[n] = {}

\* Faults stop.  One that leaves what the job's last step would have left, a
\* verdict that another job had written already, does not count.
FaultsCease == <>[][\A w \in Worker : Fault(w) => Finalize(w)]_vars

\* Once faults stop, every notification is finalized for good: neither a crash,
\* nor an overlap of two jobs, nor a worker that hangs in its call of Expo
\* strands it in pending or processing, as long as one worker is healthy.
Settles ==
  FaultsCease =>
    \A n \in Notification : <>[](push_status[n] \in Terminal)

\* The abstract promise, with the ledger and the workers mapped to it.
Open == [n \in Notification |-> {d \in Device : \E w \in Worker : Holds(w, n, d)}]

Closed == [n \in Notification |->
             {d \in Device : \/ ledger[n][d] = "sent"
                             \/ ledger[n][d] = "sending" /\ d \notin Open[n]}]

Push == INSTANCE AtMostOncePush WITH open <- Open, closed <- Closed

\* The pipeline implements AtMostOncePush.
AtMostOnce == Push!PushSpec

=============================================================================
