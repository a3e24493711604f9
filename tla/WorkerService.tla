----------------------------- MODULE WorkerService -----------------------------
(***************************************************************************)
(* The service around the delivery pipeline: ExpoPushSubscriber and        *)
(* PendingPoller feed notifications to DeliveryRunner under the semaphore  *)
(* of their instance, and the lifespan of main.py starts and stops them.   *)
(* Instances share Postgres and one Pub/Sub subscription.  What a job does *)
(* between its claim and its end is in NotificationDelivery.               *)
(***************************************************************************)
EXTENDS Integers, FiniteSets

CONSTANTS
  Notification,      \* rows of public.notifications
  Message,           \* messages published to the topic
  Instance,          \* running copies of the service
  Payload,           \* Payload[m]: the notification m names, or one of:
  Malformed,         \*   text that is not a JSON object with a UUID
  Undecodable,       \*   bytes that are not UTF-8
  MaxAttempts,       \* config.PUBSUB_MAX_DELIVERY_ATTEMPTS
  AttemptsReported,  \* FALSE: message.delivery_attempt is None
  MaxConcurrent,     \* config.MAX_CONCURRENT_NOTIFICATIONS
  MaxMessages,       \* config.PUBSUB_MAX_MESSAGES
  BatchSize,         \* config.BATCH_SIZE
  LeaseCoversJob,    \* TRUE: no job, waiting or running, outlasts the lease
  Nobody

ASSUME ServiceAssumption ==
  /\ Payload \in [Message -> Notification \cup {Malformed, Undecodable}]
  /\ {Malformed, Undecodable} \cap Notification = {}
  /\ Malformed # Undecodable
  /\ {MaxAttempts, MaxConcurrent, MaxMessages, BatchSize} \subseteq Nat \ {0}
  /\ {AttemptsReported, LeaseCoversJob} \subseteq BOOLEAN
  /\ Nobody \notin Instance

VARIABLES
  push_status,  \* notifications.push_status, "missing" without a row
  stale,        \* updated_at is older than RECLAIM_AFTER_SECONDS
  message,      \* where Pub/Sub has each message
  handler,      \* the _handle coroutine of each instance and message
  phase,        \* where the lifespan of each instance is
  permits,      \* the free permits of each instance's semaphore
  poller,       \* the PendingPoller task of each instance
  batch,        \* the jobs claimed by each instance's poller
  claimed       \* the notifications ever claimed (history)

database == <<push_status, stale, claimed>>
local    == <<phase, permits, poller, batch>>
vars     == <<push_status, stale, message, handler, phase, permits, poller,
              batch, claimed>>

-----------------------------------------------------------------------------
Terminal    == {"sent", "failed"}
PushStatus  == {"missing", "pending", "processing"} \cup Terminal
AckDisposition == {"ack_processed", "ack_already_done", "ack_in_flight"}
Disposition == AckDisposition \cup {"nack_retry", "nack_error"}

\* The points of _handle and of handle_notification_id; from "claim" to
\* "settle" the coroutine has a permit.
HandlerPoint == {"none", "waiting", "claim", "missed", "job", "settle"}
WithPermit   == HandlerPoint \ {"none", "waiting"}

\* The attempt a message carries counts up to MaxAttempts: the code asks
\* only whether that was reached.
Handler == [pc : HandlerPoint, attempt : 0 .. MaxAttempts,
            disposition : Disposition \cup {"none"}]

NoHandler == [pc |-> "none", attempt |-> 0, disposition |-> "none"]

\* queued jobs wait for a permit, running ones have one; a detached thread
\* runs on after its coroutine was cancelled.
NoBatch == [queued |-> {}, running |-> {}, detached |-> {}]

TypeOK ==
  /\ push_status \in [Notification -> PushStatus]
  /\ stale \in [Notification -> BOOLEAN]
  /\ message \in [Message -> [state : {"queued", "out", "acked"},
                              holder : Instance \cup {Nobody},
                              attempt : 0 .. MaxAttempts]]
  /\ handler \in [Instance -> [Message -> Handler]]
  /\ phase \in [Instance -> {"up", "draining", "closed", "down"}]
  /\ permits \in [Instance -> 0 .. MaxConcurrent]
  /\ poller \in [Instance -> {"sleep", "claim", "gather"}]
  /\ batch \in [Instance -> [queued : SUBSET Notification,
                             running : SUBSET Notification,
                             detached : SUBSET Notification]]
  /\ claimed \subseteq Notification

Init ==
  /\ push_status \in [Notification -> {"missing", "pending"}]
  /\ stale = [n \in Notification |-> FALSE]
  /\ message = [m \in Message |-> [state |-> "queued", holder |-> Nobody, attempt |-> 0]]
  /\ handler = [i \in Instance |-> [m \in Message |-> NoHandler]]
  /\ phase = [i \in Instance |-> "up"]
  /\ permits = [i \in Instance |-> MaxConcurrent]
  /\ poller = [i \in Instance |-> "sleep"]
  /\ batch = [i \in Instance |-> NoBatch]
  /\ claimed = {}

-----------------------------------------------------------------------------
(* The rows                                                                 *)

Pending == {n \in Notification : push_status[n] = "pending"}

\* The rows in S become processing.
TakeRows(S) ==
  /\ push_status' = [n \in Notification |-> IF n \in S THEN "processing" ELSE push_status[n]]
  /\ stale' = [n \in Notification |-> n \notin S /\ stale[n]]
  /\ claimed' = claimed \cup S

\* A job wrote its verdict, whatever the row said.
FinalizeRow(n, status) ==
  /\ status \in Terminal
  /\ push_status' = [push_status EXCEPT ![n] = status]
  /\ stale' = [stale EXCEPT ![n] = FALSE]
  /\ UNCHANGED claimed

\* The producer commits the row; its message may already be there.
InsertRow(n) ==
  /\ push_status[n] = "missing"
  /\ push_status' = [push_status EXCEPT ![n] = "pending"]
  /\ UNCHANGED <<stale, message, handler, claimed, local>>

\* Some thread of some instance has the claimed row n, waiting or running.
InHand(n) ==
  \E i \in Instance :
    \/ n \in batch[i].queued \cup batch[i].running \cup batch[i].detached
    \/ \E m \in Message : handler[i][m].pc = "job" /\ Payload[m] = n

LeaseExpires(n) ==
  /\ push_status[n] = "processing"
  /\ ~stale[n]
  /\ LeaseCoversJob => ~InHand(n)
  /\ stale' = [stale EXCEPT ![n] = TRUE]
  /\ UNCHANGED <<push_status, message, handler, claimed, local>>

-----------------------------------------------------------------------------
(* Pub/Sub                                                                  *)

\* The messages whose lease the streaming pull of instance i holds.
Leased(i) == {m \in Message : message[m].state = "out" /\ message[m].holder = i}

\* start(): the stream hands m to the callback of instance i, once more, within
\* its flow control.
HandOver(i, m) ==
  /\ phase[i] = "up"
  /\ Cardinality(Leased(i)) < MaxMessages
  /\ message[m].state = "queued"
  /\ handler[i][m].pc = "none"

Delivered(i, m) ==
  [state |-> "out", holder |-> i,
   attempt |-> IF message[m].attempt < MaxAttempts THEN message[m].attempt + 1
                                                   ELSE MaxAttempts]

\* _on_message, a payload that names a notification: _handle is scheduled.
Receive(i, m) ==
  /\ HandOver(i, m)
  /\ Payload[m] \in Notification
  /\ message' = [message EXCEPT ![m] = Delivered(i, m)]
  /\ handler' = [handler EXCEPT ![i][m] =
                   [NoHandler EXCEPT !.pc = "waiting", !.attempt = Delivered(i, m).attempt]]
  /\ UNCHANGED <<database, local>>

\* Defect: malformed payloads are nacked like any other failure.
MalformedIsNacked(i, m) ==
  /\ HandOver(i, m)
  /\ Payload[m] = Malformed
  /\ message' = [message EXCEPT ![m] =
                   [Delivered(i, m) EXCEPT !.state = "queued", !.holder = Nobody]]
  /\ UNCHANGED <<database, handler, local>>

\* _on_message, a payload that does not parse: acked at once.
ReceiveMalformed(i, m) ==
  /\ HandOver(i, m)
  /\ Payload[m] = Malformed
  /\ message' = [message EXCEPT ![m] =
                   [Delivered(i, m) EXCEPT !.state = "acked", !.holder = Nobody]]
  /\ UNCHANGED <<database, handler, local>>

\* _on_message, message.data.decode raises before the try: the callback ends
\* without an ack, and Pub/Sub has the message again.
ReceiveUndecodable(i, m) ==
  /\ HandOver(i, m)
  /\ Payload[m] = Undecodable
  /\ message' = [message EXCEPT ![m] = Delivered(i, m)]
  /\ UNCHANGED <<database, handler, local>>

Handled(m) == \E i \in Instance : handler[i][m].pc # "none"

Requeued(m) ==
  /\ message[m].state = "out"
  /\ message' = [message EXCEPT ![m].state = "queued", ![m].holder = Nobody]
  /\ UNCHANGED <<database, handler, local>>

\* The ack deadline passes: without anyone working on m, or while someone is.
RedeliverLost(m)  == ~Handled(m) /\ Requeued(m)
RedeliverEarly(m) == Handled(m) /\ Requeued(m)

-----------------------------------------------------------------------------
(* _handle and handle_notification_id                                       *)

\* async with self.semaphore.
Acquire(i, m) ==
  /\ handler[i][m].pc = "waiting"
  /\ permits[i] > 0
  /\ permits' = [permits EXCEPT ![i] = @ - 1]
  /\ handler' = [handler EXCEPT ![i][m].pc = "claim"]
  /\ UNCHANGED <<database, message, phase, poller, batch>>

\* The database client is still initialized.
Connected(i) == phase[i] \in {"up", "draining"}

ClaimWon(i, m) ==
  /\ handler[i][m].pc = "claim"
  /\ Connected(i)
  /\ Payload[m] \in Pending
  /\ TakeRows({Payload[m]})
  /\ handler' = [handler EXCEPT ![i][m].pc = "job"]
  /\ UNCHANGED <<message, local>>

\* The UPDATE matches no row; the status is read by a second statement.
ClaimMissed(i, m) ==
  /\ handler[i][m].pc = "claim"
  /\ Connected(i)
  /\ Payload[m] \notin Pending
  /\ handler' = [handler EXCEPT ![i][m].pc = "missed"]
  /\ UNCHANGED <<database, message, local>>

Concluded(i, m, disposition) ==
  handler' = [handler EXCEPT ![i][m].pc = "settle", ![i][m].disposition = disposition]

\* Defect: a message whose row is not there yet counts as done.
MissingIsDone(status) ==
  CASE status \in Terminal \cup {"missing"} -> "ack_already_done"
    [] status = "processing"                -> "ack_in_flight"
    [] status = "pending"                   -> "nack_retry"

\* Defect: a message that comes late, for a finalized row, is nacked.
DoneIsNacked(status) ==
  CASE status = "processing" -> "ack_in_flight"
    [] status # "processing" -> "nack_retry"

MissDisposition(status) ==
  CASE status \in Terminal             -> "ack_already_done"
    [] status = "processing"           -> "ack_in_flight"
    [] status \in {"missing", "pending"} -> "nack_retry"

ReadMiss(i, m) ==
  /\ handler[i][m].pc = "missed"
  /\ Concluded(i, m, MissDisposition(push_status[Payload[m]]))
  /\ UNCHANGED <<database, message, local>>

\* _execute_job returned.
JobEnds(i, m, status) ==
  /\ handler[i][m].pc = "job"
  /\ FinalizeRow(Payload[m], status)
  /\ Concluded(i, m, "ack_processed")
  /\ UNCHANGED <<message, local>>

\* A statement or the job raised: handle_notification_id turns it into nack_error.
Raise(i, m) ==
  /\ handler[i][m].pc \in {"claim", "missed", "job"}
  /\ Concluded(i, m, "nack_error")
  /\ UNCHANGED <<database, message, local>>

\* claim_by_id raised after its commit: the row is processing without an owner.
RaiseAfterClaim(i, m) ==
  /\ handler[i][m].pc = "claim"
  /\ Connected(i)
  /\ Payload[m] \in Pending
  /\ TakeRows({Payload[m]})
  /\ Concluded(i, m, "nack_error")
  /\ UNCHANGED <<message, local>>

\* Defect: off by one.
NeverExhausted(attempt) == AttemptsReported /\ attempt > MaxAttempts

AttemptsExhausted(attempt) == AttemptsReported /\ attempt >= MaxAttempts

\* Pub/Sub obeys the instance that has the message; a late ack may still count.
Answer(i, m, ack) ==
  LET answered == [message[m] EXCEPT !.state = IF ack THEN "acked" ELSE "queued",
                                     !.holder = Nobody]
  IN IF message[m].state = "out" /\ message[m].holder = i /\ phase[i] = "up"
     THEN message' = [message EXCEPT ![m] = answered]
     ELSE \/ UNCHANGED message
          \/ ack /\ message' = [message EXCEPT ![m] = answered]

\* Defect: the permit is not returned on the way to nack.
SettleKeepsPermit(i, m) ==
  LET h == handler[i][m]
      ack == h.disposition \in AckDisposition \/ AttemptsExhausted(h.attempt)
  IN /\ h.pc = "settle"
     /\ Answer(i, m, ack)
     /\ permits' = [permits EXCEPT ![i] = IF ack THEN @ + 1 ELSE @]
     /\ handler' = [handler EXCEPT ![i][m] = NoHandler]
     /\ UNCHANGED <<database, phase, poller, batch>>

\* Ack, or give up after MaxAttempts, or nack; leaving async with returns the permit.
Settle(i, m) ==
  LET h == handler[i][m]
      ack == h.disposition \in AckDisposition \/ AttemptsExhausted(h.attempt)
  IN /\ h.pc = "settle"
     /\ Answer(i, m, ack)
     /\ permits' = [permits EXCEPT ![i] = @ + 1]
     /\ handler' = [handler EXCEPT ![i][m] = NoHandler]
     /\ UNCHANGED <<database, phase, poller, batch>>

-----------------------------------------------------------------------------
(* PendingPoller                                                            *)

\* Defect: reclaim does not look at updated_at.
ReclaimAnyAge(i) ==
  /\ phase[i] = "up"
  /\ poller[i] = "sleep"
  /\ poller' = [poller EXCEPT ![i] = "claim"]
  /\ push_status' = [n \in Notification |->
                       IF push_status[n] = "processing" THEN "pending" ELSE push_status[n]]
  /\ stale' = [n \in Notification |-> FALSE]
  /\ UNCHANGED <<message, handler, phase, permits, batch, claimed>>

\* Defect: the tick only claims.
TickWithoutReclaim(i) ==
  /\ phase[i] = "up"
  /\ poller[i] = "sleep"
  /\ poller' = [poller EXCEPT ![i] = "claim"]
  /\ UNCHANGED <<database, message, handler, phase, permits, batch>>

\* _tick: reclaim_stale, then the claim.
TickReclaims(i) ==
  LET expired == {n \in Notification : push_status[n] = "processing" /\ stale[n]}
  IN /\ phase[i] = "up"
     /\ poller[i] = "sleep"
     /\ poller' = [poller EXCEPT ![i] = "claim"]
     /\ push_status' = [n \in Notification |-> IF n \in expired THEN "pending" ELSE push_status[n]]
     /\ stale' = [n \in Notification |-> n \notin expired /\ stale[n]]
     /\ UNCHANGED <<message, handler, phase, permits, batch, claimed>>

\* claim_pending_batch returned jobs: each waits for a permit.
TickClaims(i, S) ==
  /\ Connected(i)
  /\ poller[i] = "claim"
  /\ S # {} /\ S \subseteq Pending
  /\ Cardinality(S) <= BatchSize
  /\ TakeRows(S)
  /\ poller' = [poller EXCEPT ![i] = "gather"]
  /\ batch' = [batch EXCEPT ![i].queued = S]
  /\ UNCHANGED <<message, handler, phase, permits>>

TickFindsNothing(i) ==
  /\ poller[i] = "claim"
  /\ Pending = {}
  /\ poller' = [poller EXCEPT ![i] = "sleep"]
  /\ UNCHANGED <<database, message, handler, phase, permits, batch>>

\* The tick raised, or others had every pending row locked; S # {} when it
\* raised after the claim was committed.
TickFails(i, S) ==
  /\ Connected(i)
  /\ poller[i] = "claim"
  /\ S \subseteq Pending
  /\ Cardinality(S) <= BatchSize
  /\ TakeRows(S)
  /\ poller' = [poller EXCEPT ![i] = "sleep"]
  /\ UNCHANGED <<message, handler, phase, permits, batch>>

\* _run: async with self.semaphore, then process_job in a thread.
BatchJobStarts(i, n) ==
  /\ n \in batch[i].queued
  /\ permits[i] > 0
  /\ permits' = [permits EXCEPT ![i] = @ - 1]
  /\ batch' = [batch EXCEPT ![i].queued = @ \ {n}, ![i].running = @ \cup {n}]
  /\ UNCHANGED <<database, message, handler, phase, poller>>

\* process_job is over; only a running job still has a permit to return.
LeaveBatch(i, n) ==
  /\ n \in batch[i].running \cup batch[i].detached
  /\ permits' = [permits EXCEPT ![i] = IF n \in batch[i].running THEN @ + 1 ELSE @]
  /\ batch' = [batch EXCEPT ![i].running = @ \ {n}, ![i].detached = @ \ {n}]

BatchJobEnds(i, n, status) ==
  /\ LeaveBatch(i, n)
  /\ FinalizeRow(n, status)
  /\ UNCHANGED <<message, handler, phase, poller>>

\* gather(return_exceptions=True) swallows the exception.
BatchJobRaises(i, n) ==
  /\ LeaveBatch(i, n)
  /\ UNCHANGED <<database, message, handler, phase, poller>>

\* Every job of the batch has ended; only then does the next tick come.
GatherEnds(i) ==
  /\ poller[i] = "gather"
  /\ batch[i].queued \cup batch[i].running = {}
  /\ poller' = [poller EXCEPT ![i] = "sleep"]
  /\ UNCHANGED <<database, message, handler, phase, permits, batch>>

-----------------------------------------------------------------------------
(* The lifespan                                                             *)

\* subscriber.stop(), then poller.stop() waits for the tick under way.
Shutdown(i) ==
  /\ phase[i] = "up"
  /\ phase' = [phase EXCEPT ![i] = "draining"]
  /\ UNCHANGED <<database, message, handler, permits, poller, batch>>

\* Defect: waiting jobs return a permit they never had.
CancelReturnsTooMuch(i, S) ==
  /\ phase[i] = "draining"
  /\ poller[i] # "sleep"
  /\ S = {}
  /\ TakeRows(S)
  /\ poller' = [poller EXCEPT ![i] = "sleep"]
  /\ permits' = [permits EXCEPT ![i] = @ + Cardinality(batch[i].running \cup batch[i].queued)]
  /\ batch' = [batch EXCEPT ![i] = [NoBatch EXCEPT !.detached = batch[i].running]]
  /\ UNCHANGED <<message, handler, phase>>

\* The ten seconds of poller.stop() are over: the tick is cancelled.  Waiting
\* jobs are dropped; running threads go on, but their permits come back.  A
\* claim under way (S) commits for nobody.
CancelTick(i, S) ==
  /\ phase[i] = "draining"
  /\ poller[i] # "sleep"
  /\ S \subseteq Pending
  /\ Cardinality(S) <= BatchSize
  /\ poller[i] # "claim" => S = {}
  /\ TakeRows(S)
  /\ poller' = [poller EXCEPT ![i] = "sleep"]
  /\ permits' = [permits EXCEPT ![i] = @ + Cardinality(batch[i].running)]
  /\ batch' = [batch EXCEPT ![i] = [NoBatch EXCEPT !.detached = batch[i].running]]
  /\ UNCHANGED <<message, handler, phase>>

\* PostgresClient.close().  A job inside its last session can still finalize.
CloseDatabase(i) ==
  /\ phase[i] = "draining"
  /\ poller[i] = "sleep"
  /\ phase' = [phase EXCEPT ![i] = "closed"]
  /\ UNCHANGED <<database, message, handler, permits, poller, batch>>

\* The process is gone, killed or at the end of its lifespan.
Gone(i) ==
  /\ phase' = [phase EXCEPT ![i] = "down"]
  /\ handler' = [handler EXCEPT ![i] = [m \in Message |-> NoHandler]]
  /\ permits' = [permits EXCEPT ![i] = MaxConcurrent]
  /\ poller' = [poller EXCEPT ![i] = "sleep"]
  /\ batch' = [batch EXCEPT ![i] = NoBatch]
  /\ UNCHANGED <<database, message>>

Exit(i)  == phase[i] = "closed" /\ Gone(i)
Crash(i) == phase[i] \in {"up", "draining"} /\ Gone(i)

Start(i) ==
  /\ phase[i] = "down"
  /\ phase' = [phase EXCEPT ![i] = "up"]
  /\ UNCHANGED <<database, message, handler, permits, poller, batch>>

-----------------------------------------------------------------------------
HandlerStep(i, m) ==
  \/ Acquire(i, m)
  \/ ClaimWon(i, m)
  \/ ClaimMissed(i, m)
  \/ ReadMiss(i, m)
  \/ \E status \in Terminal : JobEnds(i, m, status)
  \/ Settle(i, m)

ReceiveStep(i, m) == Receive(i, m) \/ ReceiveMalformed(i, m) \/ ReceiveUndecodable(i, m)

TickStep(i) ==
  \/ TickReclaims(i)
  \/ \E S \in SUBSET Pending : TickClaims(i, S)
  \/ TickFindsNothing(i)
  \/ GatherEnds(i)

BatchStep(i, n) ==
  \/ BatchJobStarts(i, n)
  \/ \E status \in Terminal : BatchJobEnds(i, n, status)

StopStep(i) ==
  \/ \E S \in SUBSET Pending : CancelTick(i, S)
  \/ CloseDatabase(i)
  \/ Exit(i)
  \/ Start(i)

\* What may go wrong, or stop an instance.
Failure ==
  \/ \E i \in Instance, m \in Message : Raise(i, m) \/ RaiseAfterClaim(i, m)
  \/ \E i \in Instance, S \in SUBSET Pending : TickFails(i, S)
  \/ \E i \in Instance, n \in Notification : BatchJobRaises(i, n)
  \/ \E m \in Message : RedeliverEarly(m)
  \/ \E i \in Instance : Shutdown(i) \/ Crash(i)

Next ==
  \/ \E n \in Notification : InsertRow(n) \/ LeaseExpires(n)
  \/ \E i \in Instance, m \in Message : ReceiveStep(i, m) \/ HandlerStep(i, m)
  \/ \E m \in Message : RedeliverLost(m)
  \/ \E i \in Instance : TickStep(i) \/ StopStep(i)
  \/ \E i \in Instance, n \in Notification : BatchStep(i, n)
  \/ Failure

Spec == Init /\ [][Next]_vars

\* Jobs end and waiting coroutines get their permit (asyncio.Semaphore is fair
\* and Expo answers), the poller ticks, a stopped instance comes back.  Pub/Sub
\* delivers a message in the end though others take its place in the flow.
Fairness ==
  /\ \A i \in Instance, m \in Message :
       SF_vars(ReceiveStep(i, m)) /\ WF_vars(HandlerStep(i, m))
  /\ \A m \in Message : WF_vars(RedeliverLost(m))
  /\ \A i \in Instance : WF_vars(TickStep(i)) /\ WF_vars(StopStep(i))
  /\ \A i \in Instance, n \in Notification : WF_vars(BatchStep(i, n))
  /\ \A n \in Notification : WF_vars(LeaseExpires(n))

FairSpec == Spec /\ Fairness

-----------------------------------------------------------------------------
(* Properties                                                               *)

\* The coroutines of instance i that got a permit and did not return it.
Holders(i) == {m \in Message : handler[i][m].pc \in WithPermit}

\* No path through _handle, _run or a cancelled tick loses a permit of the
\* semaphore, or returns one twice.
PermitsConserved ==
  \A i \in Instance :
    permits[i] + Cardinality(Holders(i)) + Cardinality(batch[i].running) = MaxConcurrent

\* The threads that have row n in hand.
Owners(n) ==
  {im \in Instance \X Message : handler[im[1]][im[2]].pc = "job" /\ Payload[im[2]] = n}
    \cup {i \in Instance :
            n \in batch[i].queued \cup batch[i].running \cup batch[i].detached}

\* While leases cover jobs, subscriber and pollers of all instances never have
\* the same notification in hand twice, cancelled ticks included, and what is in
\* hand is processing.
OneOwner ==
  \A n \in Notification :
    /\ Cardinality(Owners(n)) <= 1
    /\ Owners(n) # {} => push_status[n] = "processing"

\* A message is acked only when its notification was claimed by someone, or
\* after its last attempt.
NoEarlyAck ==
  \A m \in Message :
    (/\ message[m].state = "acked"
     /\ Payload[m] \in Notification
     /\ message[m].attempt < MaxAttempts) => Payload[m] \in claimed

Life == INSTANCE NotificationLifecycle WITH status <- push_status

\* While leases cover jobs, the service keeps to the life of a notification.
Lifecycle == Life!LifeSpec

\* An instance works on at most MAX_CONCURRENT_NOTIFICATIONS notifications in
\* parallel, in threads that are cancelled but still running too.
ParallelLimit ==
  \A i \in Instance :
    Cardinality(Holders(i)) + Cardinality(batch[i].running)
      + Cardinality(batch[i].detached) <= MaxConcurrent

\* Nothing fails any more.  A failure whose effect is that of a regular step
\* (a tick that found nothing, a verdict that was already there) is none.
Calm ==
  <>[][Failure => \/ \E i \in Instance : TickStep(i)
                  \/ \E i \in Instance, n \in Notification : BatchStep(i, n)]_vars

\* Once failures cease every row is finalized for good, by whoever finds it:
\* also when its message was given up, acked by a process that then died, or
\* never came ("pending rows are still recovered by the DB poller").
RowsSettle ==
  Calm => \A n \in Notification :
            (push_status[n] # "missing") ~> [](push_status[n] \in Terminal)

\* ... and no message is nacked forever, even when its row never appears.
MessagesEnd ==
  Calm => \A m \in Message :
            Payload[m] \in Notification => <>(message[m].state = "acked")

\* ... and also where Pub/Sub reports no attempts, so that nothing is ever given
\* up, the message of a row that does appear ends.
MessagesOfRowsEnd ==
  Calm => \A m \in Message : Payload[m] \in Notification =>
            (push_status[Payload[m]] # "missing") ~> (message[m].state = "acked")

\* ... and every message that names no notification is acked ("poison payloads
\* are acked immediately, no infinite nack").
PoisonIsAcked ==
  Calm => \A m \in Message :
            Payload[m] \notin Notification => <>(message[m].state = "acked")

=============================================================================
