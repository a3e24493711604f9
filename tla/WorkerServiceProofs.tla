--------------------------- MODULE WorkerServiceProofs ---------------------------
(***************************************************************************)
(* What WorkerService guarantees for every set of notifications, messages  *)
(* and instances: the permits are conserved, no message is acked early,    *)
(* and, while leases cover jobs, every notification has one owner.         *)
(***************************************************************************)
EXTENDS WorkerService, FiniteSetTheorems, TLAPS

-----------------------------------------------------------------------------
(* The steps of a coroutine                                                 *)

\* After the step the coroutine of i and m is at pc, with these fields; the
\* others are as they were.
Moves(i, m, pc, attempt, disposition) ==
  /\ handler' \in [Instance -> [Message -> Handler]]
  /\ handler'[i][m].pc = pc
  /\ handler'[i][m].attempt = attempt
  /\ handler'[i][m].disposition = disposition
  /\ \A j \in Instance, k \in Message : j # i \/ k # m => handler'[j][k] = handler[j][k]

\* An assignment to one handler is a move of it.
LEMMA MovesTo ==
  ASSUME handler \in [Instance -> [Message -> Handler]], NEW i \in Instance, NEW m \in Message,
         NEW h \in Handler, handler' = [handler EXCEPT ![i][m] = h]
  PROVE  Moves(i, m, h.pc, h.attempt, h.disposition)
<1>1. handler' \in [Instance -> [Message -> Handler]]
  OBVIOUS
<1>2. handler'[i][m] = h
  OBVIOUS
<1>3. \A j \in Instance, k \in Message : j # i \/ k # m => handler'[j][k] = handler[j][k]
  OBVIOUS
<1> QED
  BY <1>1, <1>2, <1>3 DEF Moves

\* A step that only changes pc, and one that concludes.
LEMMA PcMoves ==
  ASSUME handler \in [Instance -> [Message -> Handler]], NEW i \in Instance, NEW m \in Message,
         NEW p \in HandlerPoint, handler' = [handler EXCEPT ![i][m].pc = p]
  PROVE  Moves(i, m, p, handler[i][m].attempt, handler[i][m].disposition)
<1> DEFINE h == [handler[i][m] EXCEPT !.pc = p]
<1>1. handler[i][m] \in Handler
  OBVIOUS
<1>2. /\ h \in Handler /\ h.pc = p
      /\ h.attempt = handler[i][m].attempt /\ h.disposition = handler[i][m].disposition
  BY <1>1 DEF Handler
<1>3. handler' = [handler EXCEPT ![i][m] = h]
  OBVIOUS
<1> HIDE DEF h
<1>4. Moves(i, m, h.pc, h.attempt, h.disposition)
  BY <1>2, <1>3, MovesTo
<1> QED
  BY <1>2, <1>4

\* A handler whose work is over settles with its disposition.
LEMMA ConcludedMoves ==
  ASSUME handler \in [Instance -> [Message -> Handler]], NEW i \in Instance, NEW m \in Message,
         NEW d \in Disposition, Concluded(i, m, d)
  PROVE  Moves(i, m, "settle", handler[i][m].attempt, d)
<1> DEFINE h == [handler[i][m] EXCEPT !.pc = "settle", !.disposition = d]
<1>1. handler[i][m] \in Handler
  OBVIOUS
<1>2. h \in Handler /\ h.pc = "settle" /\ h.attempt = handler[i][m].attempt /\ h.disposition = d
  BY <1>1 DEF Handler, HandlerPoint
<1>3. handler' = [handler EXCEPT ![i][m] = h]
  BY DEF Concluded
<1> HIDE DEF h
<1>4. Moves(i, m, h.pc, h.attempt, h.disposition)
  BY <1>2, <1>3, MovesTo
<1> QED
  BY <1>2, <1>4

\* Pub/Sub counts deliveries up to MaxAttempts.
LEMMA DeliveredAttempt ==
  ASSUME ServiceAssumption, NEW i \in Instance, NEW m \in Message,
         message[m].attempt \in 0 .. MaxAttempts
  PROVE  /\ Delivered(i, m).attempt \in 0 .. MaxAttempts
         /\ Delivered(i, m).attempt >= message[m].attempt
         /\ Delivered(i, m).state = "out"
         /\ Delivered(i, m).holder = i
BY DEF Delivered, ServiceAssumption

\* A received message waits for a permit, with the attempt Pub/Sub counts.
LEMMA ReceiveMoves ==
  ASSUME ServiceAssumption,
         handler \in [Instance -> [Message -> Handler]], NEW i \in Instance, NEW m \in Message,
         message[m].attempt \in 0 .. MaxAttempts, Receive(i, m)
  PROVE  Moves(i, m, "waiting", Delivered(i, m).attempt, "none")
<1> DEFINE a == Delivered(i, m).attempt
           h == [NoHandler EXCEPT !.pc = "waiting", !.attempt = a]
<1>1. a \in 0 .. MaxAttempts
  BY DeliveredAttempt
<1>2. handler' = [handler EXCEPT ![i][m] = h]
  BY DEF Receive
<1> HIDE DEF a
<1>3. h \in Handler /\ h.pc = "waiting" /\ h.attempt = a /\ h.disposition = "none"
  BY <1>1 DEF NoHandler, Handler, HandlerPoint
<1> HIDE DEF h
<1>4. Moves(i, m, h.pc, h.attempt, h.disposition)
  BY <1>2, <1>3, MovesTo
<1> QED
  BY <1>3, <1>4 DEF a

\* A handler that has answered is gone.
LEMMA SettleMoves ==
  ASSUME ServiceAssumption,
         handler \in [Instance -> [Message -> Handler]], NEW i \in Instance, NEW m \in Message,
         Settle(i, m)
  PROVE  Moves(i, m, "none", 0, "none")
<1>1. /\ NoHandler \in Handler
      /\ NoHandler.pc = "none" /\ NoHandler.attempt = 0 /\ NoHandler.disposition = "none"
  BY DEF NoHandler, Handler, HandlerPoint, ServiceAssumption
<1>2. handler' = [handler EXCEPT ![i][m] = NoHandler]
  BY DEF Settle
<1>3. Moves(i, m, NoHandler.pc, NoHandler.attempt, NoHandler.disposition)
  BY <1>1, <1>2, MovesTo
<1> QED
  BY <1>1, <1>3

-----------------------------------------------------------------------------
(* Messages                                                                 *)

MessageState == [state : {"queued", "out", "acked"}, holder : Instance \cup {Nobody},
                 attempt : 0 .. MaxAttempts]

\* No attempt is uncounted, and nothing is acked anew but what is in acked.
Kept(acked) ==
  /\ message' \in [Message -> MessageState]
  /\ \A m \in Message :
       /\ message'[m].attempt >= message[m].attempt
       /\ message'[m].state = "acked" => message[m].state = "acked" \/ m \in acked

\* A message whose attempts do not fall is kept.
LEMMA MessageBecomes ==
  ASSUME message \in [Message -> MessageState], ServiceAssumption, NEW m \in Message,
         NEW s \in MessageState, s.attempt >= message[m].attempt,
         message' = [message EXCEPT ![m] = s]
  PROVE  Kept(IF s.state = "acked" THEN {m} ELSE {})
<1>1. message' \in [Message -> MessageState] /\ message'[m] = s
      /\ \A k \in Message \ {m} : message'[k] = message[k]
  OBVIOUS
<1>2. \A k \in Message : message[k].attempt \in 0 .. MaxAttempts
  BY DEF MessageState
<1>3. MaxAttempts \in Nat
  BY DEF ServiceAssumption
<1>4. \A k \in Message : message'[k].attempt >= message[k].attempt
  BY <1>1, <1>2, <1>3
<1> QED
  BY <1>1, <1>4 DEF Kept

\* A delivery counts one attempt, up to the maximum.
LEMMA DeliveredState ==
  ASSUME message \in [Message -> MessageState], ServiceAssumption,
         NEW i \in Instance, NEW m \in Message
  PROVE  /\ Delivered(i, m) \in MessageState
         /\ Delivered(i, m).attempt >= message[m].attempt
         /\ Delivered(i, m).state = "out"
<1>1. message[m].attempt \in 0 .. MaxAttempts
  BY DEF MessageState
<1>2. Delivered(i, m).attempt \in 0 .. MaxAttempts /\ Delivered(i, m).attempt >= message[m].attempt
      /\ Delivered(i, m).state = "out" /\ Delivered(i, m).holder = i
  BY <1>1, DeliveredAttempt
<1> QED
  BY <1>2 DEF Delivered, MessageState

\* A delivery acks nothing but a malformed message.
LEMMA DeliveryKeeps ==
  ASSUME message \in [Message -> MessageState], ServiceAssumption,
         NEW i \in Instance, NEW m \in Message
  PROVE  /\ Receive(i, m) \/ ReceiveUndecodable(i, m) => Kept({})
         /\ ReceiveMalformed(i, m) => Kept({m})
<1> DEFINE d == Delivered(i, m)
<1>1. d \in MessageState /\ d.attempt >= message[m].attempt /\ d.state = "out"
  BY DeliveredState
<1>2. CASE Receive(i, m) \/ ReceiveUndecodable(i, m)
  <2>1. message' = [message EXCEPT ![m] = d]
    BY <1>2 DEF Receive, ReceiveUndecodable
  <2> HIDE DEF d
  <2>2. Kept(IF d.state = "acked" THEN {m} ELSE {})
    BY <1>1, <2>1, MessageBecomes
  <2>3. (IF d.state = "acked" THEN {m} ELSE {}) = {}
    BY <1>1
  <2>4. Kept({})
    BY <2>2, <2>3
  <2>5. Kept({m})
    BY <2>4 DEF Kept
  <2> QED
    BY <2>4, <2>5
<1>3. ASSUME ReceiveMalformed(i, m) PROVE Kept({m})
  <2> DEFINE s == [d EXCEPT !.state = "acked", !.holder = Nobody]
  <2>1. message' = [message EXCEPT ![m] = s]
    BY <1>3 DEF ReceiveMalformed
  <2> HIDE DEF d
  <2>2. s \in MessageState /\ s.attempt = d.attempt
    BY <1>1 DEF MessageState
  <2>3. s.attempt >= message[m].attempt
    BY <1>1, <2>2
  <2> HIDE DEF s
  <2>4. Kept(IF s.state = "acked" THEN {m} ELSE {})
    BY <2>1, <2>2, <2>3, MessageBecomes
  <2> QED
    BY <2>4 DEF Kept
<1> QED
  BY <1>2, <1>3

\* The end of the ack deadline acks nothing.
LEMMA RequeueKeeps ==
  ASSUME message \in [Message -> MessageState], ServiceAssumption, NEW m \in Message, Requeued(m)
  PROVE  Kept({})
<1> DEFINE s == [message[m] EXCEPT !.state = "queued", !.holder = Nobody]
<1>1. message' = [message EXCEPT ![m] = s]
  BY DEF Requeued
<1>2. /\ s \in MessageState /\ s.state = "queued" /\ s.attempt = message[m].attempt
      /\ message[m].attempt \in 0 .. MaxAttempts
  BY DEF MessageState
<1>3. s.attempt >= message[m].attempt
  BY <1>2 DEF ServiceAssumption
<1> HIDE DEF s
<1>4. Kept(IF s.state = "acked" THEN {m} ELSE {})
  BY <1>1, <1>2, <1>3, MessageBecomes
<1> QED
  BY <1>2, <1>4 DEF Kept

\* Nor does what leaves Pub/Sub alone.
LEMMA NoDelivery ==
  ASSUME message \in [Message -> MessageState], ServiceAssumption, UNCHANGED message
  PROVE  Kept({})
<1>1. \A m \in Message : message[m].attempt \in 0 .. MaxAttempts
  BY DEF MessageState
<1> QED
  BY <1>1 DEF Kept, ServiceAssumption

\* An answer acks its message or nothing.
LEMMA AnswerKeeps ==
  ASSUME message \in [Message -> MessageState], ServiceAssumption,
         NEW i \in Instance, NEW m \in Message, NEW ack, Answer(i, m, ack)
  PROVE  IF ack THEN Kept({m}) ELSE Kept({})
<1> DEFINE s == [message[m] EXCEPT !.state = IF ack THEN "acked" ELSE "queued", !.holder = Nobody]
<1>1. CASE UNCHANGED message
  <2>1. Kept({})
    BY <1>1, NoDelivery
  <2> QED
    BY <2>1 DEF Kept
<1>2. CASE message' = [message EXCEPT ![m] = s]
  <2>1. /\ s \in MessageState /\ s.attempt = message[m].attempt
        /\ s.state = IF ack THEN "acked" ELSE "queued"
        /\ message[m].attempt \in 0 .. MaxAttempts
    BY DEF MessageState
  <2>2. s.attempt >= message[m].attempt
    BY <2>1 DEF ServiceAssumption
  <2>3. IF ack THEN s.state = "acked" ELSE s.state # "acked"
    BY <2>1
  <2> HIDE DEF s
  <2>4. Kept(IF s.state = "acked" THEN {m} ELSE {})
    BY <1>2, <2>1, <2>2, MessageBecomes
  <2> QED
    BY <2>3, <2>4
<1> QED
  BY <1>1, <1>2 DEF Answer

-----------------------------------------------------------------------------
(* Batches                                                                  *)

Batch == [queued : SUBSET Notification, running : SUBSET Notification,
          detached : SUBSET Notification]

\* After the step the batch of i has these jobs; the others are as they were.
Sorts(i, queued, running, detached) ==
  /\ batch' \in [Instance -> Batch]
  /\ batch'[i].queued = queued
  /\ batch'[i].running = running
  /\ batch'[i].detached = detached
  /\ \A j \in Instance \ {i} : batch'[j] = batch[j]

\* An assignment to one batch sorts it.
LEMMA SortsTo ==
  ASSUME batch \in [Instance -> Batch], NEW i \in Instance, NEW b \in Batch,
         batch' = [batch EXCEPT ![i] = b]
  PROVE  Sorts(i, b.queued, b.running, b.detached)
BY DEF Sorts

\* How the steps of a batch move jobs between its three sets.
LEMMA BatchSorts ==
  ASSUME batch \in [Instance -> Batch], NEW i \in Instance
  PROVE  /\ \A S \in SUBSET Pending : TickClaims(i, S) =>
              Sorts(i, S, batch[i].running, batch[i].detached)
         /\ \A n \in Notification : BatchJobStarts(i, n) =>
              Sorts(i, batch[i].queued \ {n}, batch[i].running \cup {n}, batch[i].detached)
         /\ \A n \in Notification : LeaveBatch(i, n) =>
              Sorts(i, batch[i].queued, batch[i].running \ {n}, batch[i].detached \ {n})
         /\ \A S : CancelTick(i, S) => Sorts(i, {}, {}, batch[i].running)
         /\ Gone(i) => Sorts(i, {}, {}, {})
<1>t. /\ batch[i] \in Batch
      /\ batch[i].queued \in SUBSET Notification /\ batch[i].running \in SUBSET Notification
      /\ batch[i].detached \in SUBSET Notification
  BY DEF Batch
<1>1. ASSUME NEW S \in SUBSET Pending, TickClaims(i, S)
      PROVE  Sorts(i, S, batch[i].running, batch[i].detached)
  <2> DEFINE b == [batch[i] EXCEPT !.queued = S]
  <2>1. b \in Batch /\ b.queued = S /\ b.running = batch[i].running /\ b.detached = batch[i].detached
    BY <1>t DEF Batch, Pending
  <2>2. batch' = [batch EXCEPT ![i] = b]
    BY <1>1 DEF TickClaims
  <2> HIDE DEF b
  <2>3. Sorts(i, b.queued, b.running, b.detached)
    BY <2>1, <2>2, SortsTo
  <2> QED
    BY <2>1, <2>3
<1>2. ASSUME NEW n \in Notification, BatchJobStarts(i, n)
      PROVE  Sorts(i, batch[i].queued \ {n}, batch[i].running \cup {n}, batch[i].detached)
  <2> DEFINE b == [batch[i] EXCEPT !.queued = @ \ {n}, !.running = @ \cup {n}]
  <2>1. b \in Batch /\ b.queued = batch[i].queued \ {n}
        /\ b.running = batch[i].running \cup {n} /\ b.detached = batch[i].detached
    BY <1>t DEF Batch
  <2>2. batch' = [batch EXCEPT ![i] = b]
    BY <1>2 DEF BatchJobStarts
  <2> HIDE DEF b
  <2>3. Sorts(i, b.queued, b.running, b.detached)
    BY <2>1, <2>2, SortsTo
  <2> QED
    BY <2>1, <2>3
<1>3. ASSUME NEW n \in Notification, LeaveBatch(i, n)
      PROVE  Sorts(i, batch[i].queued, batch[i].running \ {n}, batch[i].detached \ {n})
  <2> DEFINE b == [batch[i] EXCEPT !.running = @ \ {n}, !.detached = @ \ {n}]
  <2>1. b \in Batch /\ b.queued = batch[i].queued
        /\ b.running = batch[i].running \ {n} /\ b.detached = batch[i].detached \ {n}
    BY <1>t DEF Batch
  <2>2. batch' = [batch EXCEPT ![i] = b]
    BY <1>3 DEF LeaveBatch
  <2> HIDE DEF b
  <2>3. Sorts(i, b.queued, b.running, b.detached)
    BY <2>1, <2>2, SortsTo
  <2> QED
    BY <2>1, <2>3
<1>4. ASSUME NEW S, CancelTick(i, S) PROVE Sorts(i, {}, {}, batch[i].running)
  <2> DEFINE b == [NoBatch EXCEPT !.detached = batch[i].running]
  <2>1. b \in Batch /\ b.queued = {} /\ b.running = {} /\ b.detached = batch[i].running
    BY <1>t DEF Batch, NoBatch
  <2>2. batch' = [batch EXCEPT ![i] = b]
    BY <1>4 DEF CancelTick
  <2> HIDE DEF b
  <2>3. Sorts(i, b.queued, b.running, b.detached)
    BY <2>1, <2>2, SortsTo
  <2> QED
    BY <2>1, <2>3
<1>5. ASSUME Gone(i) PROVE Sorts(i, {}, {}, {})
  <2>1. NoBatch \in Batch /\ NoBatch.queued = {} /\ NoBatch.running = {} /\ NoBatch.detached = {}
    BY DEF Batch, NoBatch
  <2>2. Sorts(i, NoBatch.queued, NoBatch.running, NoBatch.detached)
    BY <1>5, <2>1, SortsTo DEF Gone
  <2> QED
    BY <2>1, <2>2
<1> QED
  BY <1>1, <1>2, <1>3, <1>4, <1>5

-----------------------------------------------------------------------------
(* Types                                                                    *)

RowsTyped ==
  /\ push_status \in [Notification -> PushStatus]
  /\ stale \in [Notification -> BOOLEAN]
  /\ claimed \subseteq Notification

LocalTyped ==
  /\ phase \in [Instance -> {"up", "draining", "closed", "down"}]
  /\ permits \in [Instance -> Nat]
  /\ poller \in [Instance -> {"sleep", "claim", "gather"}]

\* Jobs start one at a time, so finitely many run.
BatchTyped ==
  /\ batch \in [Instance -> Batch]
  /\ \A i \in Instance : IsFiniteSet(batch[i].running)

\* Coroutines exist for messages that name a notification.
HandlersNamed ==
  \A i \in Instance, m \in Message : handler[i][m].pc # "none" => Payload[m] \in Notification

\* TypeOK without the upper bound on permits, which takes counting.
Typed ==
  /\ RowsTyped
  /\ message \in [Message -> MessageState]
  /\ handler \in [Instance -> [Message -> Handler]]
  /\ HandlersNamed
  /\ LocalTyped
  /\ BatchTyped

\* A claim leaves the rows well typed.
LEMMA TakeRowsType ==
  ASSUME RowsTyped, NEW S \in SUBSET Pending, TakeRows(S)
  PROVE  RowsTyped'
<1>1. push_status' \in [Notification -> PushStatus]
  BY DEF TakeRows, RowsTyped, PushStatus
<1>2. stale' \in [Notification -> BOOLEAN]
  BY Zenon DEF TakeRows, RowsTyped
<1>3. claimed' \subseteq Notification
  BY DEF TakeRows, RowsTyped, Pending
<1> QED
  BY <1>1, <1>2, <1>3 DEF RowsTyped

\* So does a verdict.
LEMMA FinalizeRowType ==
  ASSUME RowsTyped, NEW n \in Notification, NEW s, FinalizeRow(n, s)
  PROVE  RowsTyped'
BY DEF FinalizeRow, RowsTyped, PushStatus

\* What the process of an instance forgets.
LEMMA GoneMoves ==
  ASSUME handler \in [Instance -> [Message -> Handler]], ServiceAssumption,
         NEW i \in Instance, Gone(i)
  PROVE  /\ handler' \in [Instance -> [Message -> Handler]]
         /\ \A m \in Message : /\ handler'[i][m].pc = "none"
                               /\ handler'[i][m].attempt = 0
                               /\ handler'[i][m].disposition = "none"
         /\ \A j \in Instance \ {i} : handler'[j] = handler[j]
<1>1. /\ NoHandler \in Handler
      /\ NoHandler.pc = "none" /\ NoHandler.attempt = 0 /\ NoHandler.disposition = "none"
  BY DEF NoHandler, Handler, HandlerPoint, ServiceAssumption
<1>2. handler' = [handler EXCEPT ![i] = [m \in Message |-> NoHandler]]
  BY DEF Gone
<1> QED
  BY <1>1, <1>2

\* A coroutine's new place is well typed.
LEMMA MovesType ==
  ASSUME NEW i, NEW m, NEW pc, NEW attempt, NEW disposition,
         Moves(i, m, pc, attempt, disposition)
  PROVE  handler' \in [Instance -> [Message -> Handler]]
BY DEF Moves

\* Whatever the status of a row that could not be claimed, its message is acked or nacked.
LEMMA MissIsDisposition ==
  ASSUME NEW s \in PushStatus PROVE MissDisposition(s) \in Disposition
BY DEF PushStatus, Terminal, MissDisposition, Disposition, AckDisposition

\* Each step of a coroutine moves it, and keeps its fields but what it decides.
LEMMA CoroutineMoves ==
  ASSUME Typed, ServiceAssumption, NEW i \in Instance, NEW m \in Message
  PROVE  /\ Receive(i, m) => Moves(i, m, "waiting", Delivered(i, m).attempt, "none")
         /\ Acquire(i, m) =>
              Moves(i, m, "claim", handler[i][m].attempt, handler[i][m].disposition)
         /\ ClaimWon(i, m) =>
              Moves(i, m, "job", handler[i][m].attempt, handler[i][m].disposition)
         /\ ClaimMissed(i, m) =>
              Moves(i, m, "missed", handler[i][m].attempt, handler[i][m].disposition)
         /\ ReadMiss(i, m) =>
              Moves(i, m, "settle", handler[i][m].attempt, MissDisposition(push_status[Payload[m]]))
         /\ \A s : JobEnds(i, m, s) =>
              Moves(i, m, "settle", handler[i][m].attempt, "ack_processed")
         /\ Raise(i, m) \/ RaiseAfterClaim(i, m) =>
              Moves(i, m, "settle", handler[i][m].attempt, "nack_error")
         /\ Settle(i, m) => Moves(i, m, "none", 0, "none")
<1>1. handler \in [Instance -> [Message -> Handler]] /\ message[m].attempt \in 0 .. MaxAttempts
  BY DEF Typed, MessageState
<1>2. {"claim", "job", "missed"} \subseteq HandlerPoint
      /\ {"ack_processed", "nack_error"} \subseteq Disposition
  BY DEF HandlerPoint, Disposition, AckDisposition
<1>3. Receive(i, m) => Moves(i, m, "waiting", Delivered(i, m).attempt, "none")
  BY <1>1, ReceiveMoves
<1>4. Acquire(i, m) => Moves(i, m, "claim", handler[i][m].attempt, handler[i][m].disposition)
  BY <1>1, <1>2, PcMoves DEF Acquire
<1>5. ClaimWon(i, m) => Moves(i, m, "job", handler[i][m].attempt, handler[i][m].disposition)
  BY <1>1, <1>2, PcMoves DEF ClaimWon
<1>6. ClaimMissed(i, m) => Moves(i, m, "missed", handler[i][m].attempt, handler[i][m].disposition)
  BY <1>1, <1>2, PcMoves DEF ClaimMissed
<1>7. ASSUME ReadMiss(i, m)
      PROVE  Moves(i, m, "settle", handler[i][m].attempt, MissDisposition(push_status[Payload[m]]))
  <2>1. push_status[Payload[m]] \in PushStatus
    BY <1>7 DEF Typed, RowsTyped, HandlersNamed, ReadMiss
  <2> QED
    BY <1>1, <1>7, <2>1, MissIsDisposition, ConcludedMoves DEF ReadMiss
<1>8. \A s : JobEnds(i, m, s) => Moves(i, m, "settle", handler[i][m].attempt, "ack_processed")
  BY <1>1, <1>2, ConcludedMoves DEF JobEnds
<1>9. Raise(i, m) \/ RaiseAfterClaim(i, m) =>
        Moves(i, m, "settle", handler[i][m].attempt, "nack_error")
  BY <1>1, <1>2, ConcludedMoves DEF Raise, RaiseAfterClaim
<1>10. Settle(i, m) => Moves(i, m, "none", 0, "none")
  BY <1>1, SettleMoves
<1> QED
  BY <1>3, <1>4, <1>5, <1>6, <1>7, <1>8, <1>9, <1>10

\* A coroutine that moves stays well typed and named.
LEMMA MovesTyped ==
  ASSUME Typed, NEW i \in Instance, NEW m \in Message, NEW pc, NEW attempt, NEW disposition,
         Moves(i, m, pc, attempt, disposition),
         pc = "none" \/ Payload[m] \in Notification
  PROVE  handler' \in [Instance -> [Message -> Handler]] /\ HandlersNamed'
<1>1. handler' \in [Instance -> [Message -> Handler]]
  BY DEF Moves
<1>2. ASSUME NEW j \in Instance, NEW k \in Message, handler'[j][k].pc # "none"
      PROVE  Payload[k] \in Notification
  <2>1. CASE j = i /\ k = m
    BY <1>2, <2>1 DEF Moves
  <2>2. CASE ~(j = i /\ k = m)
    BY <1>2, <2>2 DEF Moves, Typed, HandlersNamed
  <2> QED
    BY <2>1, <2>2
<1> QED
  BY <1>1, <1>2 DEF HandlersNamed

\* The steps of one handler keep the service well typed.
LEMMA CoroutineTypes ==
  ASSUME Typed, ServiceAssumption, NEW i \in Instance, NEW m \in Message,
         ReceiveStep(i, m) \/ HandlerStep(i, m) \/ Raise(i, m) \/ RaiseAfterClaim(i, m)
  PROVE  Typed'
<1> DEFINE h == handler[i][m]
<1>t. /\ RowsTyped /\ message \in [Message -> MessageState] /\ LocalTyped /\ BatchTyped
      /\ handler \in [Instance -> [Message -> Handler]] /\ HandlersNamed
  BY DEF Typed
<1>n. h.pc # "none" => Payload[m] \in Notification
  BY <1>t DEF HandlersNamed
\* The batches, phases and pollers are untouched.
<1>q. ASSUME RowsTyped', message' \in [Message -> MessageState],
             handler' \in [Instance -> [Message -> Handler]], HandlersNamed',
             UNCHANGED <<phase, poller, batch>>, permits' \in [Instance -> Nat]
      PROVE  Typed'
  BY <1>t, <1>q DEF Typed, LocalTyped, BatchTyped
<1>1. CASE Receive(i, m)
  <2>1. Moves(i, m, "waiting", Delivered(i, m).attempt, "none") /\ Kept({})
    BY <1>t, <1>1, CoroutineMoves, DeliveryKeeps
  <2>2. /\ Payload[m] \in Notification
        /\ UNCHANGED <<push_status, stale, claimed, phase, permits, poller, batch>>
    BY <1>1 DEF Receive, database, local
  <2>3. handler' \in [Instance -> [Message -> Handler]] /\ HandlersNamed'
    BY <2>1, <2>2, MovesTyped
  <2> QED
    BY <1>t, <1>q, <2>1, <2>2, <2>3 DEF RowsTyped, LocalTyped, Kept
<1>2. CASE ReceiveMalformed(i, m) \/ ReceiveUndecodable(i, m)
  <2>1. Kept({}) \/ Kept({m})
    BY <1>t, <1>2, DeliveryKeeps
  <2>2. UNCHANGED <<push_status, stale, claimed, handler, phase, permits, poller, batch>>
    BY <1>2 DEF ReceiveMalformed, ReceiveUndecodable, database, local
  <2> QED
    BY <1>t, <1>q, <2>1, <2>2 DEF RowsTyped, LocalTyped, Kept, HandlersNamed
<1>3. CASE Acquire(i, m)
  <2>1. Moves(i, m, "claim", h.attempt, h.disposition)
    BY <1>3, CoroutineMoves
  <2>2. /\ h.pc = "waiting" /\ permits[i] > 0 /\ permits' = [permits EXCEPT ![i] = @ - 1]
        /\ UNCHANGED <<push_status, stale, claimed, message, phase, poller, batch>>
    BY <1>3 DEF Acquire, database
  <2>3. permits' \in [Instance -> Nat]
    BY <1>t, <2>2 DEF LocalTyped
  <2>4. handler' \in [Instance -> [Message -> Handler]] /\ HandlersNamed'
    BY <1>n, <2>1, <2>2, MovesTyped
  <2> QED
    BY <1>t, <1>q, <2>2, <2>3, <2>4 DEF RowsTyped
<1>4. CASE ClaimWon(i, m)
  <2>1. Moves(i, m, "job", h.attempt, h.disposition)
    BY <1>4, CoroutineMoves
  <2>2. /\ h.pc = "claim" /\ {Payload[m]} \in SUBSET Pending /\ TakeRows({Payload[m]})
        /\ UNCHANGED <<message, phase, permits, poller, batch>>
    BY <1>4 DEF ClaimWon, local
  <2>3. RowsTyped'
    BY <1>t, <2>2, TakeRowsType
  <2>4. handler' \in [Instance -> [Message -> Handler]] /\ HandlersNamed'
    BY <1>n, <2>1, <2>2, MovesTyped
  <2> QED
    BY <1>t, <1>q, <2>2, <2>3, <2>4 DEF LocalTyped
<1>5. ASSUME NEW pc, NEW d, Moves(i, m, pc, h.attempt, d), h.pc # "none", RowsTyped',
             UNCHANGED <<message, phase, permits, poller, batch>>
      PROVE  Typed'
  <2>1. handler' \in [Instance -> [Message -> Handler]] /\ HandlersNamed'
    BY <1>n, <1>5, MovesTyped
  <2> QED
    BY <1>t, <1>q, <1>5, <2>1 DEF LocalTyped
<1>6. CASE ClaimMissed(i, m)
  <2>1. Moves(i, m, "missed", h.attempt, h.disposition) /\ h.pc # "none"
        /\ UNCHANGED <<push_status, stale, claimed, message, phase, permits, poller, batch>>
    BY <1>6, CoroutineMoves DEF ClaimMissed, database, local
  <2> QED
    BY <1>t, <1>5, <2>1 DEF RowsTyped
<1>7. CASE ReadMiss(i, m)
  <2>1. Moves(i, m, "settle", h.attempt, MissDisposition(push_status[Payload[m]])) /\ h.pc # "none"
        /\ UNCHANGED <<push_status, stale, claimed, message, phase, permits, poller, batch>>
    BY <1>7, CoroutineMoves DEF ReadMiss, database, local
  <2> QED
    BY <1>t, <1>5, <2>1 DEF RowsTyped
<1>8. ASSUME NEW s \in Terminal, JobEnds(i, m, s) PROVE Typed'
  <2>1. Moves(i, m, "settle", h.attempt, "ack_processed") /\ h.pc # "none"
        /\ FinalizeRow(Payload[m], s) /\ UNCHANGED <<message, phase, permits, poller, batch>>
    BY <1>8, CoroutineMoves DEF JobEnds, local
  <2>2. RowsTyped'
    BY <1>t, <1>n, <2>1, FinalizeRowType
  <2> QED
    BY <1>5, <2>1, <2>2
<1>9. CASE Settle(i, m)
  <2>1. Kept({m}) \/ Kept({})
    BY <1>t, <1>9, AnswerKeeps DEF Settle
  <2>m. Moves(i, m, "none", 0, "none")
    BY <1>9, CoroutineMoves
  <2>3. /\ permits' = [permits EXCEPT ![i] = @ + 1]
        /\ UNCHANGED <<push_status, stale, claimed, phase, poller, batch>>
    BY <1>9 DEF Settle, database
  <2>4. permits' \in [Instance -> Nat]
    BY <1>t, <2>3 DEF LocalTyped
  <2>5. handler' \in [Instance -> [Message -> Handler]] /\ HandlersNamed'
    BY <2>m, MovesTyped
  <2> QED
    BY <1>t, <1>q, <2>1, <2>3, <2>4, <2>5 DEF RowsTyped, Kept
<1>10. CASE Raise(i, m)
  <2>1. Moves(i, m, "settle", h.attempt, "nack_error") /\ h.pc # "none"
        /\ UNCHANGED <<push_status, stale, claimed, message, phase, permits, poller, batch>>
    BY <1>10, CoroutineMoves DEF Raise, database, local
  <2> QED
    BY <1>t, <1>5, <2>1 DEF RowsTyped
<1>11. CASE RaiseAfterClaim(i, m)
  <2>1. Moves(i, m, "settle", h.attempt, "nack_error") /\ h.pc # "none"
        /\ {Payload[m]} \in SUBSET Pending /\ TakeRows({Payload[m]})
        /\ UNCHANGED <<message, phase, permits, poller, batch>>
    BY <1>11, CoroutineMoves DEF RaiseAfterClaim, local
  <2>2. RowsTyped'
    BY <1>t, <2>1, TakeRowsType
  <2> QED
    BY <1>5, <2>1, <2>2
<1> QED
  BY <1>1, <1>2, <1>3, <1>4, <1>6, <1>7, <1>8, <1>9, <1>10, <1>11 DEF ReceiveStep, HandlerStep

\* Steps of an instance: its poller and its lifespan.
LEMMA InstanceTypes ==
  ASSUME Typed, ServiceAssumption, NEW i \in Instance,
         \/ TickStep(i) \/ StopStep(i) \/ \E S \in SUBSET Pending : TickFails(i, S)
         \/ \E n \in Notification : BatchStep(i, n) \/ BatchJobRaises(i, n)
         \/ Shutdown(i) \/ Crash(i)
  PROVE  Typed'
<1>t. /\ RowsTyped /\ message \in [Message -> MessageState] /\ LocalTyped /\ BatchTyped
      /\ handler \in [Instance -> [Message -> Handler]] /\ HandlersNamed
      /\ batch \in [Instance -> Batch] /\ permits \in [Instance -> Nat]
      /\ IsFiniteSet(batch[i].running)
  BY DEF Typed, LocalTyped, BatchTyped
\* The coroutines and messages are untouched.
<1>q. ASSUME RowsTyped', LocalTyped', BatchTyped', UNCHANGED <<message, handler>> PROVE Typed'
  BY <1>t, <1>q DEF Typed, HandlersNamed
\* A set of running jobs that is finite after the step.
<1>b. ASSUME NEW Q, NEW R, NEW D, Sorts(i, Q, R, D), IsFiniteSet(R) PROVE BatchTyped'
  BY <1>t, <1>b DEF Typed, BatchTyped, Sorts
<1>1. CASE TickReclaims(i)
  <2>1. push_status' \in [Notification -> PushStatus] /\ UNCHANGED claimed
    BY <1>t, <1>1 DEF TickReclaims, RowsTyped, PushStatus
  <2>2. stale' \in [Notification -> BOOLEAN]
    BY <1>t, <1>1, Zenon DEF TickReclaims, RowsTyped
  <2>3. RowsTyped'
    BY <1>t, <2>1, <2>2 DEF RowsTyped
  <2> QED
    BY <1>t, <1>q, <1>1, <2>3 DEF TickReclaims, LocalTyped, BatchTyped
<1>2. ASSUME NEW S \in SUBSET Pending, TickClaims(i, S) PROVE Typed'
  <2>1. Sorts(i, S, batch[i].running, batch[i].detached)
    BY <1>t, <1>2, BatchSorts
  <2>2. RowsTyped'
    BY <1>t, <1>2, TakeRowsType DEF TickClaims
  <2>3. BatchTyped'
    BY <1>t, <1>b, <2>1
  <2> QED
    BY <1>t, <1>q, <1>2, <2>2, <2>3 DEF TickClaims, LocalTyped
<1>3. CASE TickFindsNothing(i)
  BY <1>t, <1>q, <1>3 DEF TickFindsNothing, RowsTyped, LocalTyped, BatchTyped, database
<1>4. CASE GatherEnds(i)
  BY <1>t, <1>q, <1>4 DEF GatherEnds, RowsTyped, LocalTyped, BatchTyped, database
<1>5. ASSUME NEW S \in SUBSET Pending, TickFails(i, S) PROVE Typed'
  <2>1. RowsTyped'
    BY <1>t, <1>5, TakeRowsType DEF TickFails
  <2> QED
    BY <1>t, <1>q, <1>5, <2>1 DEF TickFails, LocalTyped, BatchTyped
<1>6. ASSUME NEW n \in Notification, BatchJobStarts(i, n) PROVE Typed'
  <2>1. Sorts(i, batch[i].queued \ {n}, batch[i].running \cup {n}, batch[i].detached)
    BY <1>t, <1>6, BatchSorts
  <2>2. IsFiniteSet(batch[i].running \cup {n})
    BY <1>t, FS_AddElement
  <2>3. BatchTyped'
    BY <1>b, <2>1, <2>2
  <2>4. permits[i] > 0 /\ permits' = [permits EXCEPT ![i] = @ - 1]
    BY <1>6 DEF BatchJobStarts
  <2>5. permits' \in [Instance -> Nat]
    BY <1>t, <2>4
  <2> QED
    BY <1>t, <1>q, <1>6, <2>3, <2>5 DEF BatchJobStarts, RowsTyped, LocalTyped, database
<1>7. ASSUME NEW n \in Notification, LeaveBatch(i, n), RowsTyped',
             UNCHANGED <<message, handler, phase, poller>>
      PROVE  Typed'
  <2>1. Sorts(i, batch[i].queued, batch[i].running \ {n}, batch[i].detached \ {n})
    BY <1>t, <1>7, BatchSorts
  <2>2. IsFiniteSet(batch[i].running \ {n})
    BY <1>t, FS_RemoveElement
  <2>3. BatchTyped'
    BY <1>b, <2>1, <2>2
  <2>4. permits' \in [Instance -> Nat]
    BY <1>t, <1>7 DEF LeaveBatch
  <2> QED
    BY <1>t, <1>q, <1>7, <2>3, <2>4 DEF LocalTyped
<1>8. ASSUME NEW n \in Notification, NEW s \in Terminal, BatchJobEnds(i, n, s) PROVE Typed'
  <2>1. RowsTyped'
    BY <1>t, <1>8, FinalizeRowType DEF BatchJobEnds
  <2> QED
    BY <1>7, <1>8, <2>1 DEF BatchJobEnds
<1>9. ASSUME NEW n \in Notification, BatchJobRaises(i, n) PROVE Typed'
  BY <1>t, <1>7, <1>9 DEF BatchJobRaises, RowsTyped, database
<1>10. ASSUME NEW S \in SUBSET Pending, CancelTick(i, S) PROVE Typed'
  <2>1. Sorts(i, {}, {}, batch[i].running)
    BY <1>t, <1>10, BatchSorts
  <2>2. BatchTyped'
    BY <1>b, <2>1, FS_EmptySet
  <2>3. Cardinality(batch[i].running) \in Nat
    BY <1>t, FS_CardinalityType
  <2>4. permits' = [permits EXCEPT ![i] = @ + Cardinality(batch[i].running)]
    BY <1>10 DEF CancelTick
  <2>5. permits' \in [Instance -> Nat]
    BY <1>t, <2>3, <2>4
  <2>6. RowsTyped'
    BY <1>t, <1>10, TakeRowsType DEF CancelTick
  <2> QED
    BY <1>t, <1>q, <1>10, <2>2, <2>5, <2>6 DEF CancelTick, LocalTyped
<1>11. CASE Shutdown(i) \/ CloseDatabase(i) \/ Start(i)
  BY <1>t, <1>q, <1>11 DEF Shutdown, CloseDatabase, Start, RowsTyped, LocalTyped, BatchTyped, database
<1>12. CASE Gone(i)
  <2>1. Sorts(i, {}, {}, {})
    BY <1>t, <1>12, BatchSorts
  <2>2. BatchTyped'
    BY <1>b, <2>1, FS_EmptySet
  <2>3. /\ handler' \in [Instance -> [Message -> Handler]]
        /\ \A m \in Message : handler'[i][m].pc = "none"
        /\ \A j \in Instance \ {i} : handler'[j] = handler[j]
    BY <1>t, <1>12, GoneMoves
  <2>4. HandlersNamed'
    BY <1>t, <2>3 DEF HandlersNamed
  <2>5. LocalTyped'
    BY <1>t, <1>12 DEF Gone, LocalTyped, ServiceAssumption
  <2>6. UNCHANGED <<push_status, stale, claimed, message>>
    BY <1>12 DEF Gone, database
  <2> QED
    BY <1>t, <2>2, <2>3, <2>4, <2>5, <2>6 DEF Typed, RowsTyped
<1> QED
  BY <1>1, <1>2, <1>3, <1>4, <1>5, <1>6, <1>8, <1>9, <1>10, <1>11, <1>12
     DEF TickStep, StopStep, BatchStep, Exit, Crash

\* Every step keeps the service well typed.
LEMMA NextTypes ==
  ASSUME Typed, ServiceAssumption, [Next]_vars
  PROVE  Typed'
<1>t. RowsTyped /\ message \in [Message -> MessageState]
  BY DEF Typed
<1>q. ASSUME RowsTyped', message' \in [Message -> MessageState],
             UNCHANGED <<handler, phase, permits, poller, batch>>
      PROVE  Typed'
  BY <1>q DEF Typed, LocalTyped, BatchTyped, HandlersNamed
<1>1. ASSUME NEW n \in Notification, InsertRow(n) \/ LeaseExpires(n) PROVE Typed'
  <2>1. RowsTyped'
    BY <1>t, <1>1 DEF InsertRow, LeaseExpires, RowsTyped, PushStatus
  <2> QED
    BY <1>t, <1>q, <1>1, <2>1 DEF InsertRow, LeaseExpires, local
<1>2. ASSUME NEW m \in Message, RedeliverLost(m) \/ RedeliverEarly(m) PROVE Typed'
  <2>1. Kept({})
    BY <1>t, <1>2, RequeueKeeps DEF RedeliverLost, RedeliverEarly
  <2> QED
    BY <1>t, <1>q, <1>2, <2>1
       DEF RedeliverLost, RedeliverEarly, Requeued, RowsTyped, Kept, database, local
<1>3. CASE UNCHANGED vars
  BY <1>t, <1>q, <1>3 DEF vars, RowsTyped
<1> QED
  BY <1>1, <1>2, <1>3, CoroutineTypes, InstanceTypes DEF Next, Failure

-----------------------------------------------------------------------------
(* The permits                                                              *)

\* Jobs wait and run only while their tick gathers; threads are detached only
\* after poller.stop() cancelled the last tick of the process.
BatchShape ==
  \A i \in Instance :
    /\ poller[i] # "gather" => batch[i].queued = {} /\ batch[i].running = {}
    /\ batch[i].queued \cap batch[i].running = {}
    /\ batch[i].detached # {} => phase[i] \notin {"up", "down"} /\ poller[i] = "sleep"

\* Every step keeps BatchShape.
LEMMA ShapeInductive ==
  ASSUME Typed, BatchShape, [Next]_vars
  PROVE  BatchShape'
<1>t. batch \in [Instance -> Batch] /\ LocalTyped
  BY DEF Typed, BatchTyped
<1>q. ASSUME UNCHANGED <<phase, poller, batch>> PROVE BatchShape'
  BY <1>q DEF BatchShape
\* A step of the poller of i that leaves its batch alone.
<1>p. ASSUME NEW i \in Instance, UNCHANGED batch,
             \A j \in Instance \ {i} : phase'[j] = phase[j] /\ poller'[j] = poller[j],
             poller'[i] # "gather" => batch[i].queued = {} /\ batch[i].running = {},
             batch[i].detached # {} => phase'[i] \notin {"up", "down"} /\ poller'[i] = "sleep"
      PROVE  BatchShape'
  BY <1>p DEF BatchShape
\* One that changes it.
<1>b. ASSUME NEW i \in Instance, NEW Q, NEW R, NEW D, Sorts(i, Q, R, D),
             \A j \in Instance \ {i} : phase'[j] = phase[j] /\ poller'[j] = poller[j],
             poller'[i] # "gather" => Q = {} /\ R = {}, Q \cap R = {},
             D # {} => phase'[i] \notin {"up", "down"} /\ poller'[i] = "sleep"
      PROVE  BatchShape'
  BY <1>b DEF BatchShape, Sorts
<1>1. ASSUME NEW i \in Instance, NEW m \in Message,
             ReceiveStep(i, m) \/ HandlerStep(i, m) \/ Raise(i, m) \/ RaiseAfterClaim(i, m)
      PROVE  BatchShape'
  BY <1>q, <1>1 DEF ReceiveStep, Receive, ReceiveMalformed, ReceiveUndecodable, HandlerStep, Acquire,
     ClaimWon, ClaimMissed, ReadMiss, JobEnds, Settle, Raise, RaiseAfterClaim, local
<1>2. ASSUME NEW n \in Notification, InsertRow(n) \/ LeaseExpires(n) PROVE BatchShape'
  BY <1>q, <1>2 DEF InsertRow, LeaseExpires, local
<1>3. ASSUME NEW m \in Message, RedeliverLost(m) \/ RedeliverEarly(m) PROVE BatchShape'
  BY <1>q, <1>3 DEF RedeliverLost, RedeliverEarly, Requeued, local
<1>4. ASSUME NEW i \in Instance, TickReclaims(i) PROVE BatchShape'
  BY <1>t, <1>p, <1>4 DEF TickReclaims, LocalTyped, BatchShape
<1>5. ASSUME NEW i \in Instance, NEW S \in SUBSET Pending, TickClaims(i, S) PROVE BatchShape'
  <2>1. Sorts(i, S, batch[i].running, batch[i].detached)
    BY <1>t, <1>5, BatchSorts
  <2>2. /\ poller[i] = "claim" /\ UNCHANGED phase
        /\ poller'[i] = "gather" /\ \A j \in Instance \ {i} : poller'[j] = poller[j]
    BY <1>t, <1>5 DEF TickClaims, LocalTyped
  <2>3. batch[i].running = {} /\ batch[i].detached = {}
    BY <2>2 DEF BatchShape
  <2> QED
    BY <1>b, <2>1, <2>2, <2>3
<1>6. ASSUME NEW i \in Instance, TickFindsNothing(i) PROVE BatchShape'
  BY <1>t, <1>p, <1>6 DEF TickFindsNothing, LocalTyped, BatchShape
<1>7. ASSUME NEW i \in Instance, NEW S, TickFails(i, S) PROVE BatchShape'
  BY <1>t, <1>p, <1>7 DEF TickFails, LocalTyped, BatchShape
<1>8. ASSUME NEW i \in Instance, GatherEnds(i) PROVE BatchShape'
  BY <1>t, <1>p, <1>8 DEF GatherEnds, LocalTyped, BatchShape
<1>9. ASSUME NEW i \in Instance, NEW n \in Notification, BatchJobStarts(i, n) PROVE BatchShape'
  <2>1. Sorts(i, batch[i].queued \ {n}, batch[i].running \cup {n}, batch[i].detached)
    BY <1>t, <1>9, BatchSorts
  <2>2. n \in batch[i].queued /\ UNCHANGED <<phase, poller>>
    BY <1>9 DEF BatchJobStarts
  <2>3. poller[i] = "gather"
    BY <2>2 DEF BatchShape
  <2>4. (batch[i].queued \ {n}) \cap (batch[i].running \cup {n}) = {}
    BY DEF BatchShape
  <2> QED
    BY <1>b, <2>1, <2>2, <2>3, <2>4 DEF BatchShape
<1>10. ASSUME NEW i \in Instance, NEW n \in Notification,
              LeaveBatch(i, n), UNCHANGED <<phase, poller>>
       PROVE  BatchShape'
  <2>1. Sorts(i, batch[i].queued, batch[i].running \ {n}, batch[i].detached \ {n})
    BY <1>t, <1>10, BatchSorts
  <2> QED
    BY <1>b, <1>10, <2>1 DEF BatchShape
<1>11. ASSUME NEW i \in Instance, NEW S, CancelTick(i, S) PROVE BatchShape'
  <2>1. Sorts(i, {}, {}, batch[i].running)
    BY <1>t, <1>11, BatchSorts
  <2>2. /\ phase[i] = "draining" /\ UNCHANGED phase
        /\ poller'[i] = "sleep" /\ \A j \in Instance \ {i} : poller'[j] = poller[j]
    BY <1>t, <1>11 DEF CancelTick, LocalTyped
  <2> QED
    BY <1>b, <2>1, <2>2
<1>12. ASSUME NEW i \in Instance, Shutdown(i) \/ CloseDatabase(i) \/ Start(i) PROVE BatchShape'
  BY <1>t, <1>p, <1>12 DEF Shutdown, CloseDatabase, Start, LocalTyped, BatchShape
<1>13. ASSUME NEW i \in Instance, Gone(i) PROVE BatchShape'
  <2>1. Sorts(i, {}, {}, {})
    BY <1>t, <1>13, BatchSorts
  <2>2. \A j \in Instance \ {i} : phase'[j] = phase[j] /\ poller'[j] = poller[j]
    BY <1>t, <1>13 DEF Gone, LocalTyped
  <2> QED
    BY <1>b, <2>1, <2>2
<1>14. CASE UNCHANGED vars
  BY <1>q, <1>14 DEF vars
<1> QED
  BY <1>1, <1>2, <1>3, <1>4, <1>5, <1>6, <1>7, <1>8, <1>9, <1>10, <1>11, <1>12, <1>13, <1>14
     DEF Next, Failure, TickStep, BatchStep, BatchJobEnds, BatchJobRaises, StopStep, Exit, Crash

\* PermitsConserved speaks of sets that stay finite.
Conserved(i) ==
  /\ IsFiniteSet(Holders(i))
  /\ permits[i] + Cardinality(Holders(i)) + Cardinality(batch[i].running) = MaxConcurrent

PermitsInv == BatchShape /\ \A i \in Instance : Conserved(i)

\* The coroutine that moves joins or leaves the holders of its instance.
LEMMA HoldersMove ==
  ASSUME Typed, NEW i \in Instance, NEW m \in Message, NEW pc \in HandlerPoint, NEW attempt,
         NEW disposition, Moves(i, m, pc, attempt, disposition)
  PROVE  /\ Holders(i)' = IF pc \in WithPermit THEN Holders(i) \cup {m} ELSE Holders(i) \ {m}
         /\ \A j \in Instance \ {i} : Holders(j)' = Holders(j)
BY DEF Moves, Holders

\* An instance whose holders, permits and running jobs stay keeps the count.
LEMMA CountStays ==
  ASSUME NEW i \in Instance, Conserved(i), Holders(i)' = Holders(i), permits'[i] = permits[i],
         batch'[i].running = batch[i].running
  PROVE  Conserved(i)'
BY DEF Conserved

\* A step of a coroutine that keeps its permit, or still has none.
LEMMA CoroutineCounts ==
  ASSUME Typed, ServiceAssumption, \A j \in Instance : Conserved(j),
         NEW i \in Instance, NEW m \in Message,
         ReceiveStep(i, m) \/ HandlerStep(i, m) \/ Raise(i, m) \/ RaiseAfterClaim(i, m)
  PROVE  \A j \in Instance : Conserved(j)'
<1> DEFINE h == handler[i][m]
<1>t. /\ handler \in [Instance -> [Message -> Handler]]
      /\ permits \in [Instance -> Nat]
      /\ \A j \in Instance : IsFiniteSet(batch[j].running)
  BY DEF Typed, LocalTyped, BatchTyped
<1>c. /\ IsFiniteSet(Holders(i)) /\ Cardinality(Holders(i)) \in Nat
      /\ Cardinality(batch[i].running) \in Nat /\ permits[i] \in Nat
      /\ permits[i] + Cardinality(Holders(i)) + Cardinality(batch[i].running) = MaxConcurrent
      /\ MaxConcurrent \in Nat
  BY <1>t, FS_CardinalityType DEF Conserved, ServiceAssumption
<1>q. ASSUME NEW pc \in HandlerPoint, NEW attempt, NEW disposition,
             Moves(i, m, pc, attempt, disposition),
             pc \in WithPermit <=> h.pc \in WithPermit, UNCHANGED <<permits, batch>>
      PROVE  \A j \in Instance : Conserved(j)'
  <2>1. /\ Holders(i)' = IF pc \in WithPermit THEN Holders(i) \cup {m} ELSE Holders(i) \ {m}
        /\ \A j \in Instance \ {i} : Holders(j)' = Holders(j)
    BY <1>q, HoldersMove
  <2>2. m \in Holders(i) <=> pc \in WithPermit
    BY <1>q DEF Holders
  <2>3. \A j \in Instance : Holders(j)' = Holders(j)
    BY <2>1, <2>2
  <2> QED
    BY <1>q, <2>3, CountStays
<1>1. CASE Receive(i, m)
  <2>1. Moves(i, m, "waiting", Delivered(i, m).attempt, "none")
    BY <1>1, CoroutineMoves
  <2>2. h.pc = "none" /\ UNCHANGED <<permits, batch>>
    BY <1>1 DEF Receive, HandOver, local
  <2> QED
    BY <1>q, <2>1, <2>2 DEF WithPermit, HandlerPoint
<1>2. CASE ReceiveMalformed(i, m) \/ ReceiveUndecodable(i, m)
  <2>1. UNCHANGED <<handler, permits, batch>>
    BY <1>2 DEF ReceiveMalformed, ReceiveUndecodable, local
  <2> QED
    BY <2>1, CountStays DEF Holders
<1>3. CASE Acquire(i, m)
  <2>1. Moves(i, m, "claim", h.attempt, h.disposition)
    BY <1>3, CoroutineMoves
  <2>2. /\ h.pc = "waiting" /\ permits[i] > 0 /\ permits' = [permits EXCEPT ![i] = @ - 1]
        /\ UNCHANGED batch
    BY <1>3 DEF Acquire
  <2>3. Holders(i)' = Holders(i) \cup {m} /\ \A j \in Instance \ {i} : Holders(j)' = Holders(j)
    BY <2>1, HoldersMove DEF WithPermit, HandlerPoint
  <2>4. m \notin Holders(i)
    BY <2>2 DEF Holders, WithPermit
  <2>5. /\ IsFiniteSet(Holders(i) \cup {m})
        /\ Cardinality(Holders(i) \cup {m}) = Cardinality(Holders(i)) + 1
    BY <1>c, <2>4, FS_AddElement
  <2>6. permits'[i] = permits[i] - 1 /\ \A j \in Instance \ {i} : permits'[j] = permits[j]
    BY <1>t, <2>2
  <2>7. Conserved(i)'
    BY <1>c, <2>2, <2>3, <2>5, <2>6 DEF Conserved
  <2>8. \A j \in Instance \ {i} : Conserved(j)'
    BY <2>2, <2>3, <2>6, CountStays
  <2> QED
    BY <2>7, <2>8
<1>4. CASE ClaimWon(i, m) \/ ClaimMissed(i, m)
  <2>1. \E pc \in {"job", "missed"} : Moves(i, m, pc, h.attempt, h.disposition)
    BY <1>4, CoroutineMoves
  <2>2. h.pc = "claim" /\ UNCHANGED <<permits, batch>>
    BY <1>4 DEF ClaimWon, ClaimMissed, local
  <2> QED
    BY <1>q, <2>1, <2>2 DEF WithPermit, HandlerPoint
<1>5. CASE ReadMiss(i, m) \/ (\E s \in Terminal : JobEnds(i, m, s)) \/ Raise(i, m) \/ RaiseAfterClaim(i, m)
  <2>1. \E d : Moves(i, m, "settle", h.attempt, d)
    BY <1>5, CoroutineMoves
  <2>2. h.pc \in {"claim", "missed", "job"} /\ UNCHANGED <<permits, batch>>
    BY <1>5 DEF ReadMiss, JobEnds, Raise, RaiseAfterClaim, local
  <2> QED
    BY <1>q, <2>1, <2>2 DEF WithPermit, HandlerPoint
<1>6. CASE Settle(i, m)
  <2>1. Moves(i, m, "none", 0, "none")
    BY <1>6, CoroutineMoves
  <2>2. /\ h.pc = "settle" /\ permits' = [permits EXCEPT ![i] = @ + 1]
        /\ UNCHANGED batch
    BY <1>6 DEF Settle
  <2>3. Holders(i)' = Holders(i) \ {m} /\ \A j \in Instance \ {i} : Holders(j)' = Holders(j)
    BY <2>1, HoldersMove DEF WithPermit, HandlerPoint
  <2>4. m \in Holders(i)
    BY <2>2 DEF Holders, WithPermit, HandlerPoint
  <2>5. /\ IsFiniteSet(Holders(i) \ {m})
        /\ Cardinality(Holders(i) \ {m}) = Cardinality(Holders(i)) - 1
    BY <1>c, <2>4, FS_RemoveElement
  <2>6. permits'[i] = permits[i] + 1 /\ \A j \in Instance \ {i} : permits'[j] = permits[j]
    BY <1>t, <2>2
  <2>7. Conserved(i)'
    BY <1>c, <2>2, <2>3, <2>5, <2>6 DEF Conserved
  <2>8. \A j \in Instance \ {i} : Conserved(j)'
    BY <2>2, <2>3, <2>6, CountStays
  <2> QED
    BY <2>7, <2>8
<1> QED
  BY <1>1, <1>2, <1>3, <1>4, <1>5, <1>6 DEF ReceiveStep, HandlerStep

\* A job of the batch takes a permit when it starts, and returns it once.
LEMMA BatchCounts ==
  ASSUME Typed, ServiceAssumption, PermitsInv, NEW i \in Instance,
         \/ \E n \in Notification : BatchJobStarts(i, n)
         \/ \E n \in Notification : LeaveBatch(i, n) /\ UNCHANGED handler
         \/ \E S : CancelTick(i, S)
         \/ Gone(i)
  PROVE  \A j \in Instance : Conserved(j)'
<1> DEFINE R == batch[i].running
<1>t. /\ batch \in [Instance -> Batch] /\ handler \in [Instance -> [Message -> Handler]]
      /\ permits \in [Instance -> Nat] /\ IsFiniteSet(R)
  BY DEF Typed, LocalTyped, BatchTyped
<1>c. /\ IsFiniteSet(Holders(i)) /\ Cardinality(Holders(i)) \in Nat
      /\ Cardinality(R) \in Nat /\ permits[i] \in Nat
      /\ permits[i] + Cardinality(Holders(i)) + Cardinality(R) = MaxConcurrent
      /\ MaxConcurrent \in Nat
  BY <1>t, FS_CardinalityType DEF PermitsInv, Conserved, ServiceAssumption
\* The other instances.
<1>o. ASSUME NEW Q, NEW S, NEW D, Sorts(i, Q, S, D),
             \A j \in Instance \ {i} : handler'[j] = handler[j] /\ permits'[j] = permits[j]
      PROVE  \A j \in Instance \ {i} : Conserved(j)'
  <2>1. \A j \in Instance \ {i} : Holders(j)' = Holders(j) /\ batch'[j] = batch[j]
    BY <1>o DEF Holders, Sorts
  <2> QED
    BY <1>o, <2>1, CountStays DEF PermitsInv
<1>1. ASSUME NEW n \in Notification, BatchJobStarts(i, n) PROVE \A j \in Instance : Conserved(j)'
  <2>1. Sorts(i, batch[i].queued \ {n}, R \cup {n}, batch[i].detached)
    BY <1>t, <1>1, BatchSorts
  <2>2. /\ n \in batch[i].queued /\ permits[i] > 0
        /\ permits' = [permits EXCEPT ![i] = @ - 1] /\ UNCHANGED handler
    BY <1>1 DEF BatchJobStarts
  <2>3. n \notin R
    BY <2>2 DEF PermitsInv, BatchShape
  <2>4. Cardinality(R \cup {n}) = Cardinality(R) + 1
    BY <1>t, <2>3, FS_AddElement
  <2>5. permits'[i] = permits[i] - 1 /\ \A j \in Instance \ {i} : permits'[j] = permits[j]
    BY <1>t, <2>2
  <2>6. batch'[i].running = R \cup {n}
    BY <2>1 DEF Sorts
  <2>7. Holders(i)' = Holders(i)
    BY <2>2 DEF Holders
  <2>8. Conserved(i)'
    BY <1>c, <2>4, <2>5, <2>6, <2>7 DEF Conserved
  <2> QED
    BY <1>o, <2>1, <2>2, <2>5, <2>8
<1>2. ASSUME NEW n \in Notification, LeaveBatch(i, n), UNCHANGED handler
      PROVE  \A j \in Instance : Conserved(j)'
  <2>1. Sorts(i, batch[i].queued, R \ {n}, batch[i].detached \ {n})
    BY <1>t, <1>2, BatchSorts
  <2>2. Cardinality(R \ {n}) = IF n \in R THEN Cardinality(R) - 1 ELSE Cardinality(R)
    BY <1>t, FS_RemoveElement
  <2>3. /\ permits'[i] = IF n \in R THEN permits[i] + 1 ELSE permits[i]
        /\ \A j \in Instance \ {i} : permits'[j] = permits[j]
    BY <1>t, <1>2 DEF LeaveBatch
  <2>4. batch'[i].running = R \ {n}
    BY <2>1 DEF Sorts
  <2>5. Holders(i)' = Holders(i)
    BY <1>2 DEF Holders
  <2>6. Conserved(i)'
    BY <1>c, <2>2, <2>3, <2>4, <2>5 DEF Conserved
  <2> QED
    BY <1>2, <1>o, <2>1, <2>3, <2>6
<1>3. ASSUME NEW S, CancelTick(i, S) PROVE \A j \in Instance : Conserved(j)'
  <2>1. Sorts(i, {}, {}, R)
    BY <1>t, <1>3, BatchSorts
  <2>2. permits' = [permits EXCEPT ![i] = @ + Cardinality(R)] /\ UNCHANGED handler
    BY <1>3 DEF CancelTick
  <2>3. permits'[i] = permits[i] + Cardinality(R)
        /\ \A j \in Instance \ {i} : permits'[j] = permits[j]
    BY <1>t, <2>2
  <2>4. batch'[i].running = {} /\ Cardinality({}) = 0
    BY <2>1, FS_EmptySet DEF Sorts
  <2>5. Holders(i)' = Holders(i)
    BY <2>2 DEF Holders
  <2>6. Conserved(i)'
    BY <1>c, <2>3, <2>4, <2>5 DEF Conserved
  <2> QED
    BY <1>o, <2>1, <2>2, <2>3, <2>6
<1>4. ASSUME Gone(i) PROVE \A j \in Instance : Conserved(j)'
  <2>1. Sorts(i, {}, {}, {})
    BY <1>t, <1>4, BatchSorts
  <2>2. permits'[i] = MaxConcurrent /\ \A j \in Instance \ {i} : permits'[j] = permits[j]
    BY <1>t, <1>4 DEF Gone
  <2>3. /\ \A m \in Message : handler'[i][m].pc = "none"
        /\ \A j \in Instance \ {i} : handler'[j] = handler[j]
    BY <1>t, <1>4, GoneMoves
  <2>4. Holders(i)' = {}
    BY <2>3 DEF Holders, WithPermit
  <2>5. batch'[i].running = {} /\ Cardinality({}) = 0 /\ IsFiniteSet({})
    BY <2>1, FS_EmptySet DEF Sorts
  <2>6. Conserved(i)'
    BY <1>c, <2>2, <2>4, <2>5 DEF Conserved
  <2> QED
    BY <1>o, <2>1, <2>2, <2>3, <2>6
<1> QED
  BY <1>1, <1>2, <1>3, <1>4

\* Every step keeps PermitsInv.
LEMMA PermitsInductive ==
  ASSUME Typed, ServiceAssumption, PermitsInv, [Next]_vars
  PROVE  PermitsInv'
<1>1. BatchShape'
  BY ShapeInductive DEF PermitsInv
<1>t. batch \in [Instance -> Batch]
  BY DEF Typed, BatchTyped
<1>q. ASSUME UNCHANGED <<handler, permits>>,
             \A j \in Instance : batch'[j].running = batch[j].running
      PROVE  \A j \in Instance : Conserved(j)'
  BY <1>q, CountStays DEF PermitsInv, Holders
<1>2. ASSUME UNCHANGED <<handler, permits, batch>> PROVE \A j \in Instance : Conserved(j)'
  BY <1>2, <1>q
<1>3. ASSUME NEW i \in Instance, NEW m \in Message,
             ReceiveStep(i, m) \/ HandlerStep(i, m) \/ Raise(i, m) \/ RaiseAfterClaim(i, m)
      PROVE  \A j \in Instance : Conserved(j)'
  BY <1>3, CoroutineCounts DEF PermitsInv
<1>4. ASSUME NEW n \in Notification, InsertRow(n) \/ LeaseExpires(n)
      PROVE  \A j \in Instance : Conserved(j)'
  BY <1>2, <1>4 DEF InsertRow, LeaseExpires, local
<1>5. ASSUME NEW m \in Message, RedeliverLost(m) \/ RedeliverEarly(m)
      PROVE  \A j \in Instance : Conserved(j)'
  BY <1>2, <1>5 DEF RedeliverLost, RedeliverEarly, Requeued, local
<1>6. ASSUME NEW i \in Instance, NEW S \in SUBSET Pending, TickClaims(i, S)
      PROVE  \A j \in Instance : Conserved(j)'
  <2>1. Sorts(i, S, batch[i].running, batch[i].detached)
    BY <1>t, <1>6, BatchSorts
  <2>2. \A j \in Instance : batch'[j].running = batch[j].running
    BY <2>1 DEF Sorts
  <2> QED
    BY <1>6, <1>q, <2>2 DEF TickClaims
<1>7. ASSUME NEW i \in Instance,
             \/ TickReclaims(i) \/ TickFindsNothing(i) \/ GatherEnds(i)
             \/ Shutdown(i) \/ CloseDatabase(i) \/ Start(i)
             \/ \E S \in SUBSET Pending : TickFails(i, S)
      PROVE  \A j \in Instance : Conserved(j)'
  BY <1>2, <1>7
     DEF TickReclaims, TickFindsNothing, GatherEnds, Shutdown, CloseDatabase, Start, TickFails
<1>8. ASSUME NEW i \in Instance,
             \/ \E n \in Notification : BatchStep(i, n) \/ BatchJobRaises(i, n)
             \/ \E S \in SUBSET Pending : CancelTick(i, S)
             \/ Exit(i) \/ Crash(i)
      PROVE  \A j \in Instance : Conserved(j)'
  BY <1>8, BatchCounts DEF BatchStep, BatchJobEnds, BatchJobRaises, Exit, Crash
<1>9. ASSUME UNCHANGED vars PROVE \A j \in Instance : Conserved(j)'
  BY <1>2, <1>9 DEF vars
<1>10. \A j \in Instance : Conserved(j)'
  BY <1>3, <1>4, <1>5, <1>6, <1>7, <1>8, <1>9 DEF Next, Failure, TickStep, StopStep
<1> QED
  BY <1>1, <1>10 DEF PermitsInv

\* The service starts well typed, with all its permits.
LEMMA InitTyped == ServiceAssumption /\ Init => Typed /\ PermitsInv
<1> SUFFICES ASSUME ServiceAssumption, Init PROVE Typed /\ PermitsInv
  OBVIOUS
<1>1. /\ NoHandler \in Handler /\ NoHandler.pc = "none"
      /\ NoBatch \in Batch /\ NoBatch.queued = {} /\ NoBatch.running = {} /\ NoBatch.detached = {}
  BY DEF NoHandler, Handler, HandlerPoint, ServiceAssumption, NoBatch, Batch
<1>2. IsFiniteSet({}) /\ Cardinality({}) = 0
  BY FS_EmptySet
<1>3. RowsTyped
  BY DEF Init, RowsTyped, PushStatus
<1>4. message \in [Message -> MessageState]
  BY DEF Init, MessageState, ServiceAssumption
<1>5. LocalTyped
  BY DEF Init, LocalTyped, ServiceAssumption
<1>6. BatchTyped
  BY <1>1, <1>2 DEF Init, BatchTyped
<1>7. handler \in [Instance -> [Message -> Handler]] /\ HandlersNamed
  BY <1>1 DEF Init, HandlersNamed
<1>8. BatchShape
  BY <1>1 DEF Init, BatchShape
<1>9. ASSUME NEW i \in Instance PROVE Conserved(i)
  <2>1. Holders(i) = {}
    BY <1>1 DEF Init, Holders, WithPermit
  <2>2. batch[i].running = {} /\ permits[i] = MaxConcurrent /\ MaxConcurrent \in Nat
    BY <1>1 DEF Init, ServiceAssumption
  <2> QED
    BY <1>2, <2>1, <2>2 DEF Conserved
<1> QED
  BY <1>3, <1>4, <1>5, <1>6, <1>7, <1>8, <1>9 DEF Typed, PermitsInv

\* Types and PermitsInv always hold.
LEMMA AlwaysPermitsInv == Spec => [](Typed /\ PermitsInv)
<1>1. Init => Typed /\ PermitsInv
  BY InitTyped, ServiceAssumption
<1>2. Typed /\ PermitsInv /\ [Next]_vars => (Typed /\ PermitsInv)'
  BY NextTypes, PermitsInductive, ServiceAssumption
<1> QED
  BY <1>1, <1>2, PTL DEF Spec

\* The semaphore of an instance loses no permit and gets none too many: each is
\* free, with a coroutine between acquire and settle, or with a running job of
\* the batch, through failures, cancelled ticks and restarts too.
THEOREM NoPermitLost == Spec => []PermitsConserved
<1>1. PermitsInv => PermitsConserved
  BY DEF PermitsInv, Conserved, PermitsConserved
<1> QED
  BY <1>1, AlwaysPermitsInv, PTL

\* The variables keep their types; that permits never exceed MaxConcurrent
\* follows from their conservation.
THEOREM ServiceTypes == Spec => []TypeOK
<1>1. Typed /\ PermitsInv => TypeOK
  <2> SUFFICES ASSUME Typed, PermitsInv PROVE TypeOK
    OBVIOUS
  <2>1. permits \in [Instance -> 0 .. MaxConcurrent]
    <3>1. permits \in [Instance -> Nat]
      BY DEF Typed, LocalTyped
    <3>2. ASSUME NEW i \in Instance PROVE permits[i] \in 0 .. MaxConcurrent
      <4>1. Cardinality(Holders(i)) \in Nat /\ Cardinality(batch[i].running) \in Nat
        BY FS_CardinalityType DEF Typed, BatchTyped, PermitsInv, Conserved
      <4>2. permits[i] + Cardinality(Holders(i)) + Cardinality(batch[i].running) = MaxConcurrent
        BY DEF PermitsInv, Conserved
      <4> QED
        BY <3>1, <4>1, <4>2
    <3> QED
      BY <3>1, <3>2
  <2> QED
    BY <2>1 DEF Typed, RowsTyped, MessageState, LocalTyped, BatchTyped, Batch, TypeOK
<1> QED
  BY <1>1, AlwaysPermitsInv, PTL

-----------------------------------------------------------------------------
(* The acks                                                                 *)

\* Whoever finalizes a row, or finds it taken, follows a claim of it.
RowsClaimed ==
  \A n \in Notification : push_status[n] \in {"processing"} \cup Terminal => n \in claimed

JobsClaimed ==
  \A i \in Instance : batch[i].queued \cup batch[i].running \cup batch[i].detached \subseteq claimed

\* What a coroutine has in hand, or is going to ack, was claimed; and the
\* attempt it remembers is not beyond the one Pub/Sub counts.
Sound(i, m) ==
  handler[i][m].pc # "none" =>
    /\ handler[i][m].attempt <= message[m].attempt
    /\ handler[i][m].pc = "job" \/ handler[i][m].disposition \in AckDisposition
         => Payload[m] \in claimed

\* NoEarlyAck with what leads to an ack.
AckInv ==
  /\ RowsClaimed
  /\ JobsClaimed
  /\ \A i \in Instance, m \in Message : Sound(i, m)
  /\ NoEarlyAck

\* A step that forgets no claim, and acks only what was claimed or given up.
LEMMA AcksKeep ==
  ASSUME Typed, Typed', ServiceAssumption, AckInv, claimed \subseteq claimed',
         NEW acked, Kept(acked), RowsClaimed', JobsClaimed',
         \A m \in acked : Payload[m] \in Notification /\ message'[m].attempt < MaxAttempts
                            => Payload[m] \in claimed',
         \A i \in Instance, m \in Message :
           handler'[i][m] = handler[i][m] \/ handler'[i][m].pc = "none" \/ Sound(i, m)'
  PROVE  AckInv'
<1>1. /\ \A m \in Message : message[m].attempt \in 0 .. MaxAttempts
                            /\ message'[m].attempt \in 0 .. MaxAttempts
      /\ \A i \in Instance, m \in Message : handler[i][m].attempt \in 0 .. MaxAttempts
      /\ MaxAttempts \in Nat
  BY DEF Typed, MessageState, Handler, ServiceAssumption
<1>2. ASSUME NEW m \in Message, message'[m].state = "acked", Payload[m] \in Notification,
             message'[m].attempt < MaxAttempts
      PROVE  Payload[m] \in claimed'
  <2>1. CASE m \in acked
    BY <1>2, <2>1
  <2>2. CASE m \notin acked
    <3>1. message[m].state = "acked" /\ message'[m].attempt >= message[m].attempt
      BY <1>2, <2>2 DEF Kept
    <3>2. message[m].attempt < MaxAttempts
      BY <1>1, <1>2, <3>1
    <3> QED
      BY <1>2, <3>1, <3>2 DEF AckInv, NoEarlyAck
  <2> QED
    BY <2>1, <2>2
<1>3. ASSUME NEW i \in Instance, NEW m \in Message, handler'[i][m] = handler[i][m]
      PROVE  Sound(i, m)'
  <2>1. message'[m].attempt >= message[m].attempt
    BY DEF Kept
  <2> QED
    BY <1>1, <1>3, <2>1 DEF AckInv, Sound
<1>4. \A i \in Instance, m \in Message : Sound(i, m)'
  BY <1>3 DEF Sound
<1>5. NoEarlyAck'
  BY <1>2 DEF NoEarlyAck
<1> QED
  BY <1>4, <1>5 DEF AckInv

\* Rows that are taken count as claimed.
LEMMA TakeRowsClaims ==
  ASSUME AckInv, NEW S, TakeRows(S)
  PROVE  claimed \subseteq claimed' /\ S \subseteq claimed' /\ RowsClaimed'
BY DEF TakeRows, AckInv, RowsClaimed

\* A verdict is of a claimed row.
LEMMA FinalizeRowClaims ==
  ASSUME Typed, AckInv, NEW n \in claimed, NEW s, FinalizeRow(n, s)
  PROVE  claimed \subseteq claimed' /\ RowsClaimed'
BY DEF FinalizeRow, Typed, RowsTyped, AckInv, RowsClaimed

\* The steps of a coroutine.
LEMMA CoroutineAcks ==
  ASSUME Typed, Typed', ServiceAssumption, AckInv, NEW i \in Instance, NEW m \in Message,
         ReceiveStep(i, m) \/ HandlerStep(i, m) \/ Raise(i, m) \/ RaiseAfterClaim(i, m)
  PROVE  AckInv'
<1> DEFINE h == handler[i][m]
<1>t. /\ message \in [Message -> MessageState] /\ message[m].attempt \in 0 .. MaxAttempts
      /\ h.attempt \in 0 .. MaxAttempts /\ MaxAttempts \in Nat
      /\ h.pc # "none" => Payload[m] \in Notification
  BY DEF Typed, HandlersNamed, MessageState, Handler, ServiceAssumption
<1>s. RowsClaimed /\ JobsClaimed /\ Sound(i, m)
  BY DEF AckInv
\* The coroutine keeps its message, and what it is going to say is sound.
<1>q. ASSUME claimed \subseteq claimed', RowsClaimed', UNCHANGED <<message, batch>>,
             NEW pc, NEW d, Moves(i, m, pc, h.attempt, d), h.pc # "none",
             pc = "job" \/ d \in AckDisposition => Payload[m] \in claimed'
      PROVE  AckInv'
  <2>1. Kept({})
    BY <1>t, <1>q, NoDelivery
  <2>2. JobsClaimed'
    BY <1>s, <1>q DEF JobsClaimed
  <2>3. Sound(i, m)'
    BY <1>s, <1>q DEF Moves, Sound
  <2>4. \A j \in Instance, k \in Message : handler'[j][k] = handler[j][k] \/ Sound(j, k)'
    BY <1>q, <2>3 DEF Moves
  <2> QED
    BY <1>q, <2>1, <2>2, <2>4, AcksKeep
<1>1. CASE Receive(i, m)
  <2>1. Moves(i, m, "waiting", Delivered(i, m).attempt, "none")
    BY <1>1, CoroutineMoves
  <2>2. Kept({})
    BY <1>t, <1>1, DeliveryKeeps
  <2>3. /\ message'[m] = Delivered(i, m)
        /\ UNCHANGED <<push_status, claimed, batch>>
    BY <1>t, <1>1 DEF Receive, database, local
  <2>4. message'[m].attempt \in 0 .. MaxAttempts
    BY DEF Typed, MessageState
  <2>5. Sound(i, m)'
    BY <1>t, <2>1, <2>3, <2>4 DEF Moves, Sound, AckDisposition
  <2>6. \A j \in Instance, k \in Message : handler'[j][k] = handler[j][k] \/ Sound(j, k)'
    BY <2>1, <2>5 DEF Moves
  <2>7. RowsClaimed' /\ JobsClaimed'
    BY <1>s, <2>3 DEF RowsClaimed, JobsClaimed
  <2> QED
    BY <2>2, <2>3, <2>6, <2>7, AcksKeep
<1>2. CASE ReceiveMalformed(i, m) \/ ReceiveUndecodable(i, m)
  <2>1. PICK acked \in SUBSET {m} : Kept(acked)
    BY <1>t, <1>2, DeliveryKeeps
  <2>2. Payload[m] \notin Notification
    BY <1>2 DEF ReceiveMalformed, ReceiveUndecodable, ServiceAssumption
  <2>3. UNCHANGED <<push_status, claimed, handler, batch>>
    BY <1>2 DEF ReceiveMalformed, ReceiveUndecodable, database, local
  <2>4. RowsClaimed' /\ JobsClaimed'
    BY <1>s, <2>3 DEF RowsClaimed, JobsClaimed
  <2> QED
    BY <2>1, <2>2, <2>3, <2>4, AcksKeep
\* Steps that leave the rows and the claims alone.
<1>r. ASSUME UNCHANGED <<database, message, batch>>, h.pc # "none",
             NEW pc, pc # "job", NEW d, Moves(i, m, pc, h.attempt, d),
             d = h.disposition \/ (d \in AckDisposition => Payload[m] \in claimed)
      PROVE  AckInv'
  <2>1. claimed \subseteq claimed' /\ RowsClaimed'
    BY <1>s, <1>r DEF database, RowsClaimed
  <2>2. d \in AckDisposition => Payload[m] \in claimed'
    BY <1>s, <1>r, <2>1 DEF Sound
  <2> QED
    BY <1>q, <1>r, <2>1, <2>2
<1>3. CASE Acquire(i, m)
  BY <1>r, <1>3, CoroutineMoves DEF Acquire
<1>4. CASE ClaimWon(i, m)
  <2>1. Moves(i, m, "job", h.attempt, h.disposition)
    BY <1>4, CoroutineMoves
  <2>2. claimed \subseteq claimed' /\ Payload[m] \in claimed' /\ RowsClaimed'
    BY <1>4, TakeRowsClaims DEF ClaimWon
  <2> QED
    BY <1>4, <1>q, <2>1, <2>2 DEF ClaimWon, local
<1>5. CASE ClaimMissed(i, m)
  BY <1>r, <1>5, CoroutineMoves DEF ClaimMissed, local
<1>6. CASE ReadMiss(i, m)
  <2> DEFINE d == MissDisposition(push_status[Payload[m]])
  <2>1. Moves(i, m, "settle", h.attempt, d)
    BY <1>6, CoroutineMoves
  <2>2. Payload[m] \in Notification
    BY <1>t, <1>6 DEF ReadMiss
  <2>3. push_status[Payload[m]] \in PushStatus
    BY <2>2 DEF Typed, RowsTyped
  <2>4. d \in AckDisposition => push_status[Payload[m]] \in {"processing"} \cup Terminal
    BY <2>3 DEF MissDisposition, AckDisposition, PushStatus, Terminal
  <2>5. d \in AckDisposition => Payload[m] \in claimed
    BY <1>s, <2>2, <2>4 DEF RowsClaimed
  <2> HIDE DEF d
  <2> QED
    BY <1>6, <1>r, <2>1, <2>5 DEF ReadMiss, local
<1>7. ASSUME NEW s \in Terminal, JobEnds(i, m, s) PROVE AckInv'
  <2>1. Moves(i, m, "settle", h.attempt, "ack_processed") /\ h.pc = "job"
        /\ FinalizeRow(Payload[m], s) /\ UNCHANGED <<message, batch>>
    BY <1>7, CoroutineMoves DEF JobEnds, local
  <2>2. Payload[m] \in claimed
    BY <1>s, <2>1 DEF Sound
  <2>3. claimed \subseteq claimed' /\ RowsClaimed'
    BY <2>1, <2>2, FinalizeRowClaims
  <2> QED
    BY <1>q, <2>1, <2>2, <2>3
\* The ack of a processed or finished row, or of the last attempt.
<1>8. CASE Settle(i, m)
  <2> DEFINE ack == h.disposition \in AckDisposition \/ AttemptsExhausted(h.attempt)
  <2>1. h.pc = "settle" /\ Answer(i, m, ack) /\ UNCHANGED <<push_status, claimed, batch>>
    BY <1>8 DEF Settle, database
  <2>2. Moves(i, m, "none", 0, "none")
    BY <1>8, CoroutineMoves
  <2>3. IF ack THEN Kept({m}) ELSE Kept({})
    <3>1. ASSUME ack PROVE Kept({m})
      <4>1. ack = TRUE
        BY <3>1
      <4>2. Answer(i, m, TRUE)
        BY <2>1, <4>1
      <4> QED
        BY <1>t, <4>2, AnswerKeeps
    <3>2. ASSUME ~ack PROVE Kept({})
      <4>1. ack = FALSE
        BY <3>2
      <4>2. Answer(i, m, FALSE)
        BY <2>1, <4>1
      <4> QED
        BY <1>t, <4>2, AnswerKeeps
    <3> QED
      BY <3>1, <3>2
  <2>4. Kept({m})
    BY <2>3 DEF Kept
  <2>5. ack /\ message'[m].attempt < MaxAttempts => Payload[m] \in claimed'
    <3> SUFFICES ASSUME ack, message'[m].attempt < MaxAttempts PROVE Payload[m] \in claimed'
      OBVIOUS
    <3>1. message'[m].attempt \in 0 .. MaxAttempts
      BY DEF Typed, MessageState
    <3>2. h.attempt <= message[m].attempt /\ message'[m].attempt >= message[m].attempt
      BY <1>s, <2>1, <2>4 DEF Sound, Kept
    <3>3. ~AttemptsExhausted(h.attempt)
      BY <1>t, <3>1, <3>2 DEF AttemptsExhausted
    <3> QED
      BY <1>s, <2>1, <3>3 DEF Sound
  <2>6. PICK acked \in SUBSET {m} : Kept(acked) /\ (m \in acked => ack)
    <3>1. CASE ack
      BY <2>3, <3>1
    <3>2. CASE ~ack
      BY <2>3, <3>2
    <3> QED
      BY <3>1, <3>2
  <2>7. \A j \in Instance, k \in Message :
          handler'[j][k] = handler[j][k] \/ handler'[j][k].pc = "none"
    BY <2>2 DEF Moves
  <2>8. RowsClaimed' /\ JobsClaimed' /\ claimed \subseteq claimed'
    BY <1>s, <2>1 DEF RowsClaimed, JobsClaimed
  <2> HIDE DEF ack
  <2> QED
    BY <2>5, <2>6, <2>7, <2>8, AcksKeep
<1>9. CASE Raise(i, m)
  BY <1>r, <1>9, CoroutineMoves DEF Raise, local, AckDisposition
<1>10. CASE RaiseAfterClaim(i, m)
  <2>1. Moves(i, m, "settle", h.attempt, "nack_error")
    BY <1>10, CoroutineMoves
  <2>2. claimed \subseteq claimed' /\ RowsClaimed'
    BY <1>10, TakeRowsClaims DEF RaiseAfterClaim
  <2> QED
    BY <1>10, <1>q, <2>1, <2>2 DEF RaiseAfterClaim, local, AckDisposition
<1> QED
  BY <1>1, <1>2, <1>3, <1>4, <1>5, <1>6, <1>7, <1>8, <1>9, <1>10 DEF ReceiveStep, HandlerStep

\* The steps of an instance, of Pub/Sub and of the rows.
LEMMA AckInductive ==
  ASSUME Typed, ServiceAssumption, AckInv, [Next]_vars
  PROVE  AckInv'
<1>n. Typed'
  BY NextTypes
<1>t. batch \in [Instance -> Batch] /\ message \in [Message -> MessageState]
      /\ handler \in [Instance -> [Message -> Handler]]
  BY DEF Typed, BatchTyped
<1>s. RowsClaimed /\ JobsClaimed
  BY DEF AckInv
\* Messages and coroutines are untouched.
<1>q. ASSUME UNCHANGED <<message, handler>>, claimed \subseteq claimed', RowsClaimed', JobsClaimed'
      PROVE  AckInv'
  <2>1. Kept({})
    BY <1>t, <1>q, NoDelivery
  <2> QED
    BY <1>n, <1>q, <2>1, AcksKeep
<1>b. ASSUME NEW i \in Instance, NEW Q, NEW R, NEW D, Sorts(i, Q, R, D),
             Q \cup R \cup D \subseteq claimed', claimed \subseteq claimed'
      PROVE  JobsClaimed'
  BY <1>s, <1>b DEF Sorts, JobsClaimed
<1>1. ASSUME NEW i \in Instance, NEW m \in Message,
             ReceiveStep(i, m) \/ HandlerStep(i, m) \/ Raise(i, m) \/ RaiseAfterClaim(i, m)
      PROVE  AckInv'
  BY <1>n, <1>1, CoroutineAcks
<1>2. ASSUME NEW n \in Notification, InsertRow(n) \/ LeaseExpires(n) PROVE AckInv'
  <2>1. RowsClaimed'
    BY <1>s, <1>2 DEF InsertRow, LeaseExpires, RowsClaimed, Terminal, Typed, RowsTyped
  <2> QED
    BY <1>s, <1>q, <1>2, <2>1 DEF InsertRow, LeaseExpires, local, JobsClaimed
<1>3. ASSUME NEW m \in Message, RedeliverLost(m) \/ RedeliverEarly(m) PROVE AckInv'
  <2>1. Kept({})
    BY <1>t, <1>3, RequeueKeeps DEF RedeliverLost, RedeliverEarly
  <2>2. UNCHANGED <<push_status, claimed, handler, batch>>
    BY <1>3 DEF RedeliverLost, RedeliverEarly, Requeued, database, local
  <2>3. RowsClaimed' /\ JobsClaimed'
    BY <1>s, <2>2 DEF RowsClaimed, JobsClaimed
  <2> QED
    BY <1>n, <2>1, <2>2, <2>3, AcksKeep
<1>4. ASSUME NEW i \in Instance, TickReclaims(i) PROVE AckInv'
  <2>1. RowsClaimed'
    BY <1>s, <1>4 DEF TickReclaims, RowsClaimed, Terminal
  <2> QED
    BY <1>s, <1>q, <1>4, <2>1 DEF TickReclaims, JobsClaimed
<1>5. ASSUME NEW i \in Instance, NEW S \in SUBSET Pending, TickClaims(i, S) PROVE AckInv'
  <2>1. Sorts(i, S, batch[i].running, batch[i].detached)
    BY <1>t, <1>5, BatchSorts
  <2>2. claimed \subseteq claimed' /\ S \subseteq claimed' /\ RowsClaimed'
    BY <1>5, TakeRowsClaims DEF TickClaims
  <2>3. batch[i].running \cup batch[i].detached \subseteq claimed
    BY <1>s DEF JobsClaimed
  <2>4. JobsClaimed'
    BY <1>b, <2>1, <2>2, <2>3
  <2> QED
    BY <1>q, <1>5, <2>2, <2>4 DEF TickClaims
<1>6. ASSUME NEW i \in Instance, NEW S \in SUBSET Pending, TickFails(i, S) PROVE AckInv'
  <2>1. claimed \subseteq claimed' /\ RowsClaimed'
    BY <1>6, TakeRowsClaims DEF TickFails
  <2> QED
    BY <1>s, <1>q, <1>6, <2>1 DEF TickFails, JobsClaimed
<1>7. ASSUME NEW i \in Instance, NEW n \in Notification, BatchJobStarts(i, n) PROVE AckInv'
  <2>1. Sorts(i, batch[i].queued \ {n}, batch[i].running \cup {n}, batch[i].detached)
    BY <1>t, <1>7, BatchSorts
  <2>2. n \in batch[i].queued /\ UNCHANGED <<push_status, claimed, message, handler>>
    BY <1>7 DEF BatchJobStarts, database
  <2>3. (batch[i].queued \ {n}) \cup (batch[i].running \cup {n}) \cup batch[i].detached \subseteq claimed'
    BY <1>s, <2>2 DEF JobsClaimed
  <2>4. JobsClaimed'
    BY <1>b, <2>1, <2>2, <2>3
  <2> QED
    BY <1>s, <1>q, <2>2, <2>4 DEF RowsClaimed
<1>8. ASSUME NEW i \in Instance, NEW n \in Notification, LeaveBatch(i, n),
             UNCHANGED <<message, handler>>, claimed \subseteq claimed', RowsClaimed'
      PROVE  AckInv'
  <2>1. Sorts(i, batch[i].queued, batch[i].running \ {n}, batch[i].detached \ {n})
    BY <1>t, <1>8, BatchSorts
  <2>2. batch[i].queued \cup (batch[i].running \ {n}) \cup (batch[i].detached \ {n}) \subseteq claimed'
    BY <1>s, <1>8 DEF JobsClaimed
  <2>3. JobsClaimed'
    BY <1>b, <1>8, <2>1, <2>2
  <2> QED
    BY <1>q, <1>8, <2>3
<1>9. ASSUME NEW i \in Instance, NEW n \in Notification, NEW s \in Terminal, BatchJobEnds(i, n, s)
      PROVE  AckInv'
  <2>1. n \in claimed
    BY <1>s, <1>9 DEF BatchJobEnds, LeaveBatch, JobsClaimed
  <2>2. claimed \subseteq claimed' /\ RowsClaimed'
    BY <1>9, <2>1, FinalizeRowClaims DEF BatchJobEnds
  <2> QED
    BY <1>8, <1>9, <2>2 DEF BatchJobEnds
<1>10. ASSUME NEW i \in Instance, NEW n \in Notification, BatchJobRaises(i, n) PROVE AckInv'
  BY <1>s, <1>8, <1>10 DEF BatchJobRaises, database, RowsClaimed
<1>11. ASSUME NEW i \in Instance, NEW S \in SUBSET Pending, CancelTick(i, S) PROVE AckInv'
  <2>1. Sorts(i, {}, {}, batch[i].running)
    BY <1>t, <1>11, BatchSorts
  <2>2. claimed \subseteq claimed' /\ RowsClaimed'
    BY <1>11, TakeRowsClaims DEF CancelTick
  <2>3. batch[i].running \subseteq claimed
    BY <1>s DEF JobsClaimed
  <2>4. JobsClaimed'
    BY <1>b, <2>1, <2>2, <2>3
  <2> QED
    BY <1>q, <1>11, <2>2, <2>4 DEF CancelTick
<1>12. ASSUME NEW i \in Instance,
              \/ TickFindsNothing(i) \/ GatherEnds(i)
              \/ Shutdown(i) \/ CloseDatabase(i) \/ Start(i)
       PROVE  AckInv'
  <2>1. UNCHANGED <<push_status, claimed, message, handler, batch>>
    BY <1>12 DEF TickFindsNothing, GatherEnds, Shutdown, CloseDatabase, Start, database
  <2> QED
    BY <1>s, <1>q, <2>1 DEF RowsClaimed, JobsClaimed
<1>13. ASSUME NEW i \in Instance, Gone(i) PROVE AckInv'
  <2>1. Sorts(i, {}, {}, {})
    BY <1>t, <1>13, BatchSorts
  <2>2. /\ \A m \in Message : handler'[i][m].pc = "none"
        /\ \A j \in Instance \ {i} : handler'[j] = handler[j]
    BY <1>t, <1>13, GoneMoves
  <2>3. UNCHANGED <<push_status, claimed, message>>
    BY <1>13 DEF Gone, database
  <2>4. RowsClaimed'
    BY <1>s, <2>3 DEF RowsClaimed
  <2>5. JobsClaimed'
    BY <1>b, <2>1, <2>3
  <2>6. Kept({})
    BY <1>t, <2>3, NoDelivery
  <2>7. \A j \in Instance, m \in Message :
          handler'[j][m] = handler[j][m] \/ handler'[j][m].pc = "none"
    BY <2>2
  <2> QED
    BY <1>n, <2>3, <2>4, <2>5, <2>6, <2>7, AcksKeep
<1>14. CASE UNCHANGED vars
  BY <1>s, <1>q, <1>14 DEF vars, RowsClaimed, JobsClaimed
<1> QED
  BY <1>1, <1>2, <1>3, <1>4, <1>5, <1>6, <1>7, <1>9, <1>10, <1>11, <1>12, <1>13, <1>14
     DEF Next, Failure, TickStep, BatchStep, StopStep, Exit, Crash

\* A message is acked only when its notification was claimed, by this coroutine
\* or by whoever made the row what the coroutine found, or after the last
\* attempt: the ack never loses a notification nobody has seen.
THEOREM AcksAreEarned == Spec => []NoEarlyAck
<1>1. Init => AckInv
  <2> SUFFICES ASSUME Init PROVE AckInv
    OBVIOUS
  <2>1. NoHandler.pc = "none" /\ NoBatch.queued = {} /\ NoBatch.running = {} /\ NoBatch.detached = {}
    BY DEF NoHandler, NoBatch
  <2> QED
    BY <2>1 DEF Init, AckInv, RowsClaimed, JobsClaimed, Sound, NoEarlyAck, Terminal
<1>2. Typed /\ AckInv /\ [Next]_vars => AckInv'
  BY AckInductive, ServiceAssumption
<1>3. AckInv => NoEarlyAck
  BY DEF AckInv
<1> QED
  BY <1>1, <1>2, <1>3, AlwaysPermitsInv, PTL DEF Spec

-----------------------------------------------------------------------------
(* One owner, while leases cover jobs                                       *)

Works(i, m) == handler[i][m].pc = "job"

InBatch(i, n) == n \in batch[i].queued \cup batch[i].running \cup batch[i].detached

\* What is in hand is processing, and its lease has not expired.
HandProcessing == \A n \in Notification : InHand(n) => push_status[n] = "processing" /\ ~stale[n]

\* No row is in hand twice.
HandAlone ==
  /\ \A i, j \in Instance, m, k \in Message :
       Works(i, m) /\ Works(j, k) /\ Payload[m] = Payload[k] => i = j /\ m = k
  /\ \A i, j \in Instance, n \in Notification : InBatch(i, n) /\ InBatch(j, n) => i = j
  /\ \A i, j \in Instance, m \in Message : Works(i, m) => ~InBatch(j, Payload[m])

HandInv == HandProcessing /\ HandAlone

\* InHand, by instance.
LEMMA InHandCases ==
  ASSUME NEW n
  PROVE  /\ InHand(n) <=> \E i \in Instance : InBatch(i, n)
                                              \/ \E m \in Message : Works(i, m) /\ Payload[m] = n
         /\ InHand(n)' <=> \E i \in Instance : InBatch(i, n)'
                                               \/ \E m \in Message : Works(i, m)' /\ Payload[m] = n
BY DEF InHand, InBatch, Works

\* A step by which nobody gets a row, and the rows that stay in hand stay as
\* they are.
LEMMA NothingNewInHand ==
  ASSUME HandInv,
         \A i \in Instance, m \in Message : Works(i, m)' => Works(i, m),
         \A i \in Instance, n \in Notification : InBatch(i, n)' => InBatch(i, n),
         \A n \in Notification : InHand(n)' /\ InHand(n) =>
           push_status'[n] = push_status[n] /\ (stale'[n] => stale[n]),
         HandlersNamed
  PROVE  HandInv'
<1>1. \A n \in Notification : InHand(n)' => InHand(n)
  BY InHandCases
<1>2. HandProcessing'
  BY <1>1 DEF HandInv, HandProcessing
<1>3. \A i \in Instance, m \in Message : Works(i, m) => Payload[m] \in Notification
  BY DEF Works, HandlersNamed
<1>4. HandAlone'
  BY <1>3 DEF HandInv, HandAlone
<1> QED
  BY <1>2, <1>4 DEF HandInv

\* A claimed row was pending: nobody had it in hand.
LEMMA PendingIsFree ==
  ASSUME HandInv, NEW n \in Pending PROVE n \in Notification /\ ~InHand(n)
BY DEF HandInv, HandProcessing, Pending

\* Rows that are taken are fresh, and no row in hand is among them.
LEMMA TakenRows ==
  ASSUME HandInv, NEW S \in SUBSET Pending, TakeRows(S)
  PROVE  /\ \A n \in S : n \in Notification /\ push_status'[n] = "processing" /\ ~stale'[n]
         /\ \A n \in Notification : InHand(n) => push_status'[n] = push_status[n]
                                                 /\ (stale'[n] => stale[n])
BY PendingIsFree DEF TakeRows, Pending

\* claim_by_id gives the row to one coroutine.
LEMMA CoroutineTakes ==
  ASSUME HandInv, NEW i \in Instance, NEW m \in Message, Payload[m] \in Pending,
         TakeRows({Payload[m]}),
         \A j \in Instance, k \in Message : Works(j, k)' => Works(j, k) \/ (j = i /\ k = m),
         UNCHANGED batch, HandlersNamed
  PROVE  HandInv'
<1> DEFINE n == Payload[m]
<1>1. n \in Notification /\ ~InHand(n)
  BY PendingIsFree
<1>2. /\ push_status'[n] = "processing" /\ ~stale'[n]
      /\ \A o \in Notification : InHand(o) => push_status'[o] = push_status[o]
                                              /\ (stale'[o] => stale[o])
  BY TakenRows
<1>3. \A j \in Instance, o \in Notification : InBatch(j, o)' <=> InBatch(j, o)
  BY DEF InBatch
<1>4. \A o \in Notification : InHand(o)' => InHand(o) \/ o = n
  BY <1>3, InHandCases
<1>5. HandProcessing'
  BY <1>2, <1>4 DEF HandInv, HandProcessing
<1>6. \A j \in Instance, k \in Message : Works(j, k) => Payload[k] \in Notification
  BY DEF Works, HandlersNamed
<1>7. /\ \A j \in Instance, k \in Message : Works(j, k) => Payload[k] # n
      /\ \A j \in Instance : ~InBatch(j, n)
  BY <1>1, InHandCases
<1>8. \A i1, i2 \in Instance, m1, m2 \in Message :
        Works(i1, m1)' /\ Works(i2, m2)' /\ Payload[m1] = Payload[m2] => i1 = i2 /\ m1 = m2
  BY <1>7 DEF HandInv, HandAlone
<1>9. \A j, k \in Instance, o \in Notification : InBatch(j, o)' /\ InBatch(k, o)' => j = k
  BY <1>3 DEF HandInv, HandAlone
<1>10. \A j, l \in Instance, k \in Message : Works(j, k)' => ~InBatch(l, Payload[k])'
  BY <1>1, <1>3, <1>6, <1>7 DEF HandInv, HandAlone
<1>11. HandAlone'
  BY <1>8, <1>9, <1>10 DEF HandAlone
<1> QED
  BY <1>5, <1>11 DEF HandInv

\* claim_pending_batch gives its rows to one poller.
LEMMA BatchTakes ==
  ASSUME HandInv, NEW i \in Instance, NEW S \in SUBSET Pending, TakeRows(S), UNCHANGED handler,
         \A j \in Instance, n \in Notification :
           InBatch(j, n)' => InBatch(j, n) \/ (j = i /\ n \in S),
         HandlersNamed
  PROVE  HandInv'
<1>1. \A n \in S : n \in Notification /\ ~InHand(n)
  BY PendingIsFree
<1>2. /\ \A n \in S : push_status'[n] = "processing" /\ ~stale'[n]
      /\ \A o \in Notification : InHand(o) => push_status'[o] = push_status[o]
                                              /\ (stale'[o] => stale[o])
  BY TakenRows
<1>3. \A j \in Instance, k \in Message : Works(j, k)' <=> Works(j, k)
  BY DEF Works
<1>4. \A o \in Notification : InHand(o)' => InHand(o) \/ o \in S
  BY <1>3, InHandCases
<1>5. HandProcessing'
  BY <1>2, <1>4 DEF HandInv, HandProcessing
<1>6. \A j \in Instance, k \in Message : Works(j, k) => Payload[k] \in Notification
  BY DEF Works, HandlersNamed
<1>7. /\ \A j \in Instance, k \in Message : Works(j, k) => Payload[k] \notin S
      /\ \A j \in Instance, n \in S : ~InBatch(j, n)
  BY <1>1, InHandCases
<1>8. \A i1, i2 \in Instance, m1, m2 \in Message :
        Works(i1, m1)' /\ Works(i2, m2)' /\ Payload[m1] = Payload[m2] => i1 = i2 /\ m1 = m2
  BY <1>3 DEF HandInv, HandAlone
<1>9. \A j, k \in Instance, o \in Notification : InBatch(j, o)' /\ InBatch(k, o)' => j = k
  BY <1>7 DEF HandInv, HandAlone
<1>10. \A j, l \in Instance, k \in Message : Works(j, k)' => ~InBatch(l, Payload[k])'
  BY <1>3, <1>6, <1>7 DEF HandInv, HandAlone
<1>11. HandAlone'
  BY <1>8, <1>9, <1>10 DEF HandAlone
<1> QED
  BY <1>5, <1>11 DEF HandInv

\* Every step keeps HandInv while leases cover jobs.
LEMMA HandInductive ==
  ASSUME LeaseCoversJob, Typed, ServiceAssumption, PermitsInv, HandInv, [Next]_vars
  PROVE  HandInv'
<1>t. /\ batch \in [Instance -> Batch] /\ handler \in [Instance -> [Message -> Handler]]
      /\ HandlersNamed /\ BatchShape
  BY DEF Typed, BatchTyped, PermitsInv
<1>r. \A n \in Notification : InHand(n) => push_status[n] = "processing" /\ ~stale[n]
  BY DEF HandInv, HandProcessing
\* Nobody gets a row, and rows in hand stay.
<1>q. ASSUME \A i \in Instance, m \in Message : Works(i, m)' => Works(i, m),
             \A i \in Instance, n \in Notification : InBatch(i, n)' => InBatch(i, n),
             \A n \in Notification : InHand(n) => push_status'[n] = push_status[n]
                                                  /\ (stale'[n] => stale[n])
      PROVE  HandInv'
  BY <1>q, <1>t, NothingNewInHand
\* A coroutine moves, not to a job.
<1>m. ASSUME NEW i \in Instance, NEW m \in Message, NEW pc, pc # "job", NEW a, NEW d,
             Moves(i, m, pc, a, d), UNCHANGED batch
      PROVE  /\ \A j \in Instance, k \in Message : Works(j, k)' => Works(j, k)
             /\ \A j \in Instance, n \in Notification : InBatch(j, n)' => InBatch(j, n)
             /\ ~Works(i, m)'
  BY <1>m DEF Moves, Works, InBatch
<1>1. ASSUME NEW i \in Instance, NEW m \in Message, NEW pc, pc # "job", NEW a, NEW d,
             Moves(i, m, pc, a, d), UNCHANGED <<database, batch>>
      PROVE  HandInv'
  BY <1>q, <1>m, <1>1 DEF database
<1>2. ASSUME UNCHANGED <<handler, batch>>,
             \A n \in Notification : InHand(n) => push_status'[n] = push_status[n]
                                                  /\ (stale'[n] => stale[n])
      PROVE  HandInv'
  BY <1>2, <1>q DEF Works, InBatch
<1>3. ASSUME NEW i \in Instance, NEW m \in Message,
             \/ Receive(i, m) \/ Acquire(i, m) \/ ClaimMissed(i, m) \/ ReadMiss(i, m)
             \/ Settle(i, m) \/ Raise(i, m)
      PROVE  HandInv'
  <2>1. \E pc, a, d : pc # "job" /\ Moves(i, m, pc, a, d)
    BY <1>3, CoroutineMoves
  <2>2. UNCHANGED <<database, batch>>
    BY <1>3 DEF Receive, Acquire, ClaimMissed, ReadMiss, Settle, Raise, local
  <2> QED
    BY <1>1, <2>1, <2>2
<1>4. ASSUME NEW i \in Instance, NEW m \in Message, ReceiveMalformed(i, m) \/ ReceiveUndecodable(i, m)
      PROVE  HandInv'
  BY <1>2, <1>4 DEF ReceiveMalformed, ReceiveUndecodable, database, local
<1>5. ASSUME NEW i \in Instance, NEW m \in Message, ClaimWon(i, m) PROVE HandInv'
  <2>1. Moves(i, m, "job", handler[i][m].attempt, handler[i][m].disposition)
    BY <1>5, CoroutineMoves
  <2>2. \A j \in Instance, k \in Message : Works(j, k)' => Works(j, k) \/ (j = i /\ k = m)
    BY <2>1 DEF Moves, Works
  <2> QED
    BY <1>t, <1>5, <2>2, CoroutineTakes DEF ClaimWon, local
<1>6. ASSUME NEW i \in Instance, NEW m \in Message, NEW s \in Terminal, JobEnds(i, m, s)
      PROVE  HandInv'
  <2> DEFINE n == Payload[m]
  <2>1. Moves(i, m, "settle", handler[i][m].attempt, "ack_processed")
    BY <1>6, CoroutineMoves
  <2>2. Works(i, m) /\ FinalizeRow(n, s) /\ UNCHANGED batch
    BY <1>6 DEF JobEnds, Works, local
  <2>3. /\ \A j \in Instance, k \in Message : Works(j, k)' => Works(j, k)
        /\ \A j \in Instance, o \in Notification : InBatch(j, o)' => InBatch(j, o)
        /\ ~Works(i, m)'
    BY <1>m, <2>1, <2>2
  <2>4. n \in Notification
    BY <1>t, <2>2 DEF Works, HandlersNamed
  <2>5. ~InHand(n)'
    BY <2>2, <2>3, <2>4, InHandCases DEF HandInv, HandAlone
  <2>6. \A o \in Notification \ {n} : push_status'[o] = push_status[o] /\ stale'[o] = stale[o]
    BY <2>2 DEF FinalizeRow, Typed, RowsTyped
  <2>7. \A o \in Notification : InHand(o)' /\ InHand(o) =>
          push_status'[o] = push_status[o] /\ (stale'[o] => stale[o])
    BY <2>5, <2>6
  <2> QED
    BY <1>t, <2>3, <2>7, NothingNewInHand
<1>7. ASSUME NEW i \in Instance, NEW m \in Message, RaiseAfterClaim(i, m) PROVE HandInv'
  <2>1. Moves(i, m, "settle", handler[i][m].attempt, "nack_error")
    BY <1>7, CoroutineMoves
  <2>2. UNCHANGED batch /\ {Payload[m]} \in SUBSET Pending /\ TakeRows({Payload[m]})
    BY <1>7 DEF RaiseAfterClaim, local
  <2>3. \A n \in Notification : InHand(n) => push_status'[n] = push_status[n]
                                             /\ (stale'[n] => stale[n])
    BY <2>2, TakenRows
  <2> QED
    BY <1>m, <1>q, <2>1, <2>2, <2>3
<1>8. ASSUME NEW n \in Notification, InsertRow(n) PROVE HandInv'
  <2>1. \A o \in Notification : InHand(o) => push_status'[o] = push_status[o]
    BY <1>r, <1>8 DEF InsertRow, Typed, RowsTyped
  <2> QED
    BY <1>2, <1>8, <2>1 DEF InsertRow, local
\* The lease of a row in hand does not expire.
<1>9. ASSUME NEW n \in Notification, LeaseExpires(n) PROVE HandInv'
  <2>1. ~InHand(n)
    BY <1>9 DEF LeaseExpires
  <2>2. \A o \in Notification : InHand(o) => (stale'[o] => stale[o])
    BY <1>9, <2>1 DEF LeaseExpires, Typed, RowsTyped
  <2> QED
    BY <1>2, <1>9, <2>2 DEF LeaseExpires, local
<1>10. ASSUME NEW m \in Message, RedeliverLost(m) \/ RedeliverEarly(m) PROVE HandInv'
  BY <1>2, <1>10 DEF RedeliverLost, RedeliverEarly, Requeued, database, local
\* So reclaim finds none in hand.
<1>11. ASSUME NEW i \in Instance, TickReclaims(i) PROVE HandInv'
  <2>1. \A n \in Notification : InHand(n) => push_status'[n] = push_status[n]
                                             /\ (stale'[n] => stale[n])
    BY <1>r, <1>11 DEF TickReclaims
  <2> QED
    BY <1>2, <1>11, <2>1 DEF TickReclaims
<1>12. ASSUME NEW i \in Instance, NEW S \in SUBSET Pending, TickClaims(i, S) PROVE HandInv'
  <2>1. Sorts(i, S, batch[i].running, batch[i].detached)
    BY <1>t, <1>12, BatchSorts
  <2>2. \A j \in Instance, n \in Notification : InBatch(j, n)' => InBatch(j, n) \/ (j = i /\ n \in S)
    BY <2>1 DEF Sorts, InBatch
  <2>3. TakeRows(S) /\ UNCHANGED handler
    BY <1>12 DEF TickClaims
  <2> QED
    BY <1>t, <2>2, <2>3, BatchTakes
<1>13. ASSUME NEW i \in Instance, NEW S \in SUBSET Pending, TickFails(i, S) PROVE HandInv'
  <2>1. \A n \in Notification : InHand(n) => push_status'[n] = push_status[n]
                                             /\ (stale'[n] => stale[n])
    BY <1>13, TakenRows DEF TickFails
  <2> QED
    BY <1>2, <1>13, <2>1 DEF TickFails
<1>14. ASSUME NEW i \in Instance, NEW n \in Notification, BatchJobStarts(i, n) PROVE HandInv'
  <2>1. Sorts(i, batch[i].queued \ {n}, batch[i].running \cup {n}, batch[i].detached)
    BY <1>t, <1>14, BatchSorts
  <2>2. n \in batch[i].queued /\ UNCHANGED <<push_status, stale, handler>>
    BY <1>14 DEF BatchJobStarts, database
  <2>3. \A j \in Instance, o \in Notification : InBatch(j, o)' => InBatch(j, o)
    BY <2>1, <2>2 DEF Sorts, InBatch
  <2> QED
    BY <1>q, <2>2, <2>3 DEF Works
<1>15. ASSUME NEW i \in Instance, NEW n \in Notification, LeaveBatch(i, n), UNCHANGED handler
       PROVE  /\ \A j \in Instance, k \in Message : Works(j, k)' => Works(j, k)
              /\ \A j \in Instance, o \in Notification : InBatch(j, o)' => InBatch(j, o)
              /\ ~InHand(n)'
  <2>1. Sorts(i, batch[i].queued, batch[i].running \ {n}, batch[i].detached \ {n})
    BY <1>t, <1>15, BatchSorts
  <2>2. n \in batch[i].running \cup batch[i].detached
    BY <1>15 DEF LeaveBatch
  <2>3. n \notin batch[i].queued
    BY <1>t, <2>2 DEF BatchShape
  <2>4. \A j \in Instance, o \in Notification : InBatch(j, o)' => InBatch(j, o)
    BY <2>1 DEF Sorts, InBatch
  <2>5. ~InBatch(i, n)' /\ InBatch(i, n)
    BY <2>1, <2>2, <2>3 DEF Sorts, InBatch
  <2>6. \A j \in Instance, k \in Message : Works(j, k)' <=> Works(j, k)
    BY <1>15 DEF Works
  <2>7. \A j \in Instance : ~InBatch(j, n)'
    BY <2>4, <2>5 DEF HandInv, HandAlone
  <2>8. \A j \in Instance, k \in Message : Works(j, k)' => Payload[k] # n
    BY <2>5, <2>6 DEF HandInv, HandAlone
  <2>9. ~InHand(n)'
    BY <2>7, <2>8, InHandCases
  <2> QED
    BY <2>4, <2>6, <2>9
<1>16. ASSUME NEW i \in Instance, NEW n \in Notification, NEW s \in Terminal, BatchJobEnds(i, n, s)
       PROVE  HandInv'
  <2>1. LeaveBatch(i, n) /\ FinalizeRow(n, s) /\ UNCHANGED handler
    BY <1>16 DEF BatchJobEnds
  <2>2. \A o \in Notification \ {n} : push_status'[o] = push_status[o] /\ stale'[o] = stale[o]
    BY <2>1 DEF FinalizeRow, Typed, RowsTyped
  <2>3. ~InHand(n)'
    BY <1>15, <2>1
  <2>4. \A o \in Notification : InHand(o)' /\ InHand(o) =>
          push_status'[o] = push_status[o] /\ (stale'[o] => stale[o])
    BY <2>2, <2>3
  <2>5. /\ \A j \in Instance, k \in Message : Works(j, k)' => Works(j, k)
        /\ \A j \in Instance, o \in Notification : InBatch(j, o)' => InBatch(j, o)
    BY <1>15, <2>1
  <2> QED
    BY <1>t, <2>4, <2>5, NothingNewInHand
<1>17. ASSUME NEW i \in Instance, NEW n \in Notification, BatchJobRaises(i, n) PROVE HandInv'
  <2>1. LeaveBatch(i, n) /\ UNCHANGED <<push_status, stale, handler>>
    BY <1>17 DEF BatchJobRaises, database
  <2> QED
    BY <1>15, <1>q, <2>1
<1>18. ASSUME NEW i \in Instance, NEW S \in SUBSET Pending, CancelTick(i, S) PROVE HandInv'
  <2>1. Sorts(i, {}, {}, batch[i].running)
    BY <1>t, <1>18, BatchSorts
  <2>2. \A j \in Instance, n \in Notification : InBatch(j, n)' => InBatch(j, n)
    BY <2>1 DEF Sorts, InBatch
  <2>3. UNCHANGED handler /\ TakeRows(S)
    BY <1>18 DEF CancelTick
  <2>4. \A n \in Notification : InHand(n) => push_status'[n] = push_status[n]
                                             /\ (stale'[n] => stale[n])
    BY <2>3, TakenRows
  <2> QED
    BY <1>q, <2>2, <2>3, <2>4 DEF Works
<1>19. ASSUME NEW i \in Instance,
              \/ TickFindsNothing(i) \/ GatherEnds(i)
              \/ Shutdown(i) \/ CloseDatabase(i) \/ Start(i)
       PROVE  HandInv'
  BY <1>2, <1>19 DEF TickFindsNothing, GatherEnds, Shutdown, CloseDatabase, Start, database
<1>20. ASSUME NEW i \in Instance, Gone(i) PROVE HandInv'
  <2>1. Sorts(i, {}, {}, {})
    BY <1>t, <1>20, BatchSorts
  <2>2. /\ \A m \in Message : handler'[i][m].pc = "none"
        /\ \A j \in Instance \ {i} : handler'[j] = handler[j]
    BY <1>t, <1>20, GoneMoves
  <2>3. /\ \A j \in Instance, n \in Notification : InBatch(j, n)' => InBatch(j, n)
        /\ \A j \in Instance, k \in Message : Works(j, k)' => Works(j, k)
    BY <2>1, <2>2 DEF Sorts, InBatch, Works
  <2>4. UNCHANGED <<push_status, stale>>
    BY <1>20 DEF Gone, database
  <2> QED
    BY <1>q, <2>3, <2>4
<1>21. CASE UNCHANGED vars
  BY <1>2, <1>21 DEF vars
<1> QED
  BY <1>3, <1>4, <1>5, <1>6, <1>7, <1>8, <1>9, <1>10, <1>11, <1>12, <1>13, <1>14, <1>16, <1>17,
     <1>18, <1>19, <1>20, <1>21
     DEF Next, Failure, ReceiveStep, HandlerStep, TickStep, BatchStep, StopStep, Exit, Crash

\* HandInv always holds if leases cover jobs.
LEMMA AlwaysHandInv ==
  ASSUME LeaseCoversJob
  PROVE  Spec => []HandInv
<1>1. Init => HandInv
  <2> SUFFICES ASSUME Init PROVE HandInv
    OBVIOUS
  <2>1. NoHandler.pc = "none" /\ NoBatch.queued = {} /\ NoBatch.running = {} /\ NoBatch.detached = {}
    BY DEF NoHandler, NoBatch
  <2>2. /\ \A i \in Instance, m \in Message : ~Works(i, m)
        /\ \A i \in Instance, n \in Notification : ~InBatch(i, n)
    BY <2>1 DEF Init, Works, InBatch
  <2>3. \A n \in Notification : ~InHand(n)
    BY <2>2, InHandCases
  <2> QED
    BY <2>2, <2>3 DEF HandInv, HandProcessing, HandAlone
<1>2. Typed /\ PermitsInv /\ HandInv /\ [Next]_vars => HandInv'
  BY HandInductive, ServiceAssumption
<1> QED
  BY <1>1, <1>2, AlwaysPermitsInv, PTL DEF Spec

\* While leases cover jobs, no two threads, of whichever instances, pollers and
\* subscribers, cancelled ticks included, have the same notification in hand.
THEOREM HandedToOne ==
  ASSUME LeaseCoversJob
  PROVE  Spec => []OneOwner
<1>1. HandInv => OneOwner
  <2> SUFFICES ASSUME HandInv, NEW n \in Notification
               PROVE  /\ Cardinality(Owners(n)) <= 1
                      /\ Owners(n) # {} => push_status[n] = "processing"
    BY DEF OneOwner
  <2>1. \A o \in Owners(n) :
          \/ \E i \in Instance, m \in Message : o = <<i, m>> /\ Works(i, m) /\ Payload[m] = n
          \/ o \in Instance /\ InBatch(o, n)
    BY DEF Owners, Works, InBatch
  <2>2. \A o, p \in Owners(n) : o = p
    BY <2>1 DEF HandInv, HandAlone
  <2>3. Cardinality(Owners(n)) <= 1
    <3>1. CASE Owners(n) = {}
      BY <3>1, FS_EmptySet
    <3>2. CASE Owners(n) # {}
      <4>1. PICK o : Owners(n) = {o}
        BY <2>2, <3>2
      <4>2. Cardinality(Owners(n)) = 1
        BY <4>1, FS_Singleton
      <4> QED
        BY <4>2
    <3> QED
      BY <3>1, <3>2
  <2>4. Owners(n) # {} => InHand(n)
    BY <2>1, InHandCases
  <2> QED
    BY <2>3, <2>4 DEF HandInv, HandProcessing
<1> QED
  BY <1>1, AlwaysHandInv, PTL

-----------------------------------------------------------------------------
(* The service keeps to the life of a notification                          *)

\* Each step on the rows is a step of that life: a verdict is written by who has
\* the row in hand, so it finds the row processing.
LEMMA LifeStep ==
  ASSUME Typed, PermitsInv, HandInv, ServiceAssumption, [Next]_vars
  PROVE  [Life!LifeNext]_push_status
<1>t. /\ push_status \in [Notification -> PushStatus] /\ HandlersNamed
  BY DEF Typed, RowsTyped
<1>1. ASSUME NEW S \in SUBSET Pending, TakeRows(S) PROVE Life!LifeNext
  <2>1. S \in SUBSET Notification
    BY DEF Pending
  <2>2. Life!Move(S, "pending", "processing")
    BY <1>1 DEF Life!Move, TakeRows, Pending
  <2> QED
    BY <2>1, <2>2 DEF Life!Claim, Life!LifeNext
<1>2. ASSUME NEW n \in Notification, NEW s \in Terminal, InHand(n), FinalizeRow(n, s)
      PROVE  Life!LifeNext
  <2>1. push_status[n] = "processing" /\ push_status' = [push_status EXCEPT ![n] = s]
    BY <1>2 DEF HandInv, HandProcessing, FinalizeRow
  <2>2. Life!Move({n}, "processing", s)
    BY <1>t, <2>1 DEF Life!Move
  <2> QED
    BY <2>2 DEF Life!Conclude, Life!LifeNext, Terminal
<1>3. ASSUME NEW i \in Instance, NEW m \in Message, NEW s \in Terminal, JobEnds(i, m, s)
      PROVE  Life!LifeNext
  <2>1. Works(i, m) /\ FinalizeRow(Payload[m], s)
    BY <1>3 DEF JobEnds, Works
  <2>2. Payload[m] \in Notification
    BY <1>t, <2>1 DEF Works, HandlersNamed
  <2>3. InHand(Payload[m])
    BY <2>1 DEF Works, InHand
  <2> QED
    BY <1>2, <2>1, <2>2, <2>3
<1>4. ASSUME NEW i \in Instance, NEW n \in Notification, NEW s \in Terminal, BatchJobEnds(i, n, s)
      PROVE  Life!LifeNext
  BY <1>2, <1>4 DEF BatchJobEnds, LeaveBatch, InHand
<1>5. ASSUME NEW n \in Notification, InsertRow(n) PROVE Life!LifeNext
  BY <1>5 DEF InsertRow, Life!Insert, Life!LifeNext
<1>6. ASSUME NEW i \in Instance, TickReclaims(i) PROVE Life!LifeNext
  <2> DEFINE expired == {n \in Notification : push_status[n] = "processing" /\ stale[n]}
  <2>1. Life!Move(expired, "processing", "pending")
    BY <1>6 DEF TickReclaims, Life!Move
  <2> QED
    BY <2>1 DEF Life!Requeue, Life!LifeNext
<1>7. ASSUME NEW i \in Instance, NEW m \in Message, ClaimWon(i, m) \/ RaiseAfterClaim(i, m)
      PROVE  Life!LifeNext
  <2>1. {Payload[m]} \in SUBSET Pending /\ TakeRows({Payload[m]})
    BY <1>7 DEF ClaimWon, RaiseAfterClaim
  <2> QED
    BY <1>1, <2>1
<1>8. ASSUME NEW i \in Instance, NEW S \in SUBSET Pending,
             TickClaims(i, S) \/ TickFails(i, S) \/ CancelTick(i, S)
      PROVE  Life!LifeNext
  BY <1>1, <1>8 DEF TickClaims, TickFails, CancelTick
<1>9. \/ \E n \in Notification : InsertRow(n)
      \/ \E i \in Instance, m \in Message : ClaimWon(i, m) \/ RaiseAfterClaim(i, m)
      \/ \E i \in Instance, m \in Message, s \in Terminal : JobEnds(i, m, s)
      \/ \E i \in Instance : TickReclaims(i)
      \/ \E i \in Instance, S \in SUBSET Pending :
           TickClaims(i, S) \/ TickFails(i, S) \/ CancelTick(i, S)
      \/ \E i \in Instance, n \in Notification, s \in Terminal : BatchJobEnds(i, n, s)
      \/ UNCHANGED push_status
  BY DEF Next, Failure, ReceiveStep, HandlerStep, TickStep, BatchStep, StopStep, Exit, Crash,
         vars, database, LeaseExpires, Receive, ReceiveMalformed, ReceiveUndecodable,
         RedeliverLost, RedeliverEarly, Requeued, Acquire, ClaimMissed, ReadMiss, Settle, Raise,
         TickFindsNothing, GatherEnds, BatchJobStarts, BatchJobRaises, Shutdown, CloseDatabase,
         Gone, Start
<1> QED
  BY <1>1, <1>3, <1>4, <1>5, <1>6, <1>7, <1>8, <1>9

\* While leases cover jobs, subscribers, pollers and the lifespans of any number
\* of instances move push_status as the lifecycle allows.
THEOREM ServiceLifecycle ==
  ASSUME LeaseCoversJob
  PROVE  Spec => Lifecycle
<1>1. Init => Life!LifeInit
  BY DEF Init, Life!LifeInit
<1>2. Typed /\ PermitsInv /\ HandInv /\ [Next]_vars => [Life!LifeNext]_push_status
  BY LifeStep, ServiceAssumption
<1> QED
  BY <1>1, <1>2, AlwaysPermitsInv, AlwaysHandInv, PTL DEF Spec, Lifecycle, Life!LifeSpec

=============================================================================
