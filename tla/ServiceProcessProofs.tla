------------------------- MODULE ServiceProcessProofs -------------------------
(***************************************************************************)
(* Theorems about ServiceProcess: the counters of PushMetrics under their  *)
(* lock, and the sessions of PostgresClient.                               *)
(***************************************************************************)
EXTENDS ServiceProcess, FiniteSetTheorems, TLAPS

-----------------------------------------------------------------------------
(* The counters                                                             *)

\* The points of a call with the lock, and those of an increment.
Locked     == {"load", "store", "copy", "clear", "read"}
Unexported == {"lookup", "create", "cache", "add"}
Increment  == {"load", "store"} \cup Unexported

\* What threads of this process do to the counters.
MetricsStep(t) ==
  \/ \E k \in Key : EnterInc(t, k)
  \/ Enter(t, "copy", NoKey)
  \/ Enter(t, "read", NoKey)
  \/ CallStep(t)
  \/ Swallow(t)

\* MetricsTypeOK, but for the bounds of exported and swallowed, which rest on
\* ExportsConserved.
MetricsTyped ==
  /\ lock \in Thread \cup {NoThread}
  /\ counted \in [Key -> 0 .. MaxCount]
  /\ call \in [Thread -> Call]
  /\ cached \subseteq Instrument
  /\ exported \in [Key -> Nat]
  /\ swallowed \in [Key -> Nat]
  /\ reported \in [Key -> 0 .. MaxCount]

\* Who reads or writes _local has the lock, and works on what _local still is.
LockInv ==
  \A t \in Thread :
    /\ call[t].pc \in Locked => lock = t
    /\ call[t].pc \in Increment => call[t].key \in Key
    /\ call[t].pc = "store" => call[t].value = counted[call[t].key]
    /\ call[t].pc = "clear" => call[t].snap = counted

\* The guard of an increment still holds when it writes.
BoundInv ==
  /\ \A k \in Key : counted[k] + reported[k] <= MaxCount
  /\ \A t \in Thread : call[t].pc \in {"load", "store"} => Budget(call[t].key)

MetricsInv == MetricsTyped /\ LockInv /\ BoundInv

\* Steps of the process leave the counters alone, or are a step on them.
LEMMA MetricsSteps ==
  ASSUME ProcessAssumption, Next
  PROVE  (\E t \in Thread : MetricsStep(t)) \/ UNCHANGED metrics
<1>1. Loop \in Thread /\ Tick \in Thread /\ Job \subseteq Thread
  BY DEF ProcessAssumption
<1>2. ASSUME LoopEnters PROVE \E t \in Thread : MetricsStep(t)
  BY <1>1, <1>2 DEF LoopEnters, MetricsStep
<1>3. ASSUME NEW j \in Job, NEW k \in Key, JobCounts(j, k) PROVE \E t \in Thread : MetricsStep(t)
  BY <1>1, <1>3 DEF JobCounts, MetricsStep
<1>4. ASSUME NEW k \in Key, TickCounts(k) PROVE \E t \in Thread : MetricsStep(t)
  BY <1>1, <1>4 DEF TickCounts, MetricsStep
<1>5. ASSUME NEW t \in Thread, CallStep(t) \/ Swallow(t) PROVE \E u \in Thread : MetricsStep(u)
  BY <1>5 DEF MetricsStep
<1>6. ASSUME NEW j \in Job,
             \/ JobStarts(j) \/ JobWorks(j) \/ JobConnects(j) \/ JobReadsOn(j)
             \/ JobRaises(j) \/ ExpoReturns(j)
      PROVE  UNCHANGED metrics
  BY <1>6 DEF JobStarts, JobWorks, JobConnects, JobReadsOn, JobRaises, ExpoReturns,
              JobOpens, JobRefused, JobWants, JobCommits, JobCloses
<1>7. ASSUME \/ TickStarts \/ TickWorks \/ TickConnects \/ TickRaises \/ TickOnLoop
             \/ TickCollected
      PROVE  UNCHANGED metrics
  BY <1>7 DEF TickStarts, TickWorks, TickConnects, TickRaises, TickOnLoop, TickWants,
              TickCommits, TickReads, TickReturns, TickFails, TickClaims, GatherEnds,
              TickGathers, Park, TickCollected
<1>8. ASSUME ReadyStarts \/ ReadyConnects \/ ReadyFails \/ LoopWorks PROVE UNCHANGED metrics
  BY <1>8 DEF ReadyStarts, ReadyConnects, ReadyFails, LoopWorks, ReadyWants, ReadyAnswers,
              LoopReturns, LoopDisposes, LoopForgets, LoopCloses
<1>9. ASSUME NEW what, LoopCalls(what) PROVE UNCHANGED metrics
  BY <1>9 DEF LoopCalls
<1>10. ASSUME StartUp \/ Stop \/ StopStep \/ Exit \/ Exited PROVE UNCHANGED metrics
  BY <1>10 DEF StartUp, Stop, StopStep, Exit, Exited, StopWaits, StopCancels, Summarize,
               metrics, vars
<1> QED
  BY <1>2, <1>3, <1>4, <1>5, <1>6, <1>7, <1>8, <1>9, <1>10 DEF Next

\* The call of t is now at pc, those of other threads where they were.
CallTo(t, pc) ==
  /\ call'[t].pc = pc
  /\ \A u \in Thread \ {t} : call'[u] = call[u]

\* What the steps do to the calls, by field.
LEMMA CallMoves ==
  ASSUME MetricsTyped, NEW t \in Thread
  PROVE  /\ \A pc, k : Enter(t, pc, k) =>
              /\ CallTo(t, pc) /\ call'[t].key = k
              /\ UNCHANGED <<counted, exported, swallowed, reported>> /\ lock = NoThread /\ lock' = t
              /\ call[t].pc = "none"
         /\ Load(t) =>
              /\ CallTo(t, "store") /\ call'[t].key = call[t].key
              /\ call'[t].value = counted[call[t].key]
              /\ call[t].pc = "load" /\ UNCHANGED <<counted, exported, swallowed, reported, lock>>
         /\ Store(t) => CallTo(t, "lookup") /\ call'[t].key = call[t].key
         /\ Lookup(t) => \/ CallTo(t, "add") /\ call'[t].key = call[t].key
                         \/ CallTo(t, "create") /\ call'[t].key = call[t].key
         /\ Create(t) => CallTo(t, "cache") /\ call'[t].key = call[t].key
         /\ Cache(t) => CallTo(t, "add") /\ call'[t].key = call[t].key
         /\ Add(t) \/ Swallow(t) => CallTo(t, "none")
         /\ Copy(t) => CallTo(t, "clear") /\ call'[t].snap = counted
         /\ Clear(t) \/ Read(t) => CallTo(t, "none")
  BY DEF MetricsTyped, Call, CallTo, Enter, Load, Store, Lookup, Create, Cache, Add, Swallow,
         Copy, Clear, Read, NoCall, Outside

\* Every step of a thread in the counters keeps them well typed.
LEMMA MetricsTypesInductive ==
  ASSUME MetricsAssumption, MetricsInv, NEW t \in Thread, MetricsStep(t)
  PROVE  MetricsTyped'
<1>t. /\ lock \in Thread \cup {NoThread} /\ counted \in [Key -> 0 .. MaxCount]
      /\ call \in [Thread -> Call] /\ cached \subseteq Instrument
      /\ exported \in [Key -> Nat] /\ swallowed \in [Key -> Nat]
      /\ reported \in [Key -> 0 .. MaxCount]
      /\ MaxCount \in Nat /\ Name \in [Key -> Instrument]
  BY DEF MetricsInv, MetricsTyped, MetricsAssumption
<1>c. call[t] \in Call
  BY <1>t
<1>n. NoCall \in Call
  BY <1>t DEF NoCall, Call, CallPoint, Tally0
<1>1. ASSUME NEW pc \in CallPoint, NEW k \in Key \cup {NoKey}, Enter(t, pc, k) PROVE MetricsTyped'
  <2>1. [call[t] EXCEPT !.pc = pc, !.key = k] \in Call
    BY <1>c DEF Call
  <2>2. call' \in [Thread -> Call]
    BY <1>t, <1>1, <2>1 DEF Enter
  <2> QED
    BY <1>t, <1>1, <2>2 DEF Enter, MetricsTyped
<1>2. CASE Load(t)
  <2>1. counted[call[t].key] \in 0 .. MaxCount
    BY <1>t, <1>2 DEF Load, MetricsInv, LockInv, Increment
  <2>2. [call[t] EXCEPT !.pc = "store", !.value = counted[call[t].key]] \in Call
    BY <1>c, <2>1 DEF Call, CallPoint
  <2>3. call' \in [Thread -> Call]
    BY <1>t, <1>2, <2>2 DEF Load
  <2> QED
    BY <1>t, <1>2, <2>3 DEF Load, MetricsTyped
<1>3. CASE Store(t)
  <2>1. /\ call[t].key \in Key /\ call[t].value = counted[call[t].key]
        /\ Budget(call[t].key)
    BY <1>3 DEF Store, MetricsInv, LockInv, BoundInv, Increment
  <2>2. call[t].value + 1 \in 0 .. MaxCount
    BY <1>t, <2>1 DEF Budget
  <2>3. [call[t] EXCEPT !.pc = "lookup", !.value = 0] \in Call
    <3>1. 0 \in 0 .. MaxCount
      BY <1>t
    <3> QED
      BY <1>c, <3>1 DEF Call, CallPoint
  <2>4. call' \in [Thread -> Call]
    BY <1>t, <1>3, <2>3 DEF Store
  <2>5. counted' \in [Key -> 0 .. MaxCount]
    BY <1>t, <1>3, <2>2 DEF Store
  <2> QED
    BY <1>t, <1>3, <2>4, <2>5 DEF Store, MetricsTyped
<1>4. ASSUME NEW pc \in CallPoint, call' = [call EXCEPT ![t].pc = pc],
             UNCHANGED <<lock, counted, cached, exported, swallowed, reported>>
      PROVE  MetricsTyped'
  <2>1. [call[t] EXCEPT !.pc = pc] \in Call
    BY <1>c DEF Call
  <2>2. call' \in [Thread -> Call]
    BY <1>t, <1>4, <2>1
  <2> QED
    BY <1>t, <1>4, <2>2 DEF MetricsTyped
<1>5. CASE Lookup(t) \/ Create(t)
  BY <1>4, <1>5 DEF Lookup, Create, CallPoint
<1>6. CASE Cache(t)
  <2>1. [call[t] EXCEPT !.pc = "add"] \in Call
    BY <1>c DEF Call, CallPoint
  <2>2. call' \in [Thread -> Call]
    BY <1>t, <1>6, <2>1 DEF Cache
  <2>3. Name[call[t].key] \in Instrument
    BY <1>t, <1>6 DEF Cache, MetricsInv, LockInv, Increment, Unexported
  <2> QED
    BY <1>t, <1>6, <2>2, <2>3 DEF Cache, MetricsTyped
<1>7. CASE Add(t) \/ Swallow(t)
  <2>1. call' \in [Thread -> Call]
    BY <1>t, <1>7, <1>n DEF Add, Swallow
  <2>2. exported' \in [Key -> Nat] /\ swallowed' \in [Key -> Nat]
    BY <1>t, <1>7 DEF Add, Swallow
  <2> QED
    BY <1>t, <1>7, <2>1, <2>2 DEF Add, Swallow, MetricsTyped
<1>8. CASE Copy(t)
  <2>1. [call[t] EXCEPT !.pc = "clear", !.snap = counted] \in Call
    BY <1>c, <1>t DEF Call, CallPoint
  <2>2. call' \in [Thread -> Call]
    BY <1>t, <1>8, <2>1 DEF Copy
  <2> QED
    BY <1>t, <1>8, <2>2 DEF Copy, MetricsTyped
<1>9. CASE Clear(t)
  <2>1. call' \in [Thread -> Call]
    BY <1>t, <1>9, <1>n DEF Clear
  <2>2. \A k \in Key : reported[k] + call[t].snap[k] \in 0 .. MaxCount
    BY <1>t, <1>9 DEF Clear, MetricsInv, LockInv, BoundInv
  <2>3. reported' \in [Key -> 0 .. MaxCount] /\ counted' \in [Key -> 0 .. MaxCount]
    BY <1>t, <1>9, <2>2 DEF Clear, Tally0
  <2> QED
    BY <1>t, <1>9, <2>1, <2>3 DEF Clear, MetricsTyped
<1>10. CASE Read(t)
  <2>1. call' \in [Thread -> Call]
    BY <1>t, <1>10, <1>n DEF Read
  <2> QED
    BY <1>t, <1>10, <2>1 DEF Read, MetricsTyped
<1>11. CASE \E k \in Key : EnterInc(t, k)
  BY <1>1, <1>11 DEF EnterInc, CallPoint
<1>12. CASE Enter(t, "copy", NoKey) \/ Enter(t, "read", NoKey)
  BY <1>1, <1>12 DEF CallPoint
<1> QED
  BY <1>2, <1>3, <1>5, <1>6, <1>7, <1>8, <1>9, <1>10, <1>11, <1>12 DEF MetricsStep, CallStep

\* A step that leaves the counters, by a thread that takes the lock when it is
\* free, keeps it, or is without it.
LEMMA LockKeeps ==
  ASSUME MetricsInv, NEW t \in Thread, NEW pc, CallTo(t, pc),
         UNCHANGED <<counted, reported>>,
         \A u \in Thread \ {t} : call[u].pc \in Locked => lock' = u,
         pc \in Locked => lock' = t,
         pc \in Increment => call'[t].key \in Key,
         pc = "store" => call'[t].value = counted[call'[t].key],
         pc = "clear" => call'[t].snap = counted,
         pc \in {"load", "store"} => Budget(call'[t].key)
  PROVE  LockInv' /\ BoundInv'
<1>1. \A k : Budget(k)' <=> Budget(k)
  BY DEF Budget
<1>2. LockInv'
  BY DEF MetricsInv, LockInv, CallTo
<1>3. BoundInv'
  BY <1>1 DEF MetricsInv, BoundInv, CallTo
<1> QED
  BY <1>2, <1>3

\* Every step of a thread in the counters keeps LockInv and BoundInv.
LEMMA LockInductive ==
  ASSUME MetricsAssumption, MetricsInv, NEW t \in Thread, MetricsStep(t)
  PROVE  LockInv' /\ BoundInv'
<1>t. MetricsTyped /\ LockInv /\ BoundInv /\ NoThread \notin Thread
  BY DEF MetricsInv, MetricsAssumption
<1>n. /\ Tally0 \in [Key -> Nat] /\ \A k \in Key : Tally0[k] = 0
      /\ counted \in [Key -> Nat] /\ reported \in [Key -> Nat] /\ MaxCount \in Nat
  BY <1>t DEF Tally0, MetricsTyped, MetricsAssumption
\* One thread has the lock.
<1>a. \A u, v \in Thread : call[u].pc \in Locked /\ call[v].pc \in Locked => u = v
  BY <1>t DEF LockInv
<1>1. ASSUME NEW pc, NEW k, Enter(t, pc, k),
             pc \in Increment => k \in Key,
             pc \notin {"store", "clear"},
             pc = "load" => Budget(k)
      PROVE  LockInv' /\ BoundInv'
  <2>1. /\ CallTo(t, pc) /\ call'[t].key = k
        /\ UNCHANGED <<counted, reported>> /\ lock = NoThread /\ lock' = t
    BY <1>1, <1>t, CallMoves
  <2>2. \A u \in Thread : call[u].pc \notin Locked
    BY <1>t, <2>1 DEF LockInv
  <2> QED
    BY <1>1, <2>1, <2>2, LockKeeps
<1>2. CASE Load(t)
  <2>1. /\ CallTo(t, "store") /\ call'[t].key = call[t].key
        /\ call'[t].value = counted[call[t].key]
        /\ call[t].pc = "load" /\ UNCHANGED <<counted, reported, lock>>
    BY <1>2, <1>t, CallMoves
  <2>2. lock = t /\ call[t].key \in Key /\ Budget(call[t].key)
    BY <1>t, <2>1 DEF LockInv, BoundInv, Locked, Increment
  <2>3. \A u \in Thread \ {t} : call[u].pc \notin Locked
    BY <1>a, <2>1 DEF Locked
  <2> QED
    BY <2>1, <2>2, <2>3, LockKeeps
<1>3. CASE Store(t)
  <2> DEFINE k == call[t].key
  <2>1. /\ CallTo(t, "lookup") /\ call'[t].key = k /\ call[t].pc = "store"
        /\ counted' = [counted EXCEPT ![k] = call[t].value + 1]
        /\ UNCHANGED reported
    BY <1>3, <1>t, CallMoves DEF Store
  <2>2. k \in Key /\ call[t].value = counted[k] /\ Budget(k)
    BY <1>t, <2>1 DEF LockInv, BoundInv, Increment
  <2>3. \A u \in Thread \ {t} : call[u].pc \notin Locked
    BY <1>a, <2>1 DEF Locked
  <2>4. \A l \in Key : counted'[l] + reported'[l] <= MaxCount
    BY <1>t, <1>n, <2>1, <2>2 DEF Budget, BoundInv
  <2>5. \A u \in Thread : call'[u].pc \notin Locked
    BY <2>1, <2>3 DEF CallTo, Locked
  <2>6. LockInv'
    BY <1>t, <2>1, <2>2, <2>5 DEF LockInv, CallTo, Locked
  <2>7. BoundInv'
    BY <2>4, <2>5 DEF BoundInv, Locked
  <2> QED
    BY <2>6, <2>7
<1>4. ASSUME NEW pc, CallTo(t, pc), pc \in Unexported, call'[t].key = call[t].key,
             call[t].pc \in Unexported, UNCHANGED <<lock, counted, reported>>
      PROVE  LockInv' /\ BoundInv'
  <2>1. call[t].key \in Key
    BY <1>t, <1>4 DEF LockInv, Increment
  <2>2. \A u \in Thread \ {t} : call[u].pc \in Locked => lock' = u
    BY <1>t, <1>4 DEF LockInv
  <2>3. pc \notin Locked /\ pc # "store" /\ pc # "clear" /\ pc \notin {"load", "store"}
    BY <1>4 DEF Unexported, Locked
  <2> QED
    BY <1>4, <2>1, <2>2, <2>3, LockKeeps
<1>5. CASE Lookup(t) \/ Create(t) \/ Cache(t)
  <2>1. /\ call[t].pc \in Unexported /\ UNCHANGED <<lock, counted, reported>>
        /\ \E pc \in Unexported : CallTo(t, pc) /\ call'[t].key = call[t].key
    BY <1>5, <1>t, CallMoves DEF Lookup, Create, Cache, Unexported
  <2> QED
    BY <1>4, <2>1
<1>6. CASE Add(t) \/ Swallow(t)
  <2>1. CallTo(t, "none") /\ UNCHANGED <<lock, counted, reported>>
    BY <1>6, <1>t, CallMoves DEF Add, Swallow
  <2>2. \A u \in Thread \ {t} : call[u].pc \in Locked => lock' = u
    BY <1>t, <2>1 DEF LockInv
  <2>3. "none" \notin Locked /\ "none" \notin Increment
    BY DEF Locked, Increment, Unexported
  <2> QED
    BY <2>1, <2>2, <2>3, LockKeeps
<1>7. CASE Copy(t)
  <2>1. /\ CallTo(t, "clear") /\ call'[t].snap = counted /\ call[t].pc = "copy"
        /\ UNCHANGED <<lock, counted, reported>>
    BY <1>7, <1>t, CallMoves DEF Copy
  <2>2. lock = t
    BY <1>t, <2>1 DEF LockInv, Locked
  <2>3. \A u \in Thread \ {t} : call[u].pc \notin Locked
    BY <1>a, <2>1 DEF Locked
  <2>4. "clear" \notin Increment
    BY DEF Increment, Unexported
  <2> QED
    BY <2>1, <2>2, <2>3, <2>4, LockKeeps
<1>8. CASE Clear(t)
  <2>1. /\ CallTo(t, "none") /\ call[t].pc = "clear"
        /\ reported' = [k \in Key |-> reported[k] + call[t].snap[k]]
        /\ counted' = Tally0
    BY <1>8, <1>t, CallMoves DEF Clear
  <2>2. call[t].snap = counted
    BY <1>t, <2>1 DEF LockInv
  <2>3. \A u \in Thread \ {t} : call[u].pc \notin Locked
    BY <1>a, <2>1 DEF Locked
  <2>4. \A u \in Thread : call'[u].pc \notin Locked
    BY <2>1, <2>3 DEF CallTo, Locked
  <2>5. \A k \in Key : counted'[k] + reported'[k] <= MaxCount
    BY <1>t, <1>n, <2>1, <2>2 DEF BoundInv
  <2>6. LockInv'
    BY <1>t, <2>1, <2>4 DEF LockInv, CallTo, Locked, Increment, Unexported
  <2>7. BoundInv'
    BY <2>4, <2>5 DEF BoundInv, Locked
  <2> QED
    BY <2>6, <2>7
<1>9. CASE Read(t)
  <2>1. /\ CallTo(t, "none") /\ call[t].pc = "read" /\ UNCHANGED <<counted, reported>>
    BY <1>9, <1>t, CallMoves DEF Read
  <2>2. \A u \in Thread \ {t} : call[u].pc \notin Locked
    BY <1>a, <2>1 DEF Locked
  <2>3. "none" \notin Locked /\ "none" \notin Increment
    BY DEF Locked, Increment, Unexported
  <2> QED
    BY <2>1, <2>2, <2>3, LockKeeps
<1>10. CASE \E k \in Key : EnterInc(t, k)
  BY <1>1, <1>10 DEF EnterInc
<1>11. CASE Enter(t, "copy", NoKey) \/ Enter(t, "read", NoKey)
  BY <1>1, <1>11 DEF Increment, Unexported
<1> QED
  BY <1>2, <1>3, <1>5, <1>6, <1>7, <1>8, <1>9, <1>10, <1>11 DEF MetricsStep, CallStep

\* MetricsInv always holds in the process.
LEMMA AlwaysMetricsInv == Spec => []MetricsInv
<1>1. Init => MetricsInv
  <2> SUFFICES ASSUME Init PROVE MetricsInv
    OBVIOUS
  <2>1. /\ lock = NoThread /\ counted = Tally0 /\ reported = Tally0 /\ exported = Tally0
        /\ swallowed = Tally0 /\ cached = {} /\ call = [t \in Thread |-> NoCall]
    BY DEF Init, MetricsInit
  <2>2. Tally0 \in [Key -> 0 .. MaxCount] /\ Tally0 \in [Key -> Nat]
    BY MetricsAssumption DEF Tally0, MetricsAssumption
  <2>3. NoCall \in Call /\ NoCall.pc = "none"
    BY <2>2, MetricsAssumption DEF NoCall, Call, CallPoint, MetricsAssumption
  <2>4. MetricsTyped
    BY <2>1, <2>2, <2>3 DEF MetricsTyped
  <2>5. LockInv
    BY <2>1, <2>3 DEF LockInv, Locked, Increment, Unexported
  <2>6. BoundInv
    BY <2>1, <2>3, MetricsAssumption DEF BoundInv, Tally0, MetricsAssumption
  <2> QED
    BY <2>4, <2>5, <2>6 DEF MetricsInv
<1>2. MetricsInv /\ [Next]_vars => MetricsInv'
  <2> SUFFICES ASSUME MetricsInv, [Next]_vars PROVE MetricsInv'
    OBVIOUS
  <2>1. CASE \E t \in Thread : MetricsStep(t)
    BY <2>1, MetricsTypesInductive, LockInductive, MetricsAssumption DEF MetricsInv
  <2>2. CASE UNCHANGED metrics
    BY <2>2 DEF MetricsInv, MetricsTyped, LockInv, BoundInv, Budget, metrics
  <2>3. CASE UNCHANGED vars
    BY <2>2, <2>3 DEF vars, metrics
  <2> QED
    BY <2>1, <2>2, <2>3, MetricsSteps, ProcessAssumption
<1> QED
  BY <1>1, <1>2, PTL DEF Spec

\* Each step on the counters is an increment, a report or nothing.
LEMMA TallyStep ==
  ASSUME MetricsInv, NEW t \in Thread, MetricsStep(t)
  PROVE  [Abstract!TallyNext]_<<counted, reported>>
<1>t. MetricsTyped /\ LockInv
  BY DEF MetricsInv
<1>1. CASE Store(t)
  <2>1. call[t].key \in Key /\ call[t].value = counted[call[t].key]
    BY <1>t, <1>1 DEF LockInv, Store, Increment
  <2>2. Abstract!Count(call[t].key)
    BY <1>t, <1>1, <2>1 DEF Store, Abstract!Count
  <2> QED
    BY <2>1, <2>2 DEF Abstract!TallyNext
<1>2. CASE Clear(t)
  <2>1. call[t].snap = counted
    BY <1>t, <1>2 DEF LockInv, Clear
  <2>2. Abstract!Report
    BY <1>2, <2>1 DEF Clear, Abstract!Report, Tally0
  <2> QED
    BY <2>2 DEF Abstract!TallyNext
<1>3. Store(t) \/ Clear(t) \/ UNCHANGED <<counted, reported>>
  BY DEF MetricsStep, CallStep, EnterInc, Enter, Load, Lookup, Create, Cache, Add, Copy, Read,
         Swallow
<1> QED
  BY <1>1, <1>2, <1>3

\* The threads that count and the loop that reports see every increment, and
\* every report, as one step: none is lost between the read and the write of
\* another, nor between the copy and the reset.
THEOREM CountsAreAtomic == Spec => Tally
<1>1. Init => Abstract!TallyInit
  BY DEF Init, MetricsInit, Tally0, Abstract!TallyInit
<1>2. MetricsInv /\ [Next]_vars => [Abstract!TallyNext]_<<counted, reported>>
  <2> SUFFICES ASSUME MetricsInv, [Next]_vars
               PROVE  [Abstract!TallyNext]_<<counted, reported>>
    OBVIOUS
  <2>1. (\E t \in Thread : MetricsStep(t)) \/ UNCHANGED <<counted, reported>>
    BY MetricsSteps, ProcessAssumption DEF vars, metrics
  <2> QED
    BY <2>1, TallyStep
<1> QED
  BY <1>1, <1>2, AlwaysMetricsInv, PTL DEF Spec, Tally, Abstract!TallySpec

-----------------------------------------------------------------------------
(* What was counted is exported                                             *)

\* The calls that counted k and did not export it yet.
Exporting(k) == {t \in Thread : call[t].key = k /\ call[t].pc \in Unexported}

\* Those that are over, there.
Over(k) == exported[k] + swallowed[k]

ExportInv ==
  \A k \in Key : IsFiniteSet(Exporting(k))
                   /\ counted[k] + reported[k] = Over(k) + Cardinality(Exporting(k))

\* Every step of a thread in the counters keeps ExportInv.
LEMMA ExportInductive ==
  ASSUME MetricsInv, ExportInv, NEW t \in Thread, MetricsStep(t)
  PROVE  ExportInv'
<1>t. MetricsTyped /\ LockInv /\ BoundInv
  BY DEF MetricsInv
<1>n. /\ counted \in [Key -> Nat] /\ reported \in [Key -> Nat]
      /\ exported \in [Key -> Nat] /\ swallowed \in [Key -> Nat]
      /\ \A k \in Key : Over(k) \in Nat
  BY <1>t DEF MetricsTyped, Over
<1>f. \A k \in Key : /\ IsFiniteSet(Exporting(k)) /\ Cardinality(Exporting(k)) \in Nat
                     /\ counted[k] + reported[k] = Over(k) + Cardinality(Exporting(k))
  BY FS_CardinalityType DEF ExportInv
\* Who is exporting stays or nobody knows its key.
<1>1. ASSUME NEW pc, CallTo(t, pc),
             call[t].pc \in Unexported <=> pc \in Unexported,
             pc \in Unexported => call'[t].key = call[t].key
      PROVE  \A k \in Key : Exporting(k)' = Exporting(k)
  BY <1>1 DEF Exporting, CallTo
<1>2. ASSUME \A k \in Key : Exporting(k)' = Exporting(k), UNCHANGED <<exported, swallowed>>,
             \A k \in Key : counted'[k] + reported'[k] = counted[k] + reported[k]
      PROVE  ExportInv'
  <2>1. ASSUME NEW k \in Key
        PROVE  /\ IsFiniteSet(Exporting(k)')
               /\ counted'[k] + reported'[k] = Over(k)' + Cardinality(Exporting(k)')
    BY <1>2, <1>f DEF Over
  <2> QED
    BY <2>1 DEF ExportInv
<1>3. ASSUME NEW pc, NEW k, Enter(t, pc, k), pc \notin Unexported PROVE ExportInv'
  <2>1. CallTo(t, pc) /\ call[t].pc = "none" /\ UNCHANGED <<counted, exported, swallowed, reported>>
    BY <1>3, <1>t, CallMoves
  <2>2. call[t].pc \notin Unexported
    BY <2>1 DEF Unexported
  <2> QED
    BY <1>1, <1>2, <1>3, <2>1, <2>2
<1>4. CASE Load(t) \/ Copy(t) \/ Read(t)
  <2>1. /\ \E pc : CallTo(t, pc) /\ pc \notin Unexported
        /\ call[t].pc \notin Unexported /\ UNCHANGED <<counted, exported, swallowed, reported>>
    <3>1. "store" \notin Unexported /\ "clear" \notin Unexported /\ "none" \notin Unexported
      BY DEF Unexported
    <3>2. CallTo(t, "store") \/ CallTo(t, "clear") \/ CallTo(t, "none")
      BY <1>4, <1>t, CallMoves
    <3> QED
      BY <1>4, <3>1, <3>2 DEF Load, Copy, Read, Unexported
  <2> QED
    BY <1>1, <1>2, <2>1
<1>5. CASE Clear(t)
  <2>1. CallTo(t, "none") /\ call[t].pc = "clear" /\ UNCHANGED <<exported, swallowed>>
    BY <1>5, <1>t, CallMoves DEF Clear
  <2>2. call[t].pc \notin Unexported /\ "none" \notin Unexported
    BY <2>1 DEF Unexported
  <2>3. call[t].snap = counted
    BY <1>t, <2>1 DEF LockInv
  <2>4. \A k \in Key : counted'[k] + reported'[k] = counted[k] + reported[k]
    BY <1>5, <1>n, <2>3 DEF Clear, Tally0
  <2> QED
    BY <1>1, <1>2, <2>1, <2>2, <2>4
<1>6. CASE Lookup(t) \/ Create(t) \/ Cache(t)
  <2>1. /\ call[t].pc \in Unexported /\ UNCHANGED <<counted, exported, swallowed, reported>>
        /\ \E pc \in Unexported : CallTo(t, pc) /\ call'[t].key = call[t].key
    BY <1>6, <1>t, CallMoves DEF Lookup, Create, Cache, Unexported
  <2> QED
    BY <1>1, <1>2, <2>1
\* The thread that counted k is about to export it.
<1>7. CASE Store(t)
  <2> DEFINE k == call[t].key
  <2>1. CallTo(t, "lookup") /\ call'[t].key = k /\ call[t].pc = "store"
    BY <1>7, <1>t, CallMoves DEF Store
  <2>2. k \in Key /\ call[t].value = counted[k]
    BY <1>t, <2>1 DEF LockInv, Increment
  <2>3. "lookup" \in Unexported /\ "store" \notin Unexported
    BY DEF Unexported
  <2>4. \A l \in Key : Exporting(l)' = IF l = k THEN Exporting(l) \cup {t} ELSE Exporting(l)
    BY <2>1, <2>3 DEF Exporting, CallTo
  <2>5. t \notin Exporting(k)
    BY <2>1, <2>3 DEF Exporting
  <2>6. /\ IsFiniteSet(Exporting(k) \cup {t})
        /\ Cardinality(Exporting(k) \cup {t}) = Cardinality(Exporting(k)) + 1
    BY <1>f, <2>2, <2>5, FS_AddElement
  <2>7. /\ counted'[k] = counted[k] + 1
        /\ \A l \in Key \ {k} : counted'[l] = counted[l]
        /\ UNCHANGED <<reported, exported, swallowed>>
    BY <1>7, <1>n, <2>2 DEF Store
  <2>8. ASSUME NEW l \in Key
        PROVE  /\ IsFiniteSet(Exporting(l)')
               /\ counted'[l] + reported'[l] = Over(l)' + Cardinality(Exporting(l)')
    <3>1. CASE l = k
      <4>1. /\ Exporting(l)' = Exporting(k) \cup {t}
            /\ Cardinality(Exporting(l)') = Cardinality(Exporting(k)) + 1
        BY <2>2, <2>4, <2>6, <3>1
      <4>2. counted'[l] = counted[k] + 1 /\ reported'[l] = reported[k] /\ Over(l)' = Over(k)
        BY <2>7, <3>1 DEF Over
      <4>3. IsFiniteSet(Exporting(l)')
        BY <2>6, <4>1
      <4>4. /\ counted[k] \in Nat /\ reported[k] \in Nat /\ Over(k) \in Nat
            /\ Cardinality(Exporting(k)) \in Nat
            /\ counted[k] + reported[k] = Over(k) + Cardinality(Exporting(k))
        BY <1>f, <1>n, <2>2
      <4> HIDE DEF k
      <4>5. counted'[l] + reported'[l] = Over(l)' + Cardinality(Exporting(l)')
        BY <4>1, <4>2, <4>4
      <4> QED
        BY <4>3, <4>5
    <3>2. CASE l # k
      BY <1>f, <2>4, <2>7, <3>2 DEF Over
    <3> QED
      BY <3>1, <3>2
  <2> QED
    BY <2>8 DEF ExportInv
<1>8. CASE Add(t) \/ Swallow(t)
  <2> DEFINE k == call[t].key
  <2>1. CallTo(t, "none") /\ call[t].pc \in Unexported
    BY <1>8, <1>t, CallMoves DEF Add, Swallow, Unexported
  <2>2. k \in Key
    BY <1>t, <2>1 DEF LockInv, Increment
  <2>3. "none" \notin Unexported
    BY DEF Unexported
  <2>4. \A l \in Key : Exporting(l)' = IF l = k THEN Exporting(l) \ {t} ELSE Exporting(l)
    BY <2>1, <2>3 DEF Exporting, CallTo
  <2>5. t \in Exporting(k)
    BY <2>1 DEF Exporting
  <2>6. /\ IsFiniteSet(Exporting(k) \ {t})
        /\ Cardinality(Exporting(k) \ {t}) = Cardinality(Exporting(k)) - 1
    BY <1>f, <2>2, <2>5, FS_RemoveElement
  <2>7. /\ exported'[k] + swallowed'[k] = exported[k] + swallowed[k] + 1
        /\ \A l \in Key \ {k} : exported'[l] = exported[l] /\ swallowed'[l] = swallowed[l]
        /\ UNCHANGED <<reported, counted>>
    <3>1. CASE Add(t)
      <4>1. exported' = [exported EXCEPT ![k] = @ + 1] /\ UNCHANGED <<swallowed, reported, counted>>
        BY <3>1 DEF Add
      <4> QED
        BY <1>n, <2>2, <4>1
    <3>2. CASE Swallow(t)
      <4>1. swallowed' = [swallowed EXCEPT ![k] = @ + 1] /\ UNCHANGED <<exported, reported, counted>>
        BY <3>2 DEF Swallow
      <4> QED
        BY <1>n, <2>2, <4>1
    <3> QED
      BY <1>8, <3>1, <3>2
  <2>8. ASSUME NEW l \in Key
        PROVE  /\ IsFiniteSet(Exporting(l)')
               /\ counted'[l] + reported'[l] = Over(l)' + Cardinality(Exporting(l)')
    <3>1. CASE l = k
      <4>1. /\ Exporting(l)' = Exporting(k) \ {t}
            /\ Cardinality(Exporting(l)') = Cardinality(Exporting(k)) - 1
        BY <2>2, <2>4, <2>6, <3>1
      <4>2. Over(l)' = Over(k) + 1 /\ reported'[l] = reported[k] /\ counted'[l] = counted[k]
        BY <2>7, <3>1 DEF Over
      <4>3. IsFiniteSet(Exporting(l)')
        BY <2>6, <4>1
      <4>4. /\ counted[k] \in Nat /\ reported[k] \in Nat /\ Over(k) \in Nat
            /\ Cardinality(Exporting(k)) \in Nat
            /\ counted[k] + reported[k] = Over(k) + Cardinality(Exporting(k))
        BY <1>f, <1>n, <2>2
      <4> HIDE DEF k
      <4>5. counted'[l] + reported'[l] = Over(l)' + Cardinality(Exporting(l)')
        BY <4>1, <4>2, <4>4
      <4> QED
        BY <4>3, <4>5
    <3>2. CASE l # k
      BY <1>f, <2>4, <2>7, <3>2 DEF Over
    <3> QED
      BY <3>1, <3>2
  <2> QED
    BY <2>8 DEF ExportInv
<1>9. CASE \E k \in Key : EnterInc(t, k)
  <2>1. "load" \notin Unexported
    BY DEF Unexported
  <2> QED
    BY <1>3, <1>9, <2>1 DEF EnterInc
<1>10. CASE Enter(t, "copy", NoKey) \/ Enter(t, "read", NoKey)
  <2>1. "copy" \notin Unexported /\ "read" \notin Unexported
    BY DEF Unexported
  <2> QED
    BY <1>3, <1>10, <2>1
<1> QED
  BY <1>4, <1>5, <1>6, <1>7, <1>8, <1>9, <1>10 DEF MetricsStep, CallStep

\* ExportInv always holds in the process.
LEMMA AlwaysExportInv == Spec => []ExportInv
<1>1. Init => ExportInv
  <2> SUFFICES ASSUME Init, NEW k \in Key
               PROVE  /\ IsFiniteSet(Exporting(k))
                      /\ counted[k] + reported[k] = Over(k) + Cardinality(Exporting(k))
    BY DEF ExportInv
  <2>1. Exporting(k) = {}
    BY DEF Init, MetricsInit, Exporting, NoCall, Unexported
  <2>2. counted[k] = 0 /\ reported[k] = 0 /\ Over(k) = 0
    BY DEF Init, MetricsInit, Tally0, Over
  <2> QED
    BY <2>1, <2>2, FS_EmptySet
<1>2. MetricsInv /\ ExportInv /\ [Next]_vars => ExportInv'
  <2> SUFFICES ASSUME MetricsInv, ExportInv, [Next]_vars PROVE ExportInv'
    OBVIOUS
  <2>1. (\E t \in Thread : MetricsStep(t)) \/ UNCHANGED <<counted, reported, exported, swallowed, call>>
    BY MetricsSteps, ProcessAssumption DEF vars, metrics
  <2>2. CASE UNCHANGED <<counted, reported, exported, swallowed, call>>
    BY <2>2 DEF ExportInv, Exporting, Over
  <2> QED
    BY <2>1, <2>2, ExportInductive
<1> QED
  BY <1>1, <1>2, AlwaysMetricsInv, PTL DEF Spec

\* An increment that OpenTelemetry lacks is under way or raised there, however many
\* threads create the same OpenTelemetry counter at once.
THEOREM ExportsAreAccountedFor == Spec => []ExportsConserved
<1>1. ExportInv => ExportsConserved
  BY DEF ExportInv, ExportsConserved, Exporting, Unexported, Over
<1> QED
  BY <1>1, AlwaysExportInv, PTL

-----------------------------------------------------------------------------
(* The types                                                                *)

ProcessTyped ==
  /\ ClientTypeOK
  /\ phase \in {"down", "up", "stopping", "summary", "closed", "exited"}
  /\ loop \in {"free", "ready", "inc", "snapshot", "summary", "call", "close"}
  /\ job \in [Job -> JobPoint]
  /\ tick \in TickState

\* The session of o is now in this state, the others are as they were.
SessionTo(o, state) ==
  /\ session'[o].state = state
  /\ \A q \in Owner \ {o} : session'[q] = session[q]

\* What the operations of PostgresClient do to the sessions.
LEMMA SessionMoves ==
  ASSUME ClientTypeOK, NEW o \in Owner
  PROVE  /\ Open(o) => SessionTo(o, "open") /\ session[o].state = "none"
         /\ Want(o) => SessionTo(o, "waiting") /\ session[o].state = "open"
         /\ Connect(o) => SessionTo(o, "connected") /\ session[o].state = "waiting"
         /\ Commit(o) => SessionTo(o, "open") /\ session[o].state = "connected"
         /\ Close(o) => SessionTo(o, "none") /\ session[o].state # "none"
         /\ Abandon(o) \/ CloseUnder(o) =>
              /\ \E state \in {"none", "open", "waiting", "connected"} : SessionTo(o, state)
              /\ session'[o].state = "none" <=> session[o].state = "none"
         /\ UNCHANGED session => SessionTo(o, session[o].state)
         /\ Abandon(o) \/ CloseUnder(o) => ClientTypeOK'
         /\ Open(o) \/ Want(o) \/ Connect(o) \/ Commit(o) \/ Close(o) => ClientTypeOK'
<1>t. /\ session \in [Owner -> Session] /\ session[o] \in Session
      /\ engine \in {"none", "live", "disposed"} /\ factory \in BOOLEAN
  BY DEF ClientTypeOK
<1>1. Open(o) => SessionTo(o, "open") /\ session[o].state = "none"
  BY <1>t DEF Open, SessionTo, Session
<1>2. Want(o) => SessionTo(o, "waiting") /\ session[o].state = "open"
  BY <1>t DEF Want, SessionTo, Session
<1>3. Connect(o) => SessionTo(o, "connected") /\ session[o].state = "waiting"
  BY <1>t DEF Connect, SessionTo, Session
<1>4. Commit(o) => SessionTo(o, "open") /\ session[o].state = "connected"
  BY <1>t DEF Commit, SessionTo, Session
<1>5. Close(o) => SessionTo(o, "none") /\ session[o].state # "none"
  BY <1>t DEF Close, SessionTo, Session, NoSession
<1>6. UNCHANGED session => SessionTo(o, session[o].state)
  BY DEF SessionTo
<1>7. ASSUME NEW s \in Session, session' = [session EXCEPT ![o] = s], UNCHANGED <<engine, factory>>
      PROVE  ClientTypeOK'
  BY <1>t, <1>7 DEF ClientTypeOK
<1>8. ASSUME Open(o) \/ Connect(o) \/ Commit(o) PROVE ClientTypeOK'
  <2>1. \A x \in {"open", "connected"} : [session[o] EXCEPT !.state = x] \in Session
    BY <1>t DEF Session
  <2> QED
    BY <1>7, <1>8, <2>1 DEF Open, Connect, Commit
<1>9. ASSUME Want(o) PROVE ClientTypeOK'
  <2>1. [state |-> "waiting", pool |-> IF engine = "live" THEN "first" ELSE "second"] \in Session
    BY DEF Session
  <2> QED
    BY <1>7, <1>9, <2>1 DEF Want
<1>10. ASSUME Close(o) PROVE ClientTypeOK'
  <2>1. NoSession \in Session
    BY DEF NoSession, Session
  <2> QED
    BY <1>7, <1>10, <2>1 DEF Close
<1>11. ASSUME Abandon(o) \/ CloseUnder(o)
       PROVE  /\ \E state \in {"none", "open", "waiting", "connected"} : SessionTo(o, state)
              /\ session'[o].state = "none" <=> session[o].state = "none"
              /\ ClientTypeOK'
  <2>1. PICK x \in {"none", "open", "waiting", "connected"} :
          /\ session' = [session EXCEPT ![o].state = x] /\ UNCHANGED <<engine, factory>>
          /\ x = "none" <=> session[o].state = "none"
    BY <1>t, <1>11 DEF Abandon, CloseUnder, Session
  <2>2. SessionTo(o, x) /\ session'[o].state = x
    BY <1>t, <2>1 DEF SessionTo, Session
  <2>3. [session[o] EXCEPT !.state = x] \in Session
    BY <1>t DEF Session
  <2> QED
    BY <1>7, <2>1, <2>2, <2>3
<1> QED
  BY <1>1, <1>2, <1>3, <1>4, <1>5, <1>6, <1>8, <1>9, <1>10, <1>11

\* Every step of the process keeps it well typed.
LEMMA ProcessTypesInductive ==
  ASSUME ProcessAssumption, ProcessTyped, [Next]_vars
  PROVE  ProcessTyped'
<1>t. /\ ClientTypeOK /\ job \in [Job -> JobPoint] /\ tick \in TickState
      /\ phase \in {"down", "up", "stopping", "summary", "closed", "exited"}
      /\ loop \in {"free", "ready", "inc", "snapshot", "summary", "call", "close"}
      /\ Loop \in Owner /\ Tick \in Owner /\ Job \subseteq Owner
  BY DEF ProcessTyped, ProcessAssumption
<1>n. NoTick \in TickState
  BY DEF NoTick, TickState, TickPoint
<1>p. \A pc \in TickPoint : [tick EXCEPT !.pc = pc] \in TickState
  BY <1>t DEF TickState
<1>1. ASSUME NEW j \in Job, NEW pc \in JobPoint, JobAt(j, pc), ClientTypeOK' PROVE ProcessTyped'
  BY <1>t, <1>1 DEF JobAt, ProcessTyped
<1>2. ASSUME NEW pc \in TickPoint, TickAt(pc), ClientTypeOK' PROVE ProcessTyped'
  <2>1. tick' \in TickState
    BY <1>p, <1>2 DEF TickAt
  <2> QED
    BY <1>t, <1>2, <2>1 DEF TickAt, ProcessTyped
<1>3. ASSUME NEW state, LoopIn(state), ClientTypeOK',
             state \in {"free", "ready", "inc", "snapshot", "summary", "call", "close"}
      PROVE ProcessTyped'
  BY <1>t, <1>3 DEF LoopIn, ProcessTyped
<1>4. ASSUME UNCHANGED process, ClientTypeOK' PROVE ProcessTyped'
  BY <1>t, <1>4 DEF process, ProcessTyped
<1>5. UNCHANGED client => ClientTypeOK'
  BY <1>t DEF ClientTypeOK, client
<1>6. \A o \in Owner : Open(o) \/ Want(o) \/ Connect(o) \/ Commit(o) \/ Close(o)
                        \/ Abandon(o) \/ CloseUnder(o) => ClientTypeOK'
  BY <1>t, SessionMoves
<1>7. ASSUME NEW j \in Job,
             \/ JobStarts(j) \/ JobWorks(j) \/ JobConnects(j) \/ JobReadsOn(j)
             \/ JobRaises(j) \/ ExpoReturns(j) \/ \E k \in Key : JobCounts(j, k)
      PROVE  ProcessTyped'
  <2>1. ClientTypeOK'
    BY <1>t, <1>5, <1>6, <1>7 DEF JobStarts, JobWorks, JobConnects, JobReadsOn, JobRaises,
          ExpoReturns, JobCounts, JobOpens, JobRefused, JobWants, JobCommits, JobCloses
  <2>2. (\E pc \in JobPoint : JobAt(j, pc)) \/ UNCHANGED process
    BY <1>7 DEF JobStarts, JobWorks, JobConnects, JobReadsOn, JobRaises, ExpoReturns, JobCounts,
          JobOpens, JobRefused, JobWants, JobCommits, JobCloses, JobPoint
  <2> QED
    BY <1>1, <1>4, <2>1, <2>2
<1>8. ASSUME \/ TickWants \/ TickConnects \/ TickCommits \/ TickReads
             \/ \E k \in Key : TickCounts(k)
      PROVE  ProcessTyped'
  <2>1. ClientTypeOK'
    BY <1>t, <1>5, <1>6, <1>8 DEF TickWants, TickConnects, TickCommits, TickReads, TickCounts
  <2>2. (\E pc \in TickPoint : TickAt(pc)) \/ UNCHANGED process
    BY <1>8 DEF TickWants, TickConnects, TickCommits, TickReads, TickCounts, TickPoint
  <2> QED
    BY <1>2, <1>4, <2>1, <2>2
\* A step of the tick that is none of the above.
<1>9. ASSUME tick' \in TickState, ClientTypeOK', UNCHANGED job,
             \/ UNCHANGED <<phase, loop>>
             \/ phase' = "summary" /\ loop' = "summary"
      PROVE  ProcessTyped'
  BY <1>t, <1>9 DEF ProcessTyped
<1>10. ASSUME UNCHANGED <<engine, factory>>,
              session' = [session EXCEPT ![Tick] = [NoSession EXCEPT !.state = "open"]]
       PROVE  ClientTypeOK'
  <2>1. [NoSession EXCEPT !.state = "open"] \in Session
    BY DEF NoSession, Session
  <2> QED
    BY <1>t, <1>10, <2>1 DEF ClientTypeOK
<1>11. ASSUME NEW f \in BOOLEAN, Park(f) PROVE ProcessTyped'
  <2>1. tick' \in TickState
    BY <1>t, <1>11 DEF Park, TickState, TickPoint
  <2>2. ClientTypeOK'
    BY <1>t, <1>6, <1>11 DEF Park
  <2> QED
    BY <1>9, <1>11, <2>1, <2>2 DEF Park
<1>12. ASSUME TickReturns \/ TickRaises PROVE ProcessTyped'
  BY <1>11, <1>12 DEF TickReturns, TickRaises
<1>13. ASSUME TickStarts PROVE ProcessTyped'
  <2>1. tick' \in TickState
    BY <1>13 DEF TickStarts, NoTick, TickState, TickPoint
  <2> QED
    BY <1>t, <1>6, <1>9, <1>13, <2>1 DEF TickStarts
<1>14. ASSUME TickFails \/ GatherEnds PROVE ProcessTyped'
  BY <1>t, <1>n, <1>5, <1>6, <1>9, <1>14 DEF TickFails, GatherEnds
<1>15. ASSUME TickClaims PROVE ProcessTyped'
  <2>1. tick' \in TickState
    BY <1>t, <1>15 DEF TickClaims, TickState, TickPoint
  <2> QED
    BY <1>9, <1>10, <1>15, <2>1 DEF TickClaims
<1>16. ASSUME NEW S, TickGathers(S) PROVE ProcessTyped'
  <2>1. tick' \in TickState
    BY <1>t, <1>n, <1>16 DEF TickGathers, TickState, TickPoint
  <2>2. job' \in [Job -> JobPoint]
    BY <1>t, <1>16 DEF TickGathers, JobPoint
  <2> QED
    BY <1>t, <1>6, <1>16, <2>1, <2>2 DEF TickGathers, ProcessTyped
<1>17. ASSUME \/ ReadyStarts \/ ReadyConnects \/ ReadyFails \/ ReadyWants \/ ReadyAnswers
              \/ LoopReturns \/ LoopEnters
              \/ \E what \in {"inc", "snapshot", "summary"} : LoopCalls(what)
       PROVE  ProcessTyped'
  <2>1. ClientTypeOK'
    BY <1>t, <1>5, <1>6, <1>17 DEF ReadyStarts, ReadyConnects, ReadyFails, ReadyWants,
          ReadyAnswers, LoopReturns, LoopEnters, LoopCalls
  <2>2. \/ \E state \in {"free", "ready", "inc", "snapshot", "summary", "call", "close"} :
             LoopIn(state)
        \/ UNCHANGED process
    BY <1>17 DEF ReadyStarts, ReadyConnects, ReadyFails, ReadyWants, ReadyAnswers, LoopReturns,
          LoopEnters, LoopCalls
  <2> QED
    BY <1>3, <1>4, <2>1, <2>2
<1>18. ASSUME LoopDisposes \/ LoopForgets \/ LoopCloses PROVE ProcessTyped'
  <2>1. ClientTypeOK'
    BY <1>t, <1>18 DEF LoopDisposes, LoopForgets, LoopCloses, Dispose, ForgetEngine,
          ForgetFactory, ClientTypeOK
  <2> QED
    BY <1>t, <1>4, <1>18, <2>1 DEF LoopDisposes, LoopForgets, LoopCloses, ProcessTyped
<1>19. ASSUME StartUp \/ Stop \/ Exit PROVE ProcessTyped'
  <2>1. ClientTypeOK'
    BY <1>t, <1>5, <1>19 DEF StartUp, Stop, Exit, Initialize, ClientTypeOK
  <2> QED
    BY <1>t, <1>19, <2>1 DEF StartUp, Stop, Exit, ProcessTyped
<1>20. ASSUME StopWaits PROVE ProcessTyped'
  BY <1>t, <1>5, <1>9, <1>20 DEF StopWaits, Summarize
<1>21. ASSUME StopCancels PROVE ProcessTyped'
  <2>1. [tick EXCEPT !.cancelled = TRUE] \in TickState
    BY <1>t DEF TickState
  <2>2. tick.pc \in InThread \cup {"parked", "gather"}
    BY <1>t, <1>21 DEF StopCancels, TickState, TickPoint, InThread
  <2>3. tick' \in TickState
    BY <1>n, <1>21, <2>1, <2>2 DEF StopCancels, InThread
  <2>4. ClientTypeOK'
    BY <1>t, <1>5, <1>6, <1>21, <2>2 DEF StopCancels, InThread
  <2> QED
    BY <1>9, <1>21, <2>3, <2>4 DEF StopCancels, Summarize
<1>22. CASE UNCHANGED vars
  BY <1>4, <1>5, <1>22 DEF vars, process, client
<1>23. ASSUME UNCHANGED <<client, process>> PROVE ProcessTyped'
  BY <1>4, <1>5, <1>23
<1>24. ASSUME TickCollected PROVE ProcessTyped'
  BY <1>t, <1>4, <1>6, <1>24 DEF TickCollected
<1> QED
  BY <1>7, <1>8, <1>12, <1>13, <1>14, <1>15, <1>16, <1>17, <1>18, <1>19, <1>20, <1>21, <1>22,
     <1>23, <1>24 DEF Next, TickWorks, TickOnLoop, LoopWorks, StopStep, Exited

\* The process is always well typed.
LEMMA AlwaysProcessTyped == Spec => []ProcessTyped
<1>1. Init => ProcessTyped
  <2>1. NoTick \in TickState /\ NoSession \in Session
    BY DEF NoTick, TickState, TickPoint, NoSession, Session
  <2> QED
    BY <2>1 DEF Init, ClientInit, ProcessTyped, ClientTypeOK, JobPoint
<1>2. ProcessTyped /\ [Next]_vars => ProcessTyped'
  BY ProcessTypesInductive, ProcessAssumption
<1> QED
  BY <1>1, <1>2, PTL DEF Spec

\* Every variable of the process keeps its type, and no counter passes its bound.
THEOREM ProcessTypes == Spec => []TypeOK
<1>1. MetricsInv /\ ExportInv /\ ProcessTyped => TypeOK
  <2> SUFFICES ASSUME MetricsInv, ExportInv, ProcessTyped PROVE TypeOK
    OBVIOUS
  <2>1. /\ counted \in [Key -> Nat] /\ reported \in [Key -> Nat]
        /\ exported \in [Key -> Nat] /\ swallowed \in [Key -> Nat]
        /\ MaxCount \in Nat
    BY MetricsAssumption DEF MetricsInv, MetricsTyped, MetricsAssumption
  <2>2. ASSUME NEW k \in Key PROVE exported[k] \in 0 .. MaxCount /\ swallowed[k] \in 0 .. MaxCount
    <3>1. /\ Cardinality(Exporting(k)) \in Nat
          /\ counted[k] + reported[k] = exported[k] + swallowed[k] + Cardinality(Exporting(k))
          /\ counted[k] + reported[k] <= MaxCount
      BY FS_CardinalityType DEF ExportInv, MetricsInv, BoundInv, Over
    <3> QED
      BY <2>1, <3>1
  <2>3. exported \in [Key -> 0 .. MaxCount] /\ swallowed \in [Key -> 0 .. MaxCount]
    BY <2>1, <2>2
  <2> QED
    BY <2>3 DEF TypeOK, MetricsTypeOK, MetricsInv, MetricsTyped, ProcessTyped
<1> QED
  BY <1>1, AlwaysMetricsInv, AlwaysExportInv, AlwaysProcessTyped, PTL

-----------------------------------------------------------------------------
(* Sessions are closed                                                      *)

JobHasSession  == {"query", "count", "counted"}
TickHasSession == InThread \cup {"parked"}

\* Phases before the tick can be cancelled.
Early == {"down", "up", "stopping"}

\* A job has a connection only between a statement and its commit, and a cancelled
\* tick never gets back to the loop.
SessionInv ==
  /\ NoSessionLeft
  /\ \A j \in Job : session[j].state \in {"waiting", "connected"} => job[j] = "query"
  /\ tick.pc \in {"parked", "gather"} => ~tick.cancelled

\* A step of job j, which leaves its session in this state.
LEMMA JobKeeps ==
  ASSUME ProcessAssumption, ProcessTyped, SessionInv, NEW j \in Job, NEW state, NEW pc,
         SessionTo(j, state), JobAt(j, pc),
         state # "none" <=> pc \in JobHasSession,
         state \in {"waiting", "connected"} => pc = "query"
  PROVE  SessionInv'
<1>1. /\ Job \subseteq Owner /\ Loop \in Owner \ {j} /\ Tick \in Owner \ {j}
      /\ job \in [Job -> JobPoint]
  BY DEF ProcessAssumption, ProcessTyped
<1>2. /\ job'[j] = pc /\ (\A i \in Job \ {j} : job'[i] = job[i])
      /\ UNCHANGED <<phase, loop, tick>>
  BY <1>1 DEF JobAt
<1> QED
  BY <1>1, <1>2 DEF SessionInv, NoSessionLeft, SessionTo, JobHasSession

\* A step of the tick, by which idle jobs may begin.
LEMMA TickKeeps ==
  ASSUME ProcessAssumption, SessionInv, NEW state, SessionTo(Tick, state),
         \A j \in Job : job'[j] = job[j] \/ (job[j] = "idle" /\ job'[j] = "scope"),
         loop' = "ready" <=> loop = "ready",
         tick'.cancelled => phase' \notin Early /\ tick'.pc \notin {"parked", "gather"},
         ~tick'.cancelled => (state # "none" <=> tick'.pc \in TickHasSession)
  PROVE  SessionInv'
<1>1. Job \subseteq Owner \ {Tick} /\ Loop \in Owner \ {Tick}
  BY DEF ProcessAssumption
<1> QED
  BY <1>1 DEF SessionInv, NoSessionLeft, SessionTo, TickHasSession, Early

\* A step of the event loop.
LEMMA LoopKeeps ==
  ASSUME ProcessAssumption, SessionInv, NEW state, SessionTo(Loop, state),
         UNCHANGED <<phase, job, tick>>,
         state # "none" <=> loop' = "ready"
  PROVE  SessionInv'
<1>1. Job \subseteq Owner \ {Loop} /\ Tick \in Owner \ {Loop}
  BY DEF ProcessAssumption
<1> QED
  BY <1>1 DEF SessionInv, NoSessionLeft, SessionTo

\* Every step of the process keeps SessionInv.
LEMMA SessionInductive ==
  ASSUME ProcessAssumption, ProcessTyped, SessionInv, [Next]_vars
  PROVE  SessionInv'
<1>t. /\ ClientTypeOK /\ job \in [Job -> JobPoint] /\ tick \in TickState
      /\ session \in [Owner -> Session]
      /\ Loop \in Owner /\ Tick \in Owner /\ Job \subseteq Owner
  BY DEF ProcessTyped, ClientTypeOK, ProcessAssumption
<1>j. \A j \in Job : /\ session[j].state # "none" <=> job[j] \in JobHasSession
                     /\ session[j].state \in {"waiting", "connected"} => job[j] = "query"
  BY DEF SessionInv, NoSessionLeft, JobHasSession
<1>k. /\ ~tick.cancelled => (session[Tick].state # "none" <=> tick.pc \in TickHasSession)
      /\ tick.cancelled => phase \notin Early
      /\ session[Loop].state # "none" <=> loop = "ready"
  BY DEF SessionInv, NoSessionLeft, TickHasSession, Early
<1>u. UNCHANGED client => \A o \in Owner : SessionTo(o, session[o].state)
  BY DEF client, SessionTo
<1>1. ASSUME NEW j \in Job, \/ JobStarts(j) \/ JobRefused(j) \/ JobReadsOn(j) \/ ExpoReturns(j)
                            \/ \E k \in Key : JobCounts(j, k)
      PROVE  SessionInv'
  <2>1. SessionTo(j, session[j].state)
    BY <1>t, <1>u, <1>1 DEF JobStarts, JobRefused, JobReadsOn, ExpoReturns, JobCounts
  <2>2. \E pc : /\ JobAt(j, pc)
                /\ session[j].state # "none" <=> pc \in JobHasSession
                /\ session[j].state \in {"waiting", "connected"} => pc = "query"
    BY <1>j, <1>1 DEF JobStarts, JobRefused, JobReadsOn, ExpoReturns, JobCounts, JobHasSession
  <2> QED
    BY <2>1, <2>2, JobKeeps
<1>2. ASSUME NEW j \in Job, JobOpens(j) \/ JobCommits(j) PROVE SessionInv'
  <2>1. SessionTo(j, "open") /\ (JobAt(j, "query") \/ JobAt(j, "count"))
    BY <1>t, <1>2, SessionMoves DEF JobOpens, JobCommits
  <2> QED
    BY <2>1, JobKeeps DEF JobHasSession
<1>3. ASSUME NEW j \in Job, JobWants(j) \/ JobConnects(j) PROVE SessionInv'
  <2>1. SessionTo(j, "waiting") \/ SessionTo(j, "connected")
    BY <1>t, <1>3, SessionMoves DEF JobWants, JobConnects
  <2>2. JobAt(j, "query")
    BY <1>t, <1>3 DEF JobWants, JobConnects, JobAt, process
  <2> QED
    BY <2>1, <2>2, JobKeeps DEF JobHasSession
<1>4. ASSUME NEW j \in Job, \/ JobRaises(j) \/ \E next \in {"scope", "expo", "idle"} : JobCloses(j, next)
      PROVE  SessionInv'
  <2>1. SessionTo(j, "none")
    BY <1>t, <1>4, SessionMoves DEF JobRaises, JobCloses
  <2>2. \E pc : JobAt(j, pc) /\ pc \notin JobHasSession
    BY <1>4 DEF JobRaises, JobCloses, JobHasSession
  <2> QED
    BY <2>1, <2>2, JobKeeps
\* The tick.
<1>5. ASSUME NEW state, SessionTo(Tick, state), UNCHANGED <<phase, loop, job>>,
             tick'.cancelled = tick.cancelled,
             tick.cancelled => tick'.pc \notin {"parked", "gather"},
             ~tick.cancelled => state # "none" /\ tick'.pc \in TickHasSession
      PROVE  SessionInv'
  BY <1>5, <1>k, TickKeeps
<1>i. \A pc \in InThread : pc \in TickHasSession /\ pc \notin {"parked", "gather"}
  BY DEF TickHasSession, InThread
<1>6. ASSUME TickStarts PROVE SessionInv'
  <2>1. SessionTo(Tick, "open") /\ UNCHANGED <<phase, loop, job>>
    BY <1>t, <1>6, SessionMoves DEF TickStarts
  <2>2. tick'.pc \in InThread /\ tick'.cancelled = tick.cancelled
    BY <1>t, <1>6 DEF TickStarts, NoTick, TickState, InThread
  <2> QED
    BY <1>i, <1>5, <2>1, <2>2
<1>7. ASSUME TickWants \/ TickConnects PROVE SessionInv'
  <2>1. SessionTo(Tick, "waiting") \/ SessionTo(Tick, "connected")
    BY <1>t, <1>7, SessionMoves DEF TickWants, TickConnects
  <2>2. tick'.pc \in InThread /\ UNCHANGED <<phase, loop, job, tick>>
    BY <1>7 DEF TickWants, TickConnects, process, TickHasSession, InThread
  <2> QED
    BY <1>i, <1>5, <2>1, <2>2
<1>8. ASSUME TickCommits PROVE SessionInv'
  <2>1. SessionTo(Tick, "open")
    BY <1>t, <1>u, <1>8, SessionMoves DEF TickCommits
  <2>2. /\ tick'.pc \in InThread /\ UNCHANGED <<phase, loop, job>>
        /\ tick'.cancelled = tick.cancelled
    BY <1>t, <1>8 DEF TickCommits, TickAt, TickState, TickHasSession, InThread
  <2> QED
    BY <1>i, <1>5, <2>1, <2>2
<1>9. ASSUME TickReads \/ \E k \in Key : TickCounts(k) PROVE SessionInv'
  <2>1. /\ SessionTo(Tick, session[Tick].state)
        /\ ~tick.cancelled => session[Tick].state # "none"
    BY <1>t, <1>k, <1>u, <1>9 DEF TickReads, TickCounts, TickHasSession, InThread
  <2>2. /\ tick'.pc \in InThread /\ UNCHANGED <<phase, loop, job>>
        /\ tick'.cancelled = tick.cancelled
    BY <1>t, <1>9 DEF TickReads, TickCounts, TickAt, TickState, TickHasSession, InThread
  <2> QED
    BY <1>i, <1>5, <2>1, <2>2
\* The thread ends; what it leaves is what it had.
<1>10. ASSUME NEW f \in BOOLEAN, Park(f), tick.pc \in InThread PROVE SessionInv'
  <2>1. PICK state : SessionTo(Tick, state)
    BY <1>t, <1>10, SessionMoves DEF Park
  <2>2. session'[Tick].state = "none" <=> session[Tick].state = "none"
    BY <1>t, <1>10, SessionMoves DEF Park
  <2>3. state # "none" <=> session[Tick].state # "none"
    BY <2>1, <2>2 DEF SessionTo
  <2>4. /\ UNCHANGED <<phase, loop, job>> /\ tick'.cancelled = tick.cancelled
        /\ ~tick.cancelled => tick'.pc \in TickHasSession
        /\ tick.cancelled => tick'.pc = "sleep"
    BY <1>t, <1>10 DEF Park, TickState, TickHasSession
  <2>5. ~tick.cancelled => state # "none"
    BY <1>k, <1>10, <2>3 DEF TickHasSession
  <2> QED
    BY <1>5, <2>1, <2>4, <2>5
<1>11. ASSUME TickReturns \/ TickRaises PROVE SessionInv'
  BY <1>10, <1>11 DEF TickReturns, TickRaises, InThread
<1>12. ASSUME TickFails PROVE SessionInv'
  <2>1. SessionTo(Tick, "none") /\ UNCHANGED <<loop, job>>
    BY <1>t, <1>12, SessionMoves DEF TickFails
  <2>2. tick'.pc \notin TickHasSession /\ ~tick'.cancelled
    BY <1>12 DEF TickFails, NoTick, TickHasSession, InThread
  <2> QED
    BY <2>1, <2>2, TickKeeps
<1>13. ASSUME TickClaims PROVE SessionInv'
  <2>1. SessionTo(Tick, "open") /\ UNCHANGED <<phase, loop, job>>
    BY <1>t, <1>13 DEF TickClaims, SessionTo, NoSession
  <2>2. tick'.pc \in InThread /\ tick'.cancelled = tick.cancelled
    BY <1>t, <1>13 DEF TickClaims, TickState, TickHasSession, InThread
  <2> QED
    BY <1>i, <1>5, <2>1, <2>2
\* The thread is over, and so is what a cancelled tick did.
<1>c. tick.pc \in {"parked", "gather"} => ~tick.cancelled
  BY DEF SessionInv
<1>14. ASSUME NEW S \in SUBSET PollerJob, \A j \in S : job[j] = "idle", TickGathers(S)
       PROVE  SessionInv'
  <2>1. SessionTo(Tick, "none") /\ UNCHANGED <<phase, loop>>
    BY <1>t, <1>14, SessionMoves DEF TickGathers
  <2>2. \A j \in Job : job'[j] = job[j] \/ (job[j] = "idle" /\ job'[j] = "scope")
    BY <1>14 DEF TickGathers
  <2>3. tick'.pc \notin TickHasSession /\ ~tick'.cancelled
    BY <1>t, <1>c, <1>14 DEF TickGathers, NoTick, TickState, TickHasSession, InThread
  <2> QED
    BY <1>k, <2>1, <2>2, <2>3, TickKeeps
<1>15. ASSUME GatherEnds PROVE SessionInv'
  <2>1. SessionTo(Tick, session[Tick].state) /\ session[Tick].state = "none"
    BY <1>t, <1>c, <1>k, <1>u, <1>15 DEF GatherEnds, TickHasSession, InThread
  <2>2. tick'.pc \notin TickHasSession /\ ~tick'.cancelled /\ UNCHANGED <<loop, job>>
    BY <1>15 DEF GatherEnds, NoTick, TickHasSession, InThread
  <2> QED
    BY <2>1, <2>2, TickKeeps
\* The event loop.
<1>16. ASSUME ReadyStarts \/ ReadyWants \/ ReadyConnects PROVE SessionInv'
  <2>1. SessionTo(Loop, "open") \/ SessionTo(Loop, "waiting") \/ SessionTo(Loop, "connected")
    BY <1>t, <1>16, SessionMoves DEF ReadyStarts, ReadyWants, ReadyConnects
  <2>2. loop' = "ready" /\ UNCHANGED <<phase, job, tick>>
    BY <1>16 DEF ReadyStarts, ReadyWants, ReadyConnects, LoopIn, process
  <2> QED
    BY <2>1, <2>2, LoopKeeps
<1>17. ASSUME ReadyAnswers \/ ReadyFails PROVE SessionInv'
  <2>1. SessionTo(Loop, "none") /\ loop' # "ready" /\ UNCHANGED <<phase, job, tick>>
    BY <1>t, <1>17, SessionMoves DEF ReadyAnswers, ReadyFails, LoopIn
  <2> QED
    BY <2>1, LoopKeeps
<1>18. ASSUME \/ LoopReturns \/ LoopEnters \/ LoopDisposes \/ LoopForgets \/ LoopCloses
              \/ \E what \in {"inc", "snapshot", "summary"} : LoopCalls(what)
              \/ StartUp \/ Stop \/ Exit
       PROVE  SessionInv'
  <2>1. UNCHANGED <<session, job, tick>>
    BY <1>18 DEF LoopReturns, LoopEnters, LoopDisposes, LoopForgets, LoopCloses, LoopCalls,
          StartUp, Stop, Exit, LoopIn, client, process, Dispose, ForgetEngine, ForgetFactory,
          Initialize
  <2>2. loop' = "ready" <=> loop = "ready"
    BY <1>18 DEF LoopReturns, LoopEnters, LoopDisposes, LoopForgets, LoopCloses, LoopCalls,
          StartUp, Stop, Exit, LoopIn, process
  <2>3. phase \notin Early => phase' \notin Early
    BY <1>18 DEF LoopReturns, LoopEnters, LoopDisposes, LoopForgets, LoopCloses, LoopCalls,
          StartUp, Stop, Exit, LoopIn, process, Early
  <2> QED
    BY <2>1, <2>2, <2>3 DEF SessionInv, NoSessionLeft, Early
<1>19. ASSUME StopWaits PROVE SessionInv'
  <2>1. SessionTo(Tick, session[Tick].state)
    BY <1>t, <1>u, <1>19 DEF StopWaits
  <2>2. UNCHANGED <<job, tick>> /\ loop # "ready" /\ loop' # "ready" /\ phase \in Early
    BY <1>19 DEF StopWaits, Summarize, Early
  <2> QED
    BY <1>k, <2>1, <2>2, TickKeeps
\* The tick is cancelled: in its thread, parked, or while it gathers.
<1>20. ASSUME StopCancels PROVE SessionInv'
  <2>1. UNCHANGED job /\ loop # "ready" /\ loop' # "ready" /\ phase' \notin Early
    BY <1>20 DEF StopCancels, Summarize, Early
  <2>a. ~tick.cancelled
    BY <1>k, <1>20 DEF StopCancels, Early
  <2>2. CASE tick.pc \in InThread
    <3>1. tick' = [tick EXCEPT !.cancelled = TRUE] /\ CloseUnder(Tick)
      BY <1>20, <2>2 DEF StopCancels, InThread
    <3>2. PICK state : SessionTo(Tick, state)
      BY <1>t, <3>1, SessionMoves
    <3>3. tick'.cancelled /\ tick'.pc \notin {"parked", "gather"}
      BY <1>t, <2>2, <3>1 DEF TickState, InThread
    <3> QED
      BY <2>1, <3>2, <3>3, TickKeeps
  <2>3. CASE tick.pc = "parked"
    <3>1. tick' = NoTick /\ Close(Tick)
      BY <1>20, <2>3 DEF StopCancels, InThread
    <3>2. SessionTo(Tick, "none")
      BY <1>t, <3>1, SessionMoves
    <3>3. tick'.pc \notin TickHasSession /\ ~tick'.cancelled
      BY <3>1 DEF NoTick, TickHasSession, InThread
    <3> QED
      BY <2>1, <3>2, <3>3, TickKeeps
  <2>4. CASE tick.pc = "gather"
    <3>1. tick' = NoTick /\ UNCHANGED client
      BY <1>20, <2>4 DEF StopCancels, InThread
    <3>2. SessionTo(Tick, session[Tick].state) /\ session[Tick].state = "none"
      BY <1>t, <1>k, <1>u, <2>a, <2>4, <3>1 DEF TickHasSession, InThread
    <3>3. tick'.pc \notin TickHasSession /\ ~tick'.cancelled
      BY <3>1 DEF NoTick, TickHasSession, InThread
    <3> QED
      BY <2>1, <3>2, <3>3, TickKeeps
  <2>5. tick.pc \in InThread \cup {"parked", "gather"}
    BY <1>t, <1>20 DEF StopCancels, TickState, TickPoint, InThread
  <2> QED
    BY <2>2, <2>3, <2>4, <2>5
<1>21. ASSUME UNCHANGED <<client, process>> PROVE SessionInv'
  BY <1>21 DEF client, process, SessionInv, NoSessionLeft
<1>25. ASSUME TickCollected PROVE SessionInv'
  <2>1. SessionTo(Tick, "none") /\ UNCHANGED process
    BY <1>t, <1>25, SessionMoves DEF TickCollected
  <2> QED
    BY <1>25, <1>5, <2>1 DEF TickCollected, process
<1>22. CASE UNCHANGED vars
  BY <1>21, <1>22 DEF vars, client, process
<1>23. ASSUME NEW j \in Job,
              \/ JobStarts(j) \/ JobWorks(j) \/ JobConnects(j) \/ JobReadsOn(j)
              \/ JobRaises(j) \/ ExpoReturns(j) \/ \E k \in Key : JobCounts(j, k)
       PROVE  SessionInv'
  BY <1>1, <1>2, <1>3, <1>4, <1>23 DEF JobWorks
<1>24. ASSUME \/ TickStarts \/ TickWorks \/ TickConnects \/ TickRaises \/ TickOnLoop
              \/ \E k \in Key : TickCounts(k)
       PROVE  SessionInv'
  BY <1>6, <1>7, <1>8, <1>9, <1>11, <1>12, <1>13, <1>14, <1>15, <1>24 DEF TickWorks, TickOnLoop
<1> QED
  BY <1>16, <1>17, <1>18, <1>19, <1>20, <1>21, <1>22, <1>23, <1>24, <1>25
     DEF Next, LoopWorks, StopStep, Exited

\* SessionInv always holds.
LEMMA AlwaysSessionInv == Spec => []SessionInv
<1>1. Init => SessionInv
  <2>1. Job \subseteq Owner /\ Tick \in Owner /\ Loop \in Owner
    BY ProcessAssumption DEF ProcessAssumption
  <2> QED
    BY <2>1 DEF Init, ClientInit, SessionInv, NoSessionLeft, NoSession, NoTick, InThread
<1>2. ProcessTyped /\ SessionInv /\ [Next]_vars => SessionInv'
  BY SessionInductive, ProcessAssumption
<1> QED
  BY <1>1, <1>2, AlwaysProcessTyped, PTL DEF Spec

\* Whatever raises or times out, no session stays open and none is kept during a call
\* of Expo, but for that of a tick the shutdown cancelled in its thread.
THEOREM SessionsAreClosed == Spec => []NoSessionLeft
<1>1. SessionInv => NoSessionLeft
  BY DEF SessionInv
<1> QED
  BY <1>1, AlwaysSessionInv, PTL

\* With at least two connections, who waits for one waits for a thread that runs.
\* The only connection nobody works with is that of a tick whose thread ended and
\* waits for the loop, or was cancelled.
THEOREM WaitersAreServed ==
  ASSUME PoolSize > 1
  PROVE  Spec => []WaitsForThread
<1>1. ProcessTyped /\ SessionInv => WaitsForThread
  <2> SUFFICES ASSUME ProcessTyped, SessionInv, NEW o \in Owner,
                      \A q \in Connected(session[o].pool) : ~Runs(q)
               PROVE  Cardinality(Connected(session[o].pool)) < PoolSize
    BY DEF WaitsForThread
  <2> DEFINE C == Connected(session[o].pool)
  <2>1. \A q \in C : q \in Owner /\ session[q].state = "connected"
    BY DEF Connected
  <2>2. Owner = Job \cup {Tick, Loop}
    BY ProcessAssumption DEF ProcessAssumption
  <2>3. \A q \in C : q \notin Job
    BY <2>1 DEF SessionInv, Runs
  <2>4. Loop \notin C
    BY <2>1 DEF SessionInv, NoSessionLeft, Runs
  <2>5. C = {} \/ C = {Tick}
    BY <2>1, <2>2, <2>3, <2>4
  <2>6. Cardinality(C) = 0 \/ Cardinality(C) = 1
    BY <2>5, FS_EmptySet, FS_Singleton
  <2> QED
    BY <2>6, PoolAssumption DEF PoolAssumption
<1> QED
  BY <1>1, AlwaysProcessTyped, AlwaysSessionInv, PTL

=============================================================================
