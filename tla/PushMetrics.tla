------------------------------ MODULE PushMetrics ------------------------------
(***************************************************************************)
(* PushMetrics: the process-local counters under their lock, and the       *)
(* OpenTelemetry counters fed beside it without one.  Every operation is   *)
(* cut where another thread may come in between.                           *)
(***************************************************************************)
EXTENDS Naturals, FiniteSets

CONSTANTS
  Thread,     \* threads that count or report
  Key,        \* keys of _local: a counter's name with its labels
  Instrument, \* counter names
  Name,       \* Name[k]: the counter's name in the key k
  MaxCount,   \* bound: increments of a key
  NoThread, NoKey

ASSUME MetricsAssumption ==
  /\ Name \in [Key -> Instrument]
  /\ MaxCount \in Nat
  /\ NoThread \notin Thread
  /\ NoKey \notin Key

VARIABLES
  lock,      \* who has _lock
  counted,   \* _local
  call,      \* the call each thread is in
  cached,    \* the names in _otel_counters
  exported,  \* what was added to OpenTelemetry, per key
  swallowed, \* the increments whose exception was passed over, per key (history)
  reported   \* the sum of the summaries logged, per key (history)

metrics == <<lock, counted, call, cached, exported, swallowed, reported>>

Tally0 == [k \in Key |-> 0]

CallPoint == {"none", "load", "store", "lookup", "create", "cache", "add",
              "copy", "read", "clear"}

Call == [pc : CallPoint, key : Key \cup {NoKey}, value : 0 .. MaxCount,
         snap : [Key -> 0 .. MaxCount]]

NoCall == [pc |-> "none", key |-> NoKey, value |-> 0, snap |-> Tally0]

MetricsTypeOK ==
  /\ lock \in Thread \cup {NoThread}
  /\ counted \in [Key -> 0 .. MaxCount]
  /\ call \in [Thread -> Call]
  /\ cached \subseteq Instrument
  /\ exported \in [Key -> 0 .. MaxCount]
  /\ swallowed \in [Key -> 0 .. MaxCount]
  /\ reported \in [Key -> 0 .. MaxCount]

MetricsInit ==
  /\ lock = NoThread
  /\ counted = Tally0
  /\ call = [t \in Thread |-> NoCall]
  /\ cached = {}
  /\ exported = Tally0
  /\ swallowed = Tally0
  /\ reported = Tally0

-----------------------------------------------------------------------------
Outside(t) == call[t].pc = "none"

Enter(t, pc, k) ==
  /\ Outside(t)
  /\ lock = NoThread
  /\ lock' = t
  /\ call' = [call EXCEPT ![t].pc = pc, ![t].key = k]
  /\ UNCHANGED <<counted, cached, exported, swallowed, reported>>

\* Another increment of k is still within the bound.
Budget(k) == counted[k] + reported[k] < MaxCount

\* _inc: with self._lock.
EnterInc(t, k) == Budget(k) /\ Enter(t, "load", k)

\* self._local[key] += amount reads ... (every amount counts as one)
Load(t) ==
  /\ call[t].pc = "load"
  /\ call' = [call EXCEPT ![t].pc = "store", ![t].value = counted[call[t].key]]
  /\ UNCHANGED <<lock, counted, cached, exported, swallowed, reported>>

\* ... and writes, and the lock is released.  There is a meter: opentelemetry is
\* installed with the service.
Store(t) ==
  /\ call[t].pc = "store"
  /\ counted' = [counted EXCEPT ![call[t].key] = call[t].value + 1]
  /\ lock' = NoThread
  /\ call' = [call EXCEPT ![t].pc = "lookup", ![t].value = 0]
  /\ UNCHANGED <<cached, exported, swallowed, reported>>

\* self._otel_counters.get(name), outside the lock.
Lookup(t) ==
  /\ call[t].pc = "lookup"
  /\ call' = [call EXCEPT ![t].pc = IF Name[call[t].key] \in cached THEN "add" ELSE "create"]
  /\ UNCHANGED <<lock, counted, cached, exported, swallowed, reported>>

\* create_counter, also when another thread has just done so.
Create(t) ==
  /\ call[t].pc = "create"
  /\ call' = [call EXCEPT ![t].pc = "cache"]
  /\ UNCHANGED <<lock, counted, cached, exported, swallowed, reported>>

\* Defect: the thread that creates the counter does not add to it.
CacheOnly(t) ==
  /\ call[t].pc = "cache"
  /\ cached' = cached \cup {Name[call[t].key]}
  /\ call' = [call EXCEPT ![t] = NoCall]
  /\ UNCHANGED <<lock, counted, exported, swallowed, reported>>

\* A second instrument replaces the first one in the cache.
Cache(t) ==
  /\ call[t].pc = "cache"
  /\ cached' = cached \cup {Name[call[t].key]}
  /\ call' = [call EXCEPT ![t].pc = "add"]
  /\ UNCHANGED <<lock, counted, exported, swallowed, reported>>

\* counter.add: both instruments of one name feed the same stream.
Add(t) ==
  /\ call[t].pc = "add"
  /\ exported' = [exported EXCEPT ![call[t].key] = @ + 1]
  /\ call' = [call EXCEPT ![t] = NoCall]
  /\ UNCHANGED <<lock, counted, cached, swallowed, reported>>

\* create_counter or add raises: except Exception: pass.  The increment is lost to
\* OpenTelemetry, and after create_counter the cache has no counter yet.
Swallow(t) ==
  /\ call[t].pc \in {"create", "add"}
  /\ swallowed' = [swallowed EXCEPT ![call[t].key] = @ + 1]
  /\ call' = [call EXCEPT ![t] = NoCall]
  /\ UNCHANGED <<lock, counted, cached, exported, reported>>

\* Defect: the lock is released between copy and clear.
CopyUnlocks(t) ==
  /\ call[t].pc = "copy"
  /\ lock' = NoThread
  /\ call' = [call EXCEPT ![t].pc = "clear", ![t].snap = counted]
  /\ UNCHANGED <<counted, cached, exported, swallowed, reported>>

\* snapshot_and_reset: the copy ...
Copy(t) ==
  /\ call[t].pc = "copy"
  /\ call' = [call EXCEPT ![t].pc = "clear", ![t].snap = counted]
  /\ UNCHANGED <<lock, counted, cached, exported, swallowed, reported>>

\* Defect: the summary does not reset.
ClearKeepsCounts(t) ==
  /\ call[t].pc = "clear"
  /\ reported' = [k \in Key |-> reported[k] + call[t].snap[k]]
  /\ lock' = NoThread
  /\ call' = [call EXCEPT ![t] = NoCall]
  /\ UNCHANGED <<counted, cached, exported, swallowed>>

\* ... and the reset; log_summary logs the copy.
Clear(t) ==
  /\ call[t].pc = "clear"
  /\ reported' = [k \in Key |-> reported[k] + call[t].snap[k]]
  /\ counted' = Tally0
  /\ lock' = NoThread
  /\ call' = [call EXCEPT ![t] = NoCall]
  /\ UNCHANGED <<cached, exported, swallowed>>

\* snapshot: the copy goes to the reader, the counters stay.
Read(t) ==
  /\ call[t].pc = "read"
  /\ lock' = NoThread
  /\ call' = [call EXCEPT ![t] = NoCall]
  /\ UNCHANGED <<counted, cached, exported, swallowed, reported>>

CallStep(t) ==
  Load(t) \/ Store(t) \/ Lookup(t) \/ Create(t) \/ Cache(t) \/ Add(t)
    \/ Copy(t) \/ Clear(t) \/ Read(t)

-----------------------------------------------------------------------------
(* Properties                                                               *)

Abstract == INSTANCE PushTally

\* Increments of any threads and reports are atomic to each other: no count is
\* lost between the read and the write of another one, or between the copy and
\* the reset, and none is reported twice.
Tally == Abstract!TallySpec

\* What the summaries count and OpenTelemetry lacks is under way there or raised
\* there: no increment is lost, or added twice, because two threads looked up,
\* created or cached the same counter at once.
ExportsConserved ==
  \A k \in Key :
    counted[k] + reported[k] =
      exported[k] + swallowed[k]
        + Cardinality({t \in Thread : call[t].key = k /\
                         call[t].pc \in {"lookup", "create", "cache", "add"}})

=============================================================================
