----------------------------- MODULE DatabaseClient -----------------------------
(***************************************************************************)
(* PostgresClient: an engine with its pool, the factory of sessions, and   *)
(* the sessions that are out.  A session takes a connection of the pool    *)
(* with its first statement and gives it back when it commits, rolls back  *)
(* or is closed.                                                           *)
(***************************************************************************)
EXTENDS Naturals, FiniteSets

CONSTANTS
  Owner,     \* what may have a session
  PoolSize   \* PG_POOL_SIZE + PG_MAX_OVERFLOW; as many as owners: NullPool

ASSUME PoolAssumption == PoolSize \in Nat \ {0}

VARIABLES
  engine,    \* _engine
  factory,   \* _session_factory is set
  session    \* the session of each owner

client == <<engine, factory, session>>

\* dispose() gives the engine a new pool; connections that are out stay with
\* the old one.
Session == [state : {"none", "open", "waiting", "connected"},
            pool : {"first", "second"}]

NoSession == [state |-> "none", pool |-> "first"]

ClientTypeOK ==
  /\ engine \in {"none", "live", "disposed"}
  /\ factory \in BOOLEAN
  /\ session \in [Owner -> Session]

ClientInit ==
  /\ engine = "none"
  /\ factory = FALSE
  /\ session = [o \in Owner |-> NoSession]

-----------------------------------------------------------------------------
Initialize ==
  /\ engine = "none"
  /\ engine' = "live"
  /\ factory' = TRUE
  /\ UNCHANGED session

\* close(): the three statements, between which other threads run.
Dispose      == engine = "live" /\ engine' = "disposed" /\ UNCHANGED <<factory, session>>
ForgetEngine == engine = "disposed" /\ engine' = "none" /\ UNCHANGED <<factory, session>>

ForgetFactory == factory /\ factory' = FALSE /\ UNCHANGED <<engine, session>>

\* session().  Without a factory it raises; so does the call of a factory that
\* close() took away after the check.
Refused == ~factory

Open(o) ==
  /\ factory
  /\ session[o].state = "none"
  /\ session' = [session EXCEPT ![o].state = "open"]
  /\ UNCHANGED <<engine, factory>>

\* A statement needs a connection of the engine's pool.  The session has the
\* engine, also when the client has forgotten it.
Want(o) ==
  /\ session[o].state = "open"
  /\ session' = [session EXCEPT ![o] =
                   [state |-> "waiting", pool |-> IF engine = "live" THEN "first" ELSE "second"]]
  /\ UNCHANGED <<engine, factory>>

Connected(p) == {o \in Owner : session[o] = [state |-> "connected", pool |-> p]}

Connect(o) ==
  /\ session[o].state = "waiting"
  /\ Cardinality(Connected(session[o].pool)) < PoolSize
  /\ session' = [session EXCEPT ![o].state = "connected"]
  /\ UNCHANGED <<engine, factory>>

Commit(o) ==
  /\ session[o].state = "connected"
  /\ session' = [session EXCEPT ![o].state = "open"]
  /\ UNCHANGED <<engine, factory>>

\* A statement raises: who waited for a connection does not any more, who had one
\* keeps it until the session is closed.
Abandon(o) ==
  /\ session' = [session EXCEPT ![o].state = IF @ = "waiting" THEN "open" ELSE @]
  /\ UNCHANGED <<engine, factory>>

\* close() of a session that another thread goes on using: its connection goes back,
\* and its next statement takes one again.
CloseUnder(o) ==
  /\ session' = [session EXCEPT ![o].state = IF @ = "connected" THEN "open" ELSE @]
  /\ UNCHANGED <<engine, factory>>

Close(o) ==
  /\ session[o].state # "none"
  /\ session' = [session EXCEPT ![o] = NoSession]
  /\ UNCHANGED <<engine, factory>>

=============================================================================
