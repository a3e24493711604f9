--------------------------- MODULE RecipientResolver ---------------------------
(***************************************************************************)
(* RecipientResolver.resolve: which devices get a notification, and in     *)
(* which order.  users and devices are the two tables, as functions of     *)
(* their ids.                                                              *)
(***************************************************************************)
EXTENDS Integers, FiniteSets

CONSTANT Null      \* SQL NULL, Python None

Role == {"platform_admin", "member"}

\* A nullable Boolean column.
NullableBoolean == BOOLEAN \cup {Null}

\* device_tokens.is_active IS TRUE, and neither is_notify_mobile nor is_disabled
\* of its user says no.
Enabled(user, device) ==
  /\ device.is_active = TRUE
  /\ user.is_notify_mobile \in {TRUE, Null}
  /\ user.is_disabled \in {FALSE, Null}

\* A NULL tenant equals none, since the job's is not NULL here.
OfTenant(user, job) == job.tenant_id \in {user.tenant_id, user.scope_tenant_id}

\* The actor's row is looked up by id; there may be none.
ActorIsAdmin(users, job) ==
  /\ job.actor_user_id # Null
  /\ job.actor_user_id \in DOMAIN users
  /\ users[job.actor_user_id].role = "platform_admin"

\* Defect: whoever the actor is, everybody is concerned.
Everybody(users, job, user) == job.actor_user_id # Null \/ OfTenant(user, job)

\* Whom the notification concerns: its tenant and every platform admin, or,
\* if a platform admin caused it, everybody.
Concerned(users, job, user) ==
  \/ ActorIsAdmin(users, job)
  \/ OfTenant(user, job)
  \/ user.role = "platform_admin"

\* Nobody is told of what they did themselves.
NotActor(job, id) == job.actor_user_id = Null \/ id # job.actor_user_id

\* The order of created_at DESC, in which NULL comes first.
Newer(x, y) == x # y /\ (x = Null \/ (y # Null /\ x > y))

\* Defect: a user is pushed to on the newest active device only.
NewestFound(users, devices, job) ==
  LET active(d) == devices[d].user_id \in DOMAIN users /\ Enabled(users[devices[d].user_id], devices[d])
  IN  {d \in DOMAIN devices :
         /\ active(d) /\ ~devices[d].blank
         /\ Concerned(users, job, users[devices[d].user_id])
         /\ NotActor(job, devices[d].user_id)
         /\ \A e \in DOMAIN devices :
              devices[e].user_id = devices[d].user_id /\ active(e) =>
                ~Newer(devices[e].created_at, devices[d].created_at)}

\* The rows of the query whose token is not blank.
Found(users, devices, job) ==
  {d \in DOMAIN devices :
     LET id == devices[d].user_id
     IN  /\ id \in DOMAIN users
         /\ Enabled(users[id], devices[d])
         /\ Concerned(users, job, users[id])
         /\ NotActor(job, id)
         /\ ~devices[d].blank}

\* ORDER BY notification_priority DESC, created_at DESC.
Before(users, devices, d, e) ==
  LET p == users[devices[d].user_id].notification_priority
      q == users[devices[e].user_id].notification_priority
  IN  p > q \/ (p = q /\ Newer(devices[d].created_at, devices[e].created_at))

\* The answers that order allows for the devices of S: which of two devices that
\* neither column tells apart comes first is the database's choice.
Orders(users, devices, S) ==
  {s \in [1 .. Cardinality(S) -> S] :
     \A j, k \in DOMAIN s : j < k => s[j] # s[k] /\ ~Before(users, devices, s[k], s[j])}

resolve(users, devices, job) ==
  IF job.tenant_id = Null THEN <<>>
  ELSE CHOOSE s \in Orders(users, devices, Found(users, devices, job)) : TRUE

=============================================================================
