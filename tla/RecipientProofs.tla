---------------------------- MODULE RecipientProofs ----------------------------
(***************************************************************************)
(* Theorems about RecipientResolver: what MCAlgorithms asks about four     *)
(* devices and three users holds for all tables.                           *)
(***************************************************************************)
EXTENDS AlgorithmProofs

\* The columns of ORDER BY are numbers; created_at may be NULL.
Keyed(users, devices, S) ==
  \A d \in S : /\ users[devices[d].user_id].notification_priority \in Int
               /\ devices[d].created_at \in Int \cup {Null}

\* ORDER BY tells the devices apart.
Distinct(users, devices, S) ==
  \A d, e \in S : d # e => \/ Resolver!Before(users, devices, d, e)
                           \/ Resolver!Before(users, devices, e, d)

-----------------------------------------------------------------------------
(* The order of the targets                                                 *)

\* The resolver counts as the library does.
LEMMA SameCardinality ==
  ASSUME NEW S
  PROVE  Resolver!Cardinality(S) = Cardinality(S)
BY DEF Resolver!Cardinality, Cardinality

\* created_at DESC is a strict order.
LEMMA NewerIsStrict ==
  /\ \A x \in Int \cup {Null} : ~Resolver!Newer(x, x)
  /\ \A x, y, z \in Int \cup {Null} :
       Resolver!Newer(x, y) /\ Resolver!Newer(y, z) => Resolver!Newer(x, z)
BY DEF Resolver!Newer

\* ORDER BY is a strict order of the devices.
LEMMA BeforeIsStrict ==
  ASSUME NEW S, NEW users, NEW devices, Keyed(users, devices, S)
  PROVE  /\ \A d \in S : ~Resolver!Before(users, devices, d, d)
         /\ \A d, e, f \in S :
              Resolver!Before(users, devices, d, e) /\ Resolver!Before(users, devices, e, f)
                => Resolver!Before(users, devices, d, f)
<1> DEFINE p(d) == users[devices[d].user_id].notification_priority
           c(d) == devices[d].created_at
           newer(d, e) == Resolver!Newer(c(d), c(e))
           B(d, e) == p(d) > p(e) \/ (p(d) = p(e) /\ newer(d, e))
<1>1. \A d \in S : p(d) \in Int /\ c(d) \in Int \cup {Null}
  BY DEF Keyed
<1>2. \A d, e : Resolver!Before(users, devices, d, e) <=> B(d, e)
  BY DEF Resolver!Before
<1>3. /\ \A d \in S : ~newer(d, d)
      /\ \A d, e, f \in S : newer(d, e) /\ newer(e, f) => newer(d, f)
  <2> HIDE DEF c
  <2> QED
    BY <1>1, NewerIsStrict
<1> HIDE DEF newer, p
<1>4. /\ \A d \in S : ~B(d, d)
      /\ \A d, e, f \in S : B(d, e) /\ B(e, f) => B(d, f)
  BY <1>1, <1>3
<1> QED
  BY <1>2, <1>4

\* Of finitely many devices one comes last.
LEMMA SomeLast ==
  ASSUME NEW S, IsFiniteSet(S), NEW users, NEW devices, Keyed(users, devices, S)
  PROVE  \A T \in SUBSET S : T # {} =>
           \E e \in T : \A d \in T : ~Resolver!Before(users, devices, e, d)
<1> DEFINE B(d, e) == Resolver!Before(users, devices, d, e)
           Ends(T) == \E e \in T : \A d \in T : ~B(e, d)
           Bad == {n \in Nat : \E T \in SUBSET S : T # {} /\ Cardinality(T) = n /\ ~Ends(T)}
<1>1. /\ \A d \in S : ~B(d, d)
      /\ \A d, e, f \in S : B(d, e) /\ B(e, f) => B(d, f)
  BY BeforeIsStrict
<1> HIDE DEF B
<1>2. ASSUME NEW T \in SUBSET S PROVE IsFiniteSet(T) /\ Cardinality(T) \in Nat
  BY FS_Subset, FS_CardinalityType
<1>3. ASSUME Bad # {} PROVE FALSE
  <2>1. PICK m \in Bad : \A k \in Bad : m <= k
    <3>1. Bad \in SUBSET Nat
      OBVIOUS
    <3> HIDE DEF Bad
    <3> QED
      BY <1>3, <3>1, LeastElement
  <2>2. PICK T \in SUBSET S : T # {} /\ Cardinality(T) = m /\ ~Ends(T)
    BY <2>1
  <2>3. PICK x \in T : TRUE
    BY <2>2
  <2> DEFINE U == T \ {x}
  <2>4. /\ U \in SUBSET S /\ Cardinality(U) = m - 1 /\ m \in Nat
    BY <1>2, <2>2, <2>3, FS_RemoveElement
  <2>5. Cardinality(U) \in Nat /\ m - 1 \in Nat /\ ~(m <= m - 1)
    BY <1>2, <2>4
  <2>6. CASE U = {}
    <3>1. \A d \in T : ~B(x, d)
      BY <1>1, <2>3, <2>6
    <3> QED
      BY <2>2, <2>3, <3>1
  <2>7. CASE U # {}
    <3>1. Ends(U)
      <4>1. m - 1 \notin Bad
        <5> HIDE DEF Bad
        <5> QED
          BY <2>1, <2>5
      <4> HIDE DEF U, Ends
      <4> QED
        BY <2>4, <2>5, <2>7, <4>1
    <3>2. PICK e \in U : \A d \in U : ~B(e, d)
      BY <3>1
    <3>3. CASE B(e, x)
      <4>1. \A d \in T : ~B(x, d)
        BY <1>1, <2>3, <3>2, <3>3
      <4> QED
        BY <2>2, <2>3, <4>1
    <3>4. CASE ~B(e, x)
      <4>1. e \in T /\ \A d \in T : ~B(e, d)
        BY <3>2, <3>4
      <4> QED
        BY <2>2, <4>1
    <3> QED
      BY <3>3, <3>4
  <2> QED
    BY <2>6, <2>7
<1>4. ASSUME NEW T \in SUBSET S, T # {} PROVE Ends(T)
  <2> HIDE DEF Ends
  <2>1. Cardinality(T) \notin Bad
    BY <1>3
  <2> QED
    BY <1>2, <1>4, <2>1
<1> QED
  BY <1>4 DEF B

\* Finitely many devices can be listed in the order of ORDER BY: the query has an
\* answer.
LEMMA SomeOrder ==
  ASSUME NEW S, IsFiniteSet(S), NEW users, NEW devices, Keyed(users, devices, S)
  PROVE  Resolver!Orders(users, devices, S) # {}
<1> DEFINE B(d, e) == Resolver!Before(users, devices, d, e)
           Listed(T) == \E s \in [1 .. Cardinality(T) -> T] :
                          \A j, k \in 1 .. Cardinality(T) : j < k => s[j] # s[k] /\ ~B(s[k], s[j])
           Bad == {n \in Nat : \E T \in SUBSET S : Cardinality(T) = n /\ ~Listed(T)}
<1>1. \A T \in SUBSET S : T # {} => \E e \in T : \A d \in T : ~B(e, d)
  BY SomeLast
<1> HIDE DEF B
<1>2. ASSUME NEW T \in SUBSET S PROVE IsFiniteSet(T) /\ Cardinality(T) \in Nat
  BY FS_Subset, FS_CardinalityType
<1>3. ASSUME Bad # {} PROVE FALSE
  <2>1. PICK m \in Bad : \A k \in Bad : m <= k
    <3>1. Bad \in SUBSET Nat
      OBVIOUS
    <3> HIDE DEF Bad
    <3> QED
      BY <1>3, <3>1, LeastElement
  <2>2. PICK T \in SUBSET S : Cardinality(T) = m /\ ~Listed(T)
    BY <2>1
  <2>3. CASE T = {}
    <3>1. Cardinality(T) = 0 /\ 1 .. 0 = {}
      BY <2>3, FS_EmptySet
    <3>2. [k \in {} |-> k] \in [1 .. Cardinality(T) -> T]
      BY <3>1
    <3>3. Listed(T)
      BY <3>1, <3>2
    <3> QED
      BY <2>2, <3>3
  <2>4. CASE T # {}
    <3>1. PICK e \in T : \A d \in T : ~B(e, d)
      BY <1>1, <2>4
    <3> DEFINE U == T \ {e}
    <3>2. U \in SUBSET S /\ Cardinality(U) = m - 1 /\ m \in Nat
      BY <1>2, <2>2, <3>1, FS_RemoveElement
    <3>3. Cardinality(U) \in Nat /\ m - 1 \in Nat /\ ~(m <= m - 1)
      BY <1>2, <3>2
    <3>4. Listed(U)
      <4>1. m - 1 \notin Bad
        <5> HIDE DEF Bad
        <5> QED
          BY <2>1, <3>3
      <4> HIDE DEF U, Listed
      <4> QED
        BY <3>2, <3>3, <4>1
    <3>5. PICK s \in [1 .. m - 1 -> U] :
            \A j, k \in 1 .. m - 1 : j < k => s[j] # s[k] /\ ~B(s[k], s[j])
      BY <3>2, <3>4
    <3> DEFINE f == [k \in 1 .. m |-> IF k = m THEN e ELSE s[k]]
    <3>6. ASSUME NEW k \in 1 .. m, k # m PROVE k \in 1 .. m - 1 /\ f[k] = s[k] /\ s[k] \in U
      <4>1. k \in 1 .. m - 1
        BY <3>2, <3>6
      <4> QED
        BY <3>5, <3>6, <4>1
    <3>7. m \in 1 .. m => f[m] = e
      OBVIOUS
    <3>8. f \in [1 .. m -> T]
      BY <3>1, <3>6
    <3>9. ASSUME NEW j \in 1 .. m, NEW k \in 1 .. m, j < k
          PROVE  f[j] # f[k] /\ ~B(f[k], f[j])
      <4>1. j # m /\ j \in 1 .. m - 1
        BY <3>2, <3>9
      <4>2. f[j] = s[j] /\ s[j] \in T /\ s[j] # e
        BY <3>6, <4>1
      <4>3. CASE k = m
        <5> HIDE DEF f
        <5> QED
          BY <3>1, <3>7, <4>2, <4>3
      <4>4. CASE k # m
        <5>1. f[k] = s[k] /\ k \in 1 .. m - 1
          BY <3>6, <4>4
        <5> HIDE DEF f
        <5> QED
          BY <3>5, <3>9, <4>1, <4>2, <5>1
      <4> QED
        BY <4>3, <4>4
    <3>10. Listed(T)
      <4> HIDE DEF f
      <4> QED
        BY <2>2, <3>8, <3>9
    <3> QED
      BY <2>2, <3>10
  <2> QED
    BY <2>3, <2>4
<1>4. Listed(S)
  <2> HIDE DEF Listed
  <2>1. Cardinality(S) \notin Bad
    BY <1>3
  <2> QED
    BY <1>2, <2>1
<1>5. PICK s \in [1 .. Cardinality(S) -> S] :
        \A j, k \in 1 .. Cardinality(S) : j < k => s[j] # s[k] /\ ~B(s[k], s[j])
  BY <1>4
<1>6. DOMAIN s = 1 .. Cardinality(S)
  OBVIOUS
<1>7. s \in Resolver!Orders(users, devices, S)
  BY <1>5, <1>6, SameCardinality DEF B, Resolver!Orders
<1> QED
  BY <1>7

\* What the resolver lists: every device it found, once, in the order of the
\* query.
LEMMA Resolved ==
  ASSUME NEW users, NEW devices, NEW job, job.tenant_id # Null,
         IsFiniteSet(Resolver!Found(users, devices, job)),
         Keyed(users, devices, Resolver!Found(users, devices, job)),
         Distinct(users, devices, Resolver!Found(users, devices, job))
  PROVE  LET targets == Resolver!resolve(users, devices, job)
             found   == Resolver!Found(users, devices, job)
         IN  /\ DOMAIN targets = 1 .. Cardinality(found) /\ Cardinality(found) \in Nat
             /\ {targets[k] : k \in DOMAIN targets} = found
             /\ \A j, k \in DOMAIN targets :
                  j < k => Resolver!Before(users, devices, targets[j], targets[k])
<1> DEFINE targets == Resolver!resolve(users, devices, job)
           F == Resolver!Found(users, devices, job)
           n == Cardinality(F)
<1>1. targets \in Resolver!Orders(users, devices, F)
  <2>1. Resolver!Orders(users, devices, F) # {}
    BY SomeOrder
  <2>2. targets = CHOOSE s \in Resolver!Orders(users, devices, F) : TRUE
    BY DEF Resolver!resolve
  <2> HIDE DEF targets, F
  <2> QED
    BY <2>1, <2>2
<1> HIDE DEF targets, F
<1>2. /\ targets \in [1 .. n -> F] /\ DOMAIN targets = 1 .. n
      /\ \A j, k \in 1 .. n : j < k => /\ targets[j] # targets[k]
                                       /\ ~Resolver!Before(users, devices, targets[k], targets[j])
  BY <1>1, SameCardinality DEF Resolver!Orders
<1>3. IsFiniteSet(F) /\ n \in Nat
  BY FS_CardinalityType DEF F
<1>4. {targets[k] : k \in 1 .. n} = F
  <2>1. \A j, k \in 1 .. n : targets[j] = targets[k] => j = k
    <3>1. ASSUME NEW j \in 1 .. n, NEW k \in 1 .. n, targets[j] = targets[k], j # k
          PROVE  FALSE
      <4>1. j < k \/ k < j
        BY <1>3, <3>1
      <4> QED
        BY <1>2, <3>1, <4>1
    <3> QED
      BY <3>1
  <2>2. targets \in Injection(1 .. n, F)
    BY <1>2, <2>1 DEF Injection, IsInjective
  <2>3. IsFiniteSet(1 .. n) /\ Cardinality(1 .. n) = n
    <3> HIDE DEF n
    <3>1. 1 \in Int /\ n \in Int
      BY <1>3
    <3>2. IsFiniteSet(1 .. n) /\ Cardinality(1 .. n) = IF 1 > n THEN 0 ELSE n - 1 + 1
      BY <3>1, FS_Interval
    <3> QED
      BY <1>3, <3>2
  <2>4. targets \in Surjection(1 .. n, F)
    BY <1>3, <2>2, <2>3, FS_Injection
  <2> QED
    BY <1>2, <2>4 DEF Surjection
<1>5. ASSUME NEW j \in 1 .. n, NEW k \in 1 .. n, j < k
      PROVE  Resolver!Before(users, devices, targets[j], targets[k])
  <2>1. /\ targets[j] \in F /\ targets[k] \in F /\ targets[j] # targets[k]
        /\ ~Resolver!Before(users, devices, targets[k], targets[j])
    BY <1>2, <1>5
  <2> QED
    BY <2>1 DEF Distinct, F
<1> QED
  BY <1>2, <1>3, <1>4, <1>5 DEF targets, F

\* Without a tenant nobody is told.
LEMMA NoTenantNobody ==
  ASSUME NEW users, NEW devices, NEW job, job.tenant_id = Null
  PROVE  DOMAIN Resolver!resolve(users, devices, job) = {}
<1>1. Resolver!resolve(users, devices, job) = <<>>
  BY DEF Resolver!resolve
<1>2. Len(<<>>) = 0 /\ DOMAIN <<>> = 1 .. 0
  OBVIOUS
<1> QED
  BY <1>1, <1>2

-----------------------------------------------------------------------------
(* The theorems                                                             *)

\* For all tables of users with an id: who is outside the tenant and no platform
\* admin, and what the actor has, does not change the answer.
THEOREM OutsidersDoNotMatter ==
  ASSUME Null \notin DOMAIN asked.users
  PROVE  OutsidersChangeNothing
<1> DEFINE users   == asked.users
           devices == asked.devices
           job     == asked.job
           insider == {id \in DOMAIN users : \/ users[id].role = "platform_admin"
                                             \/ job.tenant_id \in {users[id].tenant_id,
                                                                   users[id].scope_tenant_id}}
           others  == {d \in DOMAIN devices : devices[d].user_id \in insider \ {job.actor_user_id}}
           fewer   == [id \in insider |-> users[id]]
           rest    == [d \in others |-> devices[d]]
<1> SUFFICES ASSUME job.actor_user_id = Null \/ ~Resolver!ActorIsAdmin(users, job),
                    job.tenant_id # Null
             PROVE  Resolver!resolve(users, devices, job) = Resolver!resolve(fewer, rest, job)
  BY DEF OutsidersChangeNothing, Resolver!resolve
<1>1. /\ ~Resolver!ActorIsAdmin(users, job)
      /\ ~Resolver!ActorIsAdmin(fewer, job)
  BY DEF Resolver!ActorIsAdmin
<1>2. /\ DOMAIN fewer = insider /\ insider \subseteq DOMAIN users
      /\ \A id \in insider : fewer[id] = users[id]
      /\ DOMAIN rest = others /\ others \subseteq DOMAIN devices
      /\ \A d \in others : rest[d] = devices[d] /\ devices[d].user_id \in insider
  OBVIOUS
<1>3. ASSUME NEW d PROVE d \in Resolver!Found(users, devices, job) => d \in others
  BY <1>1 DEF Resolver!Found, Resolver!Concerned, Resolver!OfTenant, Resolver!NotActor
<1> HIDE DEF fewer, rest, others, insider
<1>4. ASSUME NEW d
      PROVE  d \in Resolver!Found(users, devices, job) <=> d \in Resolver!Found(fewer, rest, job)
  <2>1. ASSUME NEW e \in others
        PROVE  e \in Resolver!Found(users, devices, job) <=> e \in Resolver!Found(fewer, rest, job)
    BY <1>1, <1>2 DEF Resolver!Found, Resolver!Concerned
  <2>2. d \in Resolver!Found(fewer, rest, job) => d \in others
    BY <1>2 DEF Resolver!Found
  <2> QED
    BY <1>3, <2>1, <2>2
<1>5. Resolver!Found(users, devices, job) = Resolver!Found(fewer, rest, job)
  BY <1>4
<1> DEFINE F == Resolver!Found(users, devices, job)
<1>6. ASSUME NEW d \in F, NEW e \in F
      PROVE  Resolver!Before(users, devices, d, e) <=> Resolver!Before(fewer, rest, d, e)
  BY <1>2, <1>3 DEF Resolver!Before
<1> HIDE DEF F
<1>7. Resolver!Orders(users, devices, F) = Resolver!Orders(fewer, rest, F)
  <2>1. ASSUME NEW s
        PROVE  s \in Resolver!Orders(users, devices, F) <=> s \in Resolver!Orders(fewer, rest, F)
    <3>1. CASE s \in [1 .. Cardinality(F) -> F]
      <4>1. \A j \in DOMAIN s : s[j] \in F
        BY <3>1
      <4>2. \A j, k \in DOMAIN s : Resolver!Before(users, devices, s[k], s[j])
                                      <=> Resolver!Before(fewer, rest, s[k], s[j])
        BY <1>6, <4>1
      <4> QED
        BY <3>1, <4>2, SameCardinality DEF Resolver!Orders
    <3>2. CASE s \notin [1 .. Cardinality(F) -> F]
      BY <3>2, SameCardinality DEF Resolver!Orders
    <3> QED
      BY <3>1, <3>2
  <2>2. Resolver!Orders(users, devices, F) \subseteq Resolver!Orders(fewer, rest, F)
    BY <2>1
  <2>3. Resolver!Orders(fewer, rest, F) \subseteq Resolver!Orders(users, devices, F)
    BY <2>1
  <2> QED
    BY <2>2, <2>3
<1> QED
  BY <1>5, <1>7 DEF Resolver!resolve, F

\* A row of device_tokens, as the resolver sees it.
DeviceRow(devices) ==
  \A d \in DOMAIN devices :
    devices[d] = [user_id |-> devices[d].user_id, blank |-> devices[d].blank,
                  is_active |-> devices[d].is_active, created_at |-> devices[d].created_at]

\* For all tables in which finitely many devices are found and ORDER BY tells them
\* apart: tokens that became inactive drop out of the answer, and
\* the others keep their order.
THEOREM InactiveOnesDropOut ==
  ASSUME DeviceRow(asked.devices),
         LET all   == [d \in DOMAIN asked.devices |-> [asked.devices[d] EXCEPT !.is_active = TRUE]]
             found == Resolver!Found(asked.users, all, asked.job)
         IN  /\ IsFiniteSet(found)
             /\ Keyed(asked.users, all, found)
             /\ Distinct(asked.users, all, found)
  PROVE  TargetsAreFiltered
<1> DEFINE users   == asked.users
           devices == asked.devices
           job     == asked.job
           all     == [d \in DOMAIN devices |-> [devices[d] EXCEPT !.is_active = TRUE]]
           now     == Resolver!resolve(users, devices, job)
           whole   == Resolver!resolve(users, all, job)
           F       == Resolver!Found(users, devices, job)
           W       == Resolver!Found(users, all, job)
<1>1. CASE job.tenant_id = Null
  <2>1. DOMAIN now = {} /\ DOMAIN whole = {}
    BY <1>1, NoTenantNobody
  <2> QED
    BY <2>1 DEF TargetsAreFiltered
<1>2. CASE job.tenant_id # Null
  <2>1. /\ DOMAIN all = DOMAIN devices
        /\ \A d \in DOMAIN devices :
             /\ all[d].user_id = devices[d].user_id /\ all[d].blank = devices[d].blank
             /\ all[d].is_active = TRUE /\ all[d].created_at = devices[d].created_at
    BY DEF DeviceRow
  <2> HIDE DEF all
  <2>2. F = {d \in W : devices[d].is_active = TRUE} /\ W \subseteq DOMAIN devices
    <3>1. ASSUME NEW d PROVE d \in F <=> d \in W /\ devices[d].is_active = TRUE
      BY <2>1 DEF Resolver!Found, Resolver!Enabled
    <3>2. W \subseteq DOMAIN devices
      BY <2>1 DEF Resolver!Found
    <3> HIDE DEF F, W
    <3> QED
      BY <3>1, <3>2
  <2>3. /\ IsFiniteSet(W) /\ Keyed(users, all, W) /\ Distinct(users, all, W)
    BY DEF all
  <2>4. ASSUME NEW d \in W, NEW e \in W
        PROVE  Resolver!Before(users, devices, d, e) <=> Resolver!Before(users, all, d, e)
    <3>1. d \in DOMAIN devices /\ e \in DOMAIN devices
      BY <2>2
    <3> HIDE DEF W
    <3> QED
      BY <2>1, <3>1 DEF Resolver!Before
  <2>5. /\ IsFiniteSet(F) /\ Keyed(users, devices, F) /\ Distinct(users, devices, F)
    <3> HIDE DEF F, W
    <3>1. IsFiniteSet(F)
      BY <2>2, <2>3, FS_Subset
    <3>2. Keyed(users, devices, F)
      BY <2>1, <2>2, <2>3 DEF Keyed
    <3>3. Distinct(users, devices, F)
      BY <2>2, <2>3, <2>4 DEF Distinct
    <3> QED
      BY <3>1, <3>2, <3>3
  <2>6. /\ {now[i] : i \in DOMAIN now} = F
        /\ \A j, k \in DOMAIN now : j < k => Resolver!Before(users, devices, now[j], now[k])
    BY <1>2, <2>5, Resolved
  <2>7. /\ DOMAIN whole = 1 .. Cardinality(W) /\ Cardinality(W) \in Nat
        /\ {whole[m] : m \in DOMAIN whole} = W
        /\ \A m, n \in DOMAIN whole : m < n => Resolver!Before(users, all, whole[m], whole[n])
    BY <1>2, <2>3, Resolved
  <2>8. \A d, e \in W : Resolver!Before(users, all, d, e) =>
          /\ ~Resolver!Before(users, all, e, d) /\ d # e
    <3> HIDE DEF W
    <3> QED
      BY <2>3, BeforeIsStrict
  <2> HIDE DEF now, whole, F, W
  <2>9. ASSUME NEW i \in DOMAIN now, NEW j \in DOMAIN now,
               NEW m \in DOMAIN whole, NEW n \in DOMAIN whole,
               i < j, now[i] = whole[m], now[j] = whole[n]
        PROVE  m < n
    <3>1. now[i] \in F /\ now[j] \in F /\ whole[m] \in W /\ whole[n] \in W
      BY <2>6, <2>7
    <3>2. Resolver!Before(users, all, whole[m], whole[n])
      BY <2>4, <2>6, <2>9, <3>1
    <3>3. ~Resolver!Before(users, all, whole[n], whole[m]) /\ whole[m] # whole[n]
      BY <2>8, <3>1, <3>2
    <3>4. ~(n < m) /\ m # n /\ m \in Int /\ n \in Int
      BY <2>7, <3>3
    <3> QED
      BY <3>4
  <2>10. {now[i] : i \in DOMAIN now}
           = {d \in {whole[m] : m \in DOMAIN whole} : devices[d].is_active = TRUE}
    BY <2>2, <2>6, <2>7
  <2> QED
    BY <2>9, <2>10 DEF TargetsAreFiltered, now, whole, all
<1> QED
  BY <1>1, <1>2

=============================================================================
