----------------------------- MODULE MCAlgorithms -----------------------------
(***************************************************************************)
(* The pure functions of the worker, asked about small tables, texts and   *)
(* environments: each state is a question, and the invariants are about    *)
(* the answers.                                                            *)
(***************************************************************************)
EXTENDS Settings, PushMessage, TLC

CONSTANTS a, u, v,          \* users: the actor and two others
          da, du1, du2, dv, \* their devices
          t1, t2            \* tenants

Resolver == INSTANCE RecipientResolver

VARIABLE asked

Nothing == [about |-> "nothing"]
Init == asked = Nothing

-----------------------------------------------------------------------------
(* RecipientResolver                                                        *)

\* is_disabled and is_notify_mobile of users who can be reached and who cannot.
Flags == {<<FALSE, TRUE>>, <<Null, Null>>, <<TRUE, TRUE>>, <<FALSE, FALSE>>}

User(tenant, scope, role, flags, priority) ==
  [tenant_id |-> tenant, scope_tenant_id |-> scope, role |-> role,
   is_disabled |-> flags[1], is_notify_mobile |-> flags[2], notification_priority |-> priority]

\* u is any user; of v only the tenant varies, of the actor the role.
UserTables ==
  {a :> User(t1, Null, actor_role, <<FALSE, TRUE>>, 1)
   @@ u :> User(tenant, scope, role, flags, priority)
   @@ v :> User(other, Null, "member", <<FALSE, TRUE>>, 1) :
     actor_role \in Resolver!Role, tenant \in {t1, t2, Null}, scope \in {t1, Null},
     role \in Resolver!Role, flags \in Flags, priority \in 0 .. 2, other \in {t1, t2}}

Device(user, blank, is_active, created_at) ==
  [user_id |-> user, blank |-> blank, is_active |-> is_active, created_at |-> created_at]

\* No two tokens of a user are of the same time, and those of v and u differ too:
\* the order of equals is the database's choice.
DeviceTables ==
  {da :> Device(a, FALSE, TRUE, 3)
   @@ du1 :> Device(u, blank, first, times[1])
   @@ du2 :> Device(u, FALSE, second, times[2])
   @@ dv :> Device(v, FALSE, TRUE, created) :
     blank \in BOOLEAN, first \in Resolver!NullableBoolean, second \in BOOLEAN,
     times \in {<<2, 4>>, <<4, 2>>, <<Null, 2>>, <<2, Null>>}, created \in {1, 5}}

\* The actor is nobody, a user, or a user whose row is gone.
Jobs == {[tenant_id |-> tenant, actor_user_id |-> actor] :
           tenant \in {t1, Null}, actor \in {a, Null, "gone"}}

AskRecipients ==
  /\ asked = Nothing
  /\ \E users \in UserTables, devices \in DeviceTables, job \in Jobs :
       asked' = [about |-> "recipients", users |-> users, devices |-> devices, job |-> job]

-----------------------------------------------------------------------------
(* The body of a push                                                       *)

Longest == 5
Texts == UNION {[1 .. length -> {Blank, "x"}] : length \in 0 .. Longest}

AskBody ==
  /\ asked = Nothing
  /\ \E text \in Texts \cup {Null}, limit \in 1 .. Longest :
       asked' = [about |-> "body", text |-> text, limit |-> limit]

-----------------------------------------------------------------------------
(* Settings                                                                 *)

DevText == <<"d">>

Given(ENV, KEY, KEY_NAME, PROJECT_NUMBER) ==
  [ENV |-> ENV, KEY |-> KEY, KEY_NAME |-> KEY_NAME, PROJECT_NUMBER |-> PROJECT_NUMBER]

Processes ==
  {Given(env, key, name, number) :
     env \in {Null, <<>>, <<Blank>>, dev, <<Blank, "d">>, <<"p">>},
     key \in {Null, <<>>, <<Blank>>, <<"k", Blank>>},
     name \in {Null, <<>>, <<"n">>, <<"m", Blank>>}, number \in {Null, <<"1">>}}

\* dev.env and .env: each names the environment it is for or none, and either
\* holds the secret or says where it is.
FilePairs ==
  {[file \in {"dev.env", ".env"} |->
      IF file = "dev.env" THEN Given(devname, plain, Null, Null)
                          ELSE Given(name, Null, secret, Null)] :
     devname \in {Null, dev}, plain \in {Null, <<>>, <<"f">>},
     name \in {Null, <<"p">>}, secret \in {Null, <<"n">>}}

Vaults == {<<"n">> :> text : text \in {<<"s", Blank>>, <<Blank>>}} \cup {<<>>}

AskSettings ==
  /\ asked = Nothing
  /\ \E process \in Processes, files \in FilePairs, vault \in Vaults :
       asked' = [about |-> "settings", process |-> process, files |-> files, vault |-> vault]

Next ==
  \/ AskRecipients
  \/ AskBody
  \/ AskSettings
  \/ asked # Nothing /\ asked' = Nothing

Spec == Init /\ [][Next]_asked

-----------------------------------------------------------------------------
(* Properties                                                               *)

\* Users outside the tenant, unless they are platform admins, and the actor's own
\* devices make no difference to who is pushed to: as if the tables did not have
\* them.  Only an actor who is a platform admin reaches other tenants.
OutsidersChangeNothing ==
  asked.about = "recipients" =>
    LET users   == asked.users
        job     == asked.job
        insider == {id \in DOMAIN users : \/ users[id].role = "platform_admin"
                                          \/ job.tenant_id \in {users[id].tenant_id,
                                                                users[id].scope_tenant_id}}
        others  == {d \in DOMAIN asked.devices :
                      asked.devices[d].user_id \in insider \ {job.actor_user_id}}
    IN  (job.actor_user_id = Null \/ ~Resolver!ActorIsAdmin(users, job)) =>
          Resolver!resolve(users, asked.devices, job)
            = Resolver!resolve([id \in insider |-> users[id]],
                               [d \in others |-> asked.devices[d]], job)

\* What the resolver finds among the tokens that are active when it runs is what
\* it would find were all of them active, less the inactive ones, in the same
\* order: NotificationDelivery may keep the recipients constant and look at
\* is_active only.
TargetsAreFiltered ==
  asked.about = "recipients" =>
    LET devices == asked.devices
        all     == [d \in DOMAIN devices |-> [devices[d] EXCEPT !.is_active = TRUE]]
        now == Resolver!resolve(asked.users, devices, asked.job)
        whole == Resolver!resolve(asked.users, all, asked.job)
    IN  /\ {now[i] : i \in DOMAIN now}
             = {d \in {whole[m] : m \in DOMAIN whole} : devices[d].is_active = TRUE}
        /\ \A i, j \in DOMAIN now, m, n \in DOMAIN whole :
             i < j /\ now[i] = whole[m] /\ now[j] = whole[n] => m < n

\* A body that is cut still says something: it begins with a character of the
\* text and has none but a printed one before its ellipsis, and the ellipsis adds
\* two characters to the limit at most.  A text of blanks is no body.
BodyReadable ==
  asked.about = "body" =>
    LET text  == IF asked.text = Null THEN <<>> ELSE asked.text
        body  == truncate(asked.text, asked.limit)
        shown == SubSeq(body, 1, Len(body) - Len(Ellipsis))
    IN  IF Printed(text) = {} THEN body = Null
        ELSE /\ Len(body) <= asked.limit + 2
             /\ \/ body = strip(text)
                \/ /\ asked.limit < Len(strip(text))
                   /\ body = shown \o Ellipsis
                   /\ shown = SubSeq(strip(text), 1, Len(shown))
                   /\ asked.limit > 1 => shown # <<>> /\ shown[Len(shown)] # Blank

\* The text that the nearest of two places has for key.
Nearest(process, file, key) ==
  CASE Set(process, key)                     -> strip(process[key])
    [] ~Set(process, key) /\ Set(file, key)  -> strip(file[key])
    [] OTHER                                 -> <<>>

\* A text at hand, in the process before the file of its environment, is the
\* secret, whatever ids are set beside it.  Without one an id, from the same two
\* places, is never passed over: the vault has its text, which may be blank, or the
\* lookup raises, so that no default stands in for a secret that cannot be fetched
\* ("get_secret() resolution").
SecretPrecedence ==
  asked.about = "settings" =>
    LET file      == FileOf(asked.process, asked.files)
        Have(key) == Nearest(asked.process, file, key)
        secret    == get_secret(Loaded(asked.process, asked.files), asked.vault,
                                "KEY", "KEY_NAME", <<>>)
    IN  /\ Have("KEY") # <<>> => secret = Have("KEY")
        /\ Have("KEY") = <<>> /\ Have("KEY_NAME") = <<>> => secret = <<>>
        /\ Have("KEY") = <<>> /\ Have("KEY_NAME") # <<>> =>
             secret = IF Have("PROJECT_NUMBER") # <<>> /\ Have("KEY_NAME") \in DOMAIN asked.vault
                      THEN strip(asked.vault[Have("KEY_NAME")])
                      ELSE Raises

\* The environment that chose the file is the one config.ENV names afterwards, by
\* which readiness and the log level go: a process is not dev to one and
\* production to the other.
OneEnvironment ==
  asked.about = "settings" =>
    (EnvName(asked.process) = dev <=> get_env(Loaded(asked.process, asked.files), "ENV", dev) = dev)

=============================================================================
