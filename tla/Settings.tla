-------------------------------- MODULE Settings --------------------------------
(***************************************************************************)
(* How a setting gets its value: the environment of the process, the file  *)
(* its ENV selects, a default, and Secret Manager for secrets.  An         *)
(* environment is a function from names to texts, Null when unset; texts   *)
(* are in lower case, as those compared are.                               *)
(***************************************************************************)
EXTENDS Text

CONSTANTS
  Raises,   \* the outcome of a lookup that raises
  dev       \* the text "dev"

Set(env, key) == env[key] # Null

\* _resolve_env_name: ENV as the process has it; a blank one is not dev.
EnvName(process) ==
  IF Set(process, "ENV") /\ process["ENV"] # <<>> THEN strip(process["ENV"]) ELSE dev

\* load_env_files picks dev.env or .env; a missing file sets nothing.
FileOf(process, files) == IF EnvName(process) = dev THEN files["dev.env"] ELSE files[".env"]

\* Defect: the file overrides the process.
FileFirst(process, files) ==
  LET file == FileOf(process, files)
  IN  [key \in DOMAIN process |-> IF Set(file, key) THEN file[key] ELSE process[key]]

\* load_dotenv adds what the process does not set; set to nothing is set.
Loaded(process, files) ==
  LET file == FileOf(process, files)
  IN  [key \in DOMAIN process |-> IF Set(process, key) THEN process[key] ELSE file[key]]

\* Defect: a text of blanks is taken for unset.
DefaultForBlank(env, key, default) ==
  IF Set(env, key) /\ strip(env[key]) # <<>> THEN strip(env[key]) ELSE default

get_env(env, key, default) ==
  IF Set(env, key) /\ env[key] # <<>> THEN strip(env[key]) ELSE default

\* access_secret_version, for a name that is not empty; vault maps the secrets
\* of the project to their texts.
access_secret_version(env, vault, secret) ==
  IF get_env(env, "PROJECT_NUMBER", <<>>) # <<>> /\ secret \in DOMAIN vault
  THEN vault[secret]
  ELSE Raises

\* Defect: Secret Manager is asked before the environment.
VaultFirst(env, vault, key, name_key, default) ==
  LET secret == get_env(env, name_key, <<>>)
      found  == access_secret_version(env, vault, secret)
  IN  IF secret # <<>> THEN found ELSE get_env(env, key, default)

\* A secret that is in neither place has its default.
get_secret(env, vault, key, name_key, default) ==
  LET value  == get_env(env, key, <<>>)
      secret == get_env(env, name_key, <<>>)
      found  == access_secret_version(env, vault, secret)
  IN  CASE value # <<>>                                   -> value
        [] value = <<>> /\ secret = <<>>                  -> default
        [] value = <<>> /\ secret # <<>> /\ found = Raises -> Raises
        [] OTHER -> IF strip(found) = <<>> THEN default ELSE strip(found)

=============================================================================
