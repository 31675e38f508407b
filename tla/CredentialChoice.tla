-------------------------- MODULE CredentialChoice --------------------------
(***************************************************************************)
(* Which credential an operation uses: pkg/aliyun/credentials.go, from the *)
(* two configuration files and the environment.  A value is named after    *)
(* the place that holds it, so that one sees where each part of a          *)
(* credential comes from.                                                  *)
(***************************************************************************)
EXTENDS FiniteSets, Naturals

CONSTANTS Names,     \* profile names
          Env,       \* the environment, as a place
          Malformed, \* the account of an ARN that does not parse
          None

KeyFields == {"access_key_id", "access_key_secret", "sts_token"}
RoleFields == {"ram_role_arn", "oidc_provider_arn", "oidc_token_file"}
OwnFields == {"ram_role_name", "process_command", "credentials_uri", "cloud_sso_sign_in_url",
              "oauth_site_type", "bearer_token"}
Fields == KeyFields \cup RoleFields \cup OwnFields
\* What the environment may hold; for two of them an alias is not read everywhere.
EnvFields == KeyFields \cup RoleFields \cup {"ram_role_name", "credentials_uri", "bearer_token"}
Aliased == {"sts_token", "ram_role_arn"}

Modes == {"AK", "StsToken", "RamRoleArn", "EcsRamRole", "ChainableRamRoleArn", "OIDC", "CloudSSO",
          "OAuth", "External", "CredentialsURI", "BearerToken"}

\* A place that holds values: a profile of a file, or the environment.  Its
\* ARNs all name one account.
Place(name, mode, has, account, source) ==
  [name |-> name, mode |-> mode, has |-> has, account |-> account, source |-> source]
NoProfile == Place(None, None, {}, None, None)

\* stringMapField and credentialEnvironmentValue.
Value(place, f) == IF f \in place.has THEN place.name ELSE None
First(a, b) == IF a # None THEN a ELSE b

\* A credential: the mode, where the key's id, secret and token come from, and
\* the role it is used to assume with the account of the role's ARN.
Credential(mode, key, role, account) ==
  [error |-> None, mode |-> mode, key |-> key, role |-> role, account |-> account]
Codes == {"InvalidCredentials", "MissingCredentials", "CredentialSourceDisabled",
          "UnsupportedCredentialMode", "ProfileNotFound", "Cycle"}
NoKey == [id |-> None, secret |-> None, token |-> None]
Failure(code) == [error |-> code, mode |-> None, key |-> NoKey, role |-> None, account |-> None]
Invalid == Failure("InvalidCredentials") \* credentialResolutionError of a plain error

-----------------------------------------------------------------------------
\* staticCredentialFromValues: a token makes any key a temporary one.
staticCredentialFromValues(key, mode) ==
  IF key.id = None \/ key.secret = None \/ (mode = "StsToken" /\ key.token = None)
  THEN Failure("MissingCredentials")
  ELSE Credential(IF key.token # None THEN "StsToken" ELSE mode, key, None, None)

\* Each part of the key from the profile first, then from the environment.
KeyOf(profile, env) ==
  [id     |-> First(Value(profile, "access_key_id"), Value(env, "access_key_id")),
   secret |-> First(Value(profile, "access_key_secret"), Value(env, "access_key_secret")),
   token  |-> First(Value(profile, "sts_token"), Value(env, "sts_token"))]

\* The account of an ARN found in one of two places.
ArnAccount(profile, env, f) == IF f \in profile.has THEN profile.account ELSE env.account

\* assumeRoleCredential: the source's own role plays no part in the next one.
MutAssumeRole(source, profile, env, mode) == \* mutant: a role that is assumed already is enough
  IF source.role # None THEN source
  ELSE Credential(mode, source.key, First(Value(profile, "ram_role_arn"), Value(env, "ram_role_arn")),
                  ArnAccount(profile, env, "ram_role_arn"))
assumeRoleCredential(source, profile, env, mode) ==
  LET role == First(Value(profile, "ram_role_arn"), Value(env, "ram_role_arn"))
      account == ArnAccount(profile, env, "ram_role_arn") IN
  IF source.error # None THEN source
  ELSE IF role = None \/ account = Malformed THEN Invalid
  ELSE Credential(mode, source.key, role, account)

\* An OIDC token is exchanged for a role of the provider's account.
OIDC(profile, env) ==
  LET parts == [f \in RoleFields |-> First(Value(profile, f), Value(env, f))]
      provider == ArnAccount(profile, env, "oidc_provider_arn")
      role == ArnAccount(profile, env, "ram_role_arn") IN
  IF (\E f \in RoleFields : parts[f] = None) \/ Malformed \in {provider, role} \/ provider # role
  THEN Invalid ELSE Credential("OIDC", NoKey, parts["ram_role_arn"], role)

\* resolveEnvironmentCredential, in its order; a half-set pair or OIDC triple
\* is an error.
resolveEnvironmentCredential(env, disabled) ==
  LET key == KeyOf(NoProfile, env)
      pair == {"access_key_id", "access_key_secret"} IN
  IF pair \subseteq env.has
  THEN IF "ram_role_arn" \notin env.has THEN staticCredentialFromValues(key, "AK")
       ELSE assumeRoleCredential(staticCredentialFromValues(key, "AK"), NoProfile, env, "RamRoleArn")
  ELSE IF pair \cap env.has # {} THEN Invalid
  ELSE IF RoleFields \subseteq env.has THEN OIDC(NoProfile, env)
  ELSE IF "ram_role_name" \in env.has THEN Credential("EcsRamRole", NoKey, None, None)
  ELSE IF RoleFields \cap env.has # {} THEN Invalid
  ELSE IF "credentials_uri" \in env.has THEN
    IF disabled THEN Failure("CredentialSourceDisabled") ELSE Credential("CredentialsURI", NoKey, None, None)
  ELSE IF "bearer_token" \in env.has THEN Credential("BearerToken", NoKey, None, None)
  ELSE Failure("MissingCredentials")

-----------------------------------------------------------------------------
(* A profile of the aliyun file.                                           *)

\* inferCredentialMode, of a profile that declares none; it reads only the
\* first spelling of the two variables that have aliases.
Marks == <<<<"ram_role_name", "EcsRamRole">>, <<"process_command", "External">>,
           <<"credentials_uri", "CredentialsURI">>, <<"oidc_provider_arn", "OIDC">>,
           <<"cloud_sso_sign_in_url", "CloudSSO">>, <<"oauth_site_type", "OAuth">>,
           <<"bearer_token", "BearerToken">>>>
inferCredentialMode(profile, env) ==
  LET key == KeyOf(profile, env)
      Sees(f) == f \in profile.has \/ f \in env.has \ env.aliased
      marked == {i \in DOMAIN Marks : Marks[i][1] \in profile.has} IN
  IF key.id # None /\ key.secret # None
  THEN IF Sees("sts_token") THEN "StsToken" ELSE IF Sees("ram_role_arn") THEN "RamRoleArn" ELSE "AK"
  ELSE IF marked # {} THEN Marks[CHOOSE i \in marked : \A j \in marked : i <= j][2] ELSE None

MutModeOf(profile, env) == \* mutant: a key at hand is taken whatever the profile declares
  LET inferred == inferCredentialMode(profile, env) IN
  IF inferred = None THEN profile.mode ELSE inferred
ModeOf(profile, env) == IF profile.mode = None THEN inferCredentialMode(profile, env) ELSE profile.mode

\* Modes whose source the profile itself must name, and where.
Provider(f, profile, mode, else) ==
  IF f \in profile.has \/ else THEN Credential(mode, NoKey, None, None) ELSE Invalid
Guarded(disabled, credential) == IF disabled THEN Failure("CredentialSourceDisabled") ELSE credential

\* resolveAliyunProfileCredentialWithCache, for every mode but the chained one.
Unchained(profile, mode, env, disabled) ==
  CASE mode = None -> Failure("MissingCredentials")
    [] mode \notin Modes \cup {None} -> Failure("UnsupportedCredentialMode")
    [] mode \in {"AK", "StsToken"} -> staticCredentialFromValues(KeyOf(profile, env), mode)
    [] mode = "RamRoleArn" ->
         assumeRoleCredential(staticCredentialFromValues(KeyOf(profile, env), "AK"), profile, env, mode)
    [] mode = "EcsRamRole" -> Credential(mode, NoKey, None, None)
    [] mode = "OIDC" -> OIDC(profile, env)
    [] mode = "CloudSSO" -> Provider("cloud_sso_sign_in_url", profile, mode, FALSE)
    [] mode = "OAuth" -> Provider("oauth_site_type", profile, mode, FALSE)
    [] mode = "External" -> Guarded(disabled, Provider("process_command", profile, mode, FALSE))
    [] mode = "CredentialsURI" ->
         Guarded(disabled, Provider("credentials_uri", profile, mode, "credentials_uri" \in env.has))
    [] mode = "BearerToken" ->
         IF "bearer_token" \in profile.has \cup env.has THEN Credential(mode, NoKey, None, None)
         ELSE Failure("MissingCredentials")

\* The chained mode: `seen` names the profiles that the chain has been through,
\* before the next one.
Cycle == Failure("Cycle") \* reported as InvalidCredentials
resolveAliyunProfileCredential(aliyun, name, env, disabled) ==
  LET Resolve[at \in (SUBSET Names) \X Names] ==
        LET seen == at[1]
            profile == aliyun[at[2]] IN
        IF at[2] \in seen THEN Cycle
        ELSE IF ModeOf(profile, env) # "ChainableRamRoleArn"
          THEN Unchained(profile, ModeOf(profile, env), env, disabled)
        ELSE IF profile.source = None \/ aliyun[profile.source] = NoProfile THEN Invalid
        ELSE assumeRoleCredential(Resolve[<<seen \cup {at[2]}, profile.source>>], profile, env,
                                  "ChainableRamRoleArn")
  IN Resolve[<<{}, name>>]

-----------------------------------------------------------------------------
(* resolveOpenAPIProfile.                                                  *)

\* What one command finds: whether profiles are ignored, the name it asks for
\* (None: the stored current one, or the default's), that name's profile in
\* the ecctl file and whether it is a native login, the aliyun file, the
\* environment, and whether external sources are disabled.
profileIsNativeOAuth(q) == q.ecctl # NoProfile /\ q.native
profileHasStaticCredentialOverride(q) == q.ecctl.has \cap KeyFields # {}

\* EffectiveProfile lays the ecctl profile over the aliyun one of its name.
EffectiveProfile(q) ==
  LET Field(f) == First(Value(q.ecctl, f), Value(q.aliyun[q.name], f)) IN
  [id |-> Field("access_key_id"), secret |-> Field("access_key_secret"), token |-> Field("sts_token")]

\* resolveStaticCredential.
resolveStaticCredential(q) ==
  LET mine == EffectiveProfile(q)
      env == KeyOf(NoProfile, q.env) IN
  staticCredentialFromValues(
    [id |-> First(mine.id, env.id), secret |-> First(mine.secret, env.secret), token |-> First(mine.token, env.token)],
    IF mine.token # None THEN "StsToken" ELSE "AK")

\* selectedConfigCurrent and selectedConfigProfile.
Named(q) == q.explicit \/ q.current

resolveOpenAPIProfile(q) ==
  CASE q.ignore -> resolveEnvironmentCredential(q.env, q.disabled)
    [] ~q.ignore /\ profileIsNativeOAuth(q) -> Provider("oauth_site_type", q.ecctl, "OAuth", FALSE)
    [] ~q.ignore /\ ~profileIsNativeOAuth(q) /\ profileHasStaticCredentialOverride(q) -> resolveStaticCredential(q)
    [] OTHER ->
         IF q.aliyun[q.name] # NoProfile
         THEN resolveAliyunProfileCredential(q.aliyun, q.name, q.env, q.disabled)
         ELSE IF q.ecctl = NoProfile /\ Named(q) THEN Failure("ProfileNotFound")
         ELSE resolveEnvironmentCredential(q.env, q.disabled)

-----------------------------------------------------------------------------
(* What may be asked of the answer r to q.                                 *)

Resolved(r) == r.error = None
KeyHolders(r) == {r.key.id, r.key.secret, r.key.token} \ {None}
Holders(r) == KeyHolders(r) \cup ({r.role} \ {None})
FromAliyun(q) ==
  /\ ~q.ignore /\ ~profileIsNativeOAuth(q) /\ ~profileHasStaticCredentialOverride(q)
  /\ q.aliyun[q.name] # NoProfile

\* The mode of a credential of a profile that declares mode: an AK with a token
\* is a temporary one.
ModesOf(mode) == {mode} \cup (IF mode = "AK" THEN {"StsToken"} ELSE {})
\* The modes a profile without one suggests by the sources it names.
Suggested(profile) == {Marks[i][2] : i \in {j \in DOMAIN Marks : Marks[j][1] \in profile.has}}
KeyAtHand(q) == LET key == KeyOf(q.aliyun[q.name], q.env) IN None \notin {key.id, key.secret}

\* "A matched profile never switches to a different credential source"
\* (website/docs/credentials/index.md): it has the mode it declares or fails;
\* a profile that was asked for and is nowhere is an error, and what ignores
\* the profiles, or is a login, holds nothing of the others.  The code makes one
\* exception: a profile that declares no mode loses the source it names to a
\* whole key pair, were it only exported (inferCredentialMode); without such a
\* pair it stays with a source it names.
StaysWithItsSource(q, r) ==
  /\ FromAliyun(q) /\ Resolved(r) =>
       LET profile == q.aliyun[q.name] IN
       r.mode \in IF profile.mode # None THEN ModesOf(profile.mode)
                  ELSE IF KeyAtHand(q) THEN {"AK", "StsToken", "RamRoleArn"}
                  ELSE Suggested(profile)
  /\ ~q.ignore /\ Named(q) /\ q.ecctl = NoProfile /\ q.aliyun[q.name] = NoProfile => ~Resolved(r)
  /\ q.ignore => Holders(r) \subseteq {Env}
  /\ ~q.ignore /\ profileIsNativeOAuth(q) => Holders(r) = {}

\* The chain of source profiles from the selected one: its n-th profile.
Link(q, n) == IF n # None /\ q.aliyun[n] # NoProfile /\ ModeOf(q.aliyun[n], q.env) = "ChainableRamRoleArn"
              THEN q.aliyun[n].source ELSE None
Chain(q) ==
  LET Walk[i \in 0..Cardinality(Names)] == IF i = 0 THEN q.name ELSE Link(q, Walk[i - 1])
  IN {Walk[i] : i \in DOMAIN Walk} \ {None}
Loops(q) == \A n \in Chain(q) : Link(q, n) # None

\* A chain of source profiles resolves exactly when it ends, to the role that
\* the selected profile names, for the account of that role's ARN, and it is
\* assumed with a key of the chain's last profile or of the environment
\* (resolveAliyunProfileCredentialWithCache).
ChainAssumesItsRole(q, r) ==
  FromAliyun(q) =>
    /\ Loops(q) => ~Resolved(r)
    /\ r.error = "Cycle" => Loops(q)
    /\ Resolved(r) /\ Link(q, q.name) # None =>
         /\ r.role \in {q.name, Env} /\ r.mode = "ChainableRamRoleArn"
         /\ r.account = IF r.role = Env THEN q.env.account ELSE q.aliyun[q.name].account
         /\ \E last \in Chain(q) : Link(q, last) = None /\ KeyHolders(r) \subseteq {last, Env}

\* "Environment credentials are consulted when no stored profile is selected,
\* when the selected ecctl profile carries no credentials, or when
\* ALIBABA_CLOUD_IGNORE_PROFILE=TRUE" (website/docs/credentials/ak.md).
ProfileKeyStandsAlone(q, r) ==
  ~q.ignore /\ ~profileIsNativeOAuth(q) /\ {"access_key_id", "access_key_secret"} \subseteq q.ecctl.has =>
    Env \notin Holders(r)
=============================================================================
