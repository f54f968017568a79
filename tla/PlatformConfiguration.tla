------------------------ MODULE PlatformConfiguration ------------------------
(***************************************************************************)
(* What the platform's commands make of their environment: the start         *)
(* (src/scripts/platform-start.mjs, src/src/runtime/node-bootstrap.ts and     *)
(* the readers it calls), the operators' dry-run check of the same variables  *)
(* (src/scripts/platform-readiness-check.mjs) and the seed command            *)
(* (src/scripts/platform-seed-internal-access.mjs).  Three programs judge one *)
(* environment; nothing but reading makes them agree.                         *)
(*                                                                            *)
(* A variable has one of a few values the readers tell apart.  A URL is a     *)
(* scheme, a host and what follows it ("none": nothing); one with a port      *)
(* other than the scheme's is of another host.                                *)
(***************************************************************************)
EXTENDS Naturals, Sequences

Url(scheme, host, rest) == [scheme |-> scheme, host |-> host, rest |-> rest]
NoUrl == Url("absent", "none", "none")
Malformed == Url("malformed", "none", "none")
IsHttp(u) == u.scheme \in {"http", "https"}
Origin(u) == <<u.scheme, u.host>>

Apex == Url("https", "apex", "none")
Alpha == Url("https", "alpha", "none")
Sqag == Url("https", "sqag", "none")
At(u, rest) == [u EXCEPT !.rest = rest]
Plain(u) == [u EXCEPT !.scheme = "http"]

Secrets == {"SESSION_SECRET", "CSRF_TOKEN_HASH_SECRET", "AUTH_STATE_HASH_SECRET",
            "APP_LAUNCH_TOKEN_HASH_SECRET", "PLATFORM_SQAG_SERVICE_SECRET"}
ProviderUrls == {"AUTH_ISSUER_URL", "AUTH_AUTHORIZATION_URL", "AUTH_TOKEN_URL",
                 "AUTH_JWKS_URL", "AUTH_USERINFO_URL"}
Urls == ProviderUrls \cup {"PLATFORM_PUBLIC_BASE_URL", "AUTH_REDIRECT_URI",
                           "PLATFORM_SQAG_APP_BASE_URL", "PLATFORM_SEED_APP_LAUNCH_URL"}
Retired == {"AUTH_CLIENT_ID", "AUTH_CLIENT_SECRET"}
SeedIdentity == {"PLATFORM_SEED_USER_EMAIL", "PLATFORM_SEED_WORKSPACE_SLUG",
                 "PLATFORM_SEED_WORKSPACE_NAME"}
SeedOverrides == {"PLATFORM_SEED_APP_KEY", "PLATFORM_SEED_APP_NAME"}
Words == {"PLATFORM_HTTP_HOST", "OIDC_CLIENT_ID", "OIDC_CLIENT_SECRET"}
         \cup Retired \cup SeedIdentity \cup SeedOverrides

\* The values of the other variables, "absent" aside. Spaces around a value are not
\* seen, but for the confirmations ("padded") and the retired names, absent only when
\* they are not set at all.
Choices ==
  [NODE_ENV |-> {"production", "development"},
   PLATFORM_HTTP_PORT |-> {"valid", "invalid"},
   PLATFORM_COOKIE_SECURE |-> {"true", "false", "other"},
   DATABASE_URL |-> {"valid", "invalid"},
   DATABASE_SSL_MODE |-> {"disable", "require", "other"},
   DATABASE_EXPECTED_RUNTIME_ROLE |-> {"platform_runtime", "other_role", "invalid"},
   DATABASE_MIGRATIONS_CONFIRM |-> {"expected", "padded", "other"},
   PLATFORM_AUTH_PROVIDER_MODE |-> {"generic_oidc", "other"},
   AUTH_PROVIDER_KEY |-> {"auth0", "another", "invalid"},
   PLATFORM_SQAG_LAUNCH_MODE |-> {"manual", "server_handoff", "other"},
   PLATFORM_SEED_CONFIRM |-> {"expected", "padded", "other"},
   PLATFORM_SEED_MEMBERSHIP_ROLE |-> {"admin", "operator", "viewer", "owner"},
   PLATFORM_SEED_BOOTSTRAP_MODE |-> {"first_admin", "other"}]

Variables == Urls \cup Secrets \cup Words \cup DOMAIN Choices \cup {"PLATFORM_ALLOWED_ORIGINS"}

Given(env, v) ==
  CASE v \in Urls -> env[v] # NoUrl
    [] v = "PLATFORM_ALLOWED_ORIGINS" -> env[v] # <<>>
    [] OTHER -> env[v] # "absent"

Production(env) == env.NODE_ENV = "production"
Handoff(env) == env.PLATFORM_SQAG_LAUNCH_MODE = "server_handoff"
\* The command injects no adapter of its own.
AuthEnabled(env) == env.PLATFORM_AUTH_PROVIDER_MODE = "generic_oidc"

-----------------------------------------------------------------------------
(* readNodePlatformRuntimeConfig *)

HostedPlatformOrigins == {Origin(Apex), Origin(Alpha)}

\* readPublicBaseUrl
PublicBase(env) ==
  LET u == env.PLATFORM_PUBLIC_BASE_URL
  IN IF u = NoUrl THEN Url("http", "local", "none") ELSE IF Production(env) THEN At(u, "none") ELSE u

\* readHostedPublicBaseUrl
IsHostedBase(u) == Origin(u) \in HostedPlatformOrigins /\ u.rest \in {"none", "/"}

PublicBaseRead(env) ==
  LET u == env.PLATFORM_PUBLIC_BASE_URL
  IN IF Production(env) THEN IsHostedBase(u) ELSE u = NoUrl \/ IsHttp(u)

\* readCookieSecure
CookieSecure(env) ==
  IF Given(env, "PLATFORM_COOKIE_SECURE") THEN env.PLATFORM_COOKIE_SECURE = "true"
  ELSE Production(env)

CookieRead(env) ==
  env.PLATFORM_COOKIE_SECURE # "other" /\ (Production(env) => CookieSecure(env))

\* readAllowedOrigins: the items between the commas, blank ones among them.
Listed(env) ==
  LET items == env.PLATFORM_ALLOWED_ORIGINS IN {items[k] : k \in DOMAIN items} \ {NoUrl}

AllowedOrigins(env) ==
  IF Given(env, "PLATFORM_ALLOWED_ORIGINS") THEN {Origin(u) : u \in Listed(env)}
  ELSE {Origin(PublicBase(env))}

\* MUTANT of OriginsRead: a hosted list may hold origins of others.
AnyOriginsRead(env) ==
  IF Given(env, "PLATFORM_ALLOWED_ORIGINS")
  THEN Listed(env) # {} /\ \A u \in Listed(env) : IsHttp(u) /\ u.rest \in {"none", "/"}
  ELSE ~Production(env)

OriginsRead(env) ==
  IF ~Given(env, "PLATFORM_ALLOWED_ORIGINS") THEN ~Production(env)
  ELSE IF Production(env) THEN env.PLATFORM_ALLOWED_ORIGINS = << PublicBase(env) >>
  ELSE Listed(env) # {} /\ \A u \in Listed(env) : IsHttp(u) /\ u.rest \in {"none", "/"}

RuntimeConfigRead(env) ==
  /\ env.PLATFORM_HTTP_PORT # "invalid"
  /\ PublicBaseRead(env) /\ CookieRead(env) /\ OriginsRead(env)

-----------------------------------------------------------------------------
(* The other readers of start() *)

\* readPlatformRuntimeSecretConfig: what is there must be long, needed or not.
SecretsRead(env) ==
  /\ env.CSRF_TOKEN_HASH_SECRET = "long"
  /\ env.APP_LAUNCH_TOKEN_HASH_SECRET = "long"
  /\ env.AUTH_STATE_HASH_SECRET \in {"long"} \cup (IF AuthEnabled(env) THEN {} ELSE {"absent"})
  /\ env.PLATFORM_SQAG_SERVICE_SECRET \in {"long"} \cup (IF Handoff(env) THEN {} ELSE {"absent"})

\* MUTANT of AuthConfigRead: the issuer is left to the verifier of the tokens.
AuthReadWithoutIssuer(env) ==
  /\ \A v \in Retired : ~Given(env, v)
  /\ env.AUTH_PROVIDER_KEY \in {"auth0", "another"}
  /\ \A v \in {"OIDC_CLIENT_ID", "OIDC_CLIENT_SECRET"} : Given(env, v)
  /\ env.SESSION_SECRET = "long"
  /\ \A v \in (ProviderUrls \ {"AUTH_USERINFO_URL", "AUTH_ISSUER_URL"}) \cup {"AUTH_REDIRECT_URI"} : IsHttp(env[v])
  /\ \A v \in {"AUTH_USERINFO_URL", "AUTH_ISSUER_URL"} : Given(env, v) => IsHttp(env[v])

\* readAuthConfig, and assertGenericOidcAuthConfig, which needs the issuer and the keys.
AuthConfigRead(env) ==
  /\ \A v \in Retired : ~Given(env, v)
  /\ env.AUTH_PROVIDER_KEY \in {"auth0", "another"}
  /\ \A v \in {"OIDC_CLIENT_ID", "OIDC_CLIENT_SECRET"} : Given(env, v)
  /\ env.SESSION_SECRET = "long"
  /\ \A v \in (ProviderUrls \ {"AUTH_USERINFO_URL"}) \cup {"AUTH_REDIRECT_URI"} : IsHttp(env[v])
  /\ Given(env, "AUTH_USERINFO_URL") => IsHttp(env.AUTH_USERINFO_URL)

CallbackUrl(env) == At(PublicBase(env), "callback")

\* assertProductionHostedUrlConfig: assertHttpsUrl, assertHostedAuthRedirectUri
HostedAuthUrls(env) ==
  /\ env.AUTH_PROVIDER_KEY = "auth0"
  /\ \A v \in ProviderUrls : Given(env, v) => env[v].scheme = "https"
  /\ env.AUTH_REDIRECT_URI = CallbackUrl(env)

\* assertHostedSqagBaseUrl
IsHostedSqagBase(u) == Origin(u) = Origin(Sqag) /\ u.rest \in {"none", "/"}

\* readSqagAppBaseUrl
SqagBaseRead(env) ==
  LET u == env.PLATFORM_SQAG_APP_BASE_URL
  IN IsHttp(u) /\ (Production(env) => IsHostedSqagBase(u))

\* createPlatformStartBootstrapInput
BootstrapInput(env) ==
  /\ env.PLATFORM_SQAG_LAUNCH_MODE # "other"
  /\ Handoff(env) => SqagBaseRead(env)

\* readDatabaseConfig: readDatabaseSslMode, assertValidDatabaseUrl
DatabaseConfigRead(env) == env.DATABASE_URL = "valid" /\ env.DATABASE_SSL_MODE # "other"

\* readExpectedRuntimeRole
ExpectedRoleRead(env) == env.DATABASE_EXPECTED_RUNTIME_ROLE \in {"absent", "platform_runtime"}

\* createDatabaseClientSafely, readExpectedRuntimeRoleSafely
DatabaseRead(env) == DatabaseConfigRead(env) /\ ExpectedRoleRead(env)

\* start() up to the database client: every refusal ends the command with 1.
ConfigurationAccepted(env) ==
  /\ BootstrapInput(env)
  /\ RuntimeConfigRead(env)
  /\ env.PLATFORM_AUTH_PROVIDER_MODE # "other"
  /\ SecretsRead(env)
  /\ AuthEnabled(env) => AuthConfigRead(env) /\ (Production(env) => HostedAuthUrls(env))
  /\ DatabaseRead(env)

\* createCsrfTokenHasherSafely, createAppLaunchTokenHasherSafely and
\* createAuthStateReferenceFactorySafely ask again for what they need.
HasherComposed(env, secret) == env[secret] = "long"

\* createOidcAdapterSafely, assertGenericOidcConfig
AdapterComposed(env) == Given(env, "AUTH_ISSUER_URL") /\ Given(env, "AUTH_JWKS_URL")

\* createAuthDependencies
AuthComposed(env) == HasherComposed(env, "AUTH_STATE_HASH_SECRET") /\ AdapterComposed(env)

\* createPlatformRuntimeDependencies, once the database is connected.
DependenciesComposed(env) ==
  /\ \A v \in {"CSRF_TOKEN_HASH_SECRET", "APP_LAUNCH_TOKEN_HASH_SECRET"} : HasherComposed(env, v)
  /\ AuthEnabled(env) => AuthComposed(env)

\* createAppLaunchDependencies: the grants of SQAG are served only if SQAG is handed
\* launches and has a secret to show.
GrantsServed(env) == Handoff(env) /\ Given(env, "PLATFORM_SQAG_SERVICE_SECRET")

-----------------------------------------------------------------------------
(* platform-readiness-check.mjs: every variable is judged by itself, and none  *)
(* is connected to.                                                           *)

HandoffOnly == {"PLATFORM_SQAG_APP_BASE_URL", "PLATFORM_SQAG_SERVICE_SECRET"}
BootstrapOnly == SeedIdentity \cup {"PLATFORM_SEED_CONFIRM"}
Optional == {"DATABASE_SSL_MODE", "DATABASE_MIGRATIONS_CONFIRM", "AUTH_USERINFO_URL",
             "PLATFORM_SEED_BOOTSTRAP_MODE", "PLATFORM_SEED_MEMBERSHIP_ROLE"} \cup BootstrapOnly
Unchecked == Retired \cup SeedOverrides \cup {"PLATFORM_SEED_APP_LAUNCH_URL"}
Required == Variables \ (HandoffOnly \cup Optional \cup Unchecked)

\* validateNodeEnv .. validateSeedRole: the values that pass.
Passing ==
  [NODE_ENV |-> {"production"},
   PLATFORM_HTTP_PORT |-> {"valid"},
   DATABASE_URL |-> {"valid"},
   DATABASE_SSL_MODE |-> {"disable", "require"},
   DATABASE_EXPECTED_RUNTIME_ROLE |-> {"platform_runtime", "other_role"},
   DATABASE_MIGRATIONS_CONFIRM |-> {"expected", "padded"},
   PLATFORM_AUTH_PROVIDER_MODE |-> {"generic_oidc"},
   AUTH_PROVIDER_KEY |-> {"auth0"},
   PLATFORM_SQAG_LAUNCH_MODE |-> {"manual", "server_handoff"},
   PLATFORM_SEED_CONFIRM |-> {"expected", "padded"},
   PLATFORM_SEED_MEMBERSHIP_ROLE |-> {"admin", "operator", "viewer"},
   PLATFORM_SEED_BOOTSTRAP_MODE |-> {"first_admin"}]

\* validateHttpsUrl, validatePlatformBaseUrl .. validateAllowedOrigins
UrlValid(env, v) ==
  LET base == env.PLATFORM_PUBLIC_BASE_URL
  IN CASE v \in ProviderUrls -> env[v].scheme = "https"
       [] v = "PLATFORM_PUBLIC_BASE_URL" -> IsHostedBase(base)
       [] v = "PLATFORM_ALLOWED_ORIGINS" -> IsHostedBase(base) /\ env[v] = << At(base, "none") >>
       [] v = "AUTH_REDIRECT_URI" -> IsHostedBase(base) /\ env[v] = At(base, "callback")
       [] v = "PLATFORM_SQAG_APP_BASE_URL" -> Origin(env[v]) = Origin(Sqag) /\ env[v].rest \in {"none", "/"}

\* validateCookieSecure
CookieValid(env) == env.PLATFORM_COOKIE_SECURE \in {"true"} \cup (IF Production(env) THEN {} ELSE {"false"})

Valid(env, v) ==
  CASE v \in Urls \cup {"PLATFORM_ALLOWED_ORIGINS"} -> UrlValid(env, v)
    [] v = "PLATFORM_COOKIE_SECURE" -> CookieValid(env)
    [] v \in Secrets -> env[v] = "long"
    [] v \in DOMAIN Passing -> env[v] \in Passing[v]
    [] v \in Words -> TRUE

\* conditionApplies
Applies(env, v) == v \in HandoffOnly => Handoff(env)

ReadinessMissing(env) ==
  {v \in Required \cup HandoffOnly : Applies(env, v) /\ ~Given(env, v)}

\* MUTANT of ReadinessInvalid: what is there is validated whether or not it is used.
InvalidWhatever(env) == {v \in Variables \ Unchecked : Given(env, v) /\ ~Valid(env, v)}

ReadinessInvalid(env) ==
  {v \in Variables \ Unchecked : Given(env, v) /\ Applies(env, v) /\ ~Valid(env, v)}

\* createPlatformReadinessReport
ReadinessOk(env) == ReadinessMissing(env) \cup ReadinessInvalid(env) = {}

-----------------------------------------------------------------------------
(* platform-seed-internal-access.mjs *)

SeedRole(env) ==
  IF Given(env, "PLATFORM_SEED_MEMBERSHIP_ROLE") THEN env.PLATFORM_SEED_MEMBERSHIP_ROLE ELSE "admin"

\* MUTANT of SeedRead: the first admin may be prepared with any role.
SeedReadForAnyRole(env) ==
  /\ env.PLATFORM_SEED_CONFIRM = "expected"
  /\ \A v \in SeedOverrides : ~Given(env, v)
  /\ \A v \in SeedIdentity : Given(env, v)
  /\ SeedRole(env) \in {"admin", "operator", "viewer"}
  /\ env.PLATFORM_SEED_BOOTSTRAP_MODE \in {"absent", "first_admin"}
  /\ Given(env, "PLATFORM_SEED_APP_LAUNCH_URL") => IsHttp(env.PLATFORM_SEED_APP_LAUNCH_URL)

\* readPlatformSeedInternalAccessConfig
SeedRead(env) ==
  /\ env.PLATFORM_SEED_CONFIRM = "expected"
  /\ \A v \in SeedOverrides : ~Given(env, v)
  /\ \A v \in SeedIdentity : Given(env, v)
  /\ SeedRole(env) \in {"admin", "operator", "viewer"}
  /\ env.PLATFORM_SEED_BOOTSTRAP_MODE \in {"absent", "first_admin"}
  /\ env.PLATFORM_SEED_BOOTSTRAP_MODE = "first_admin" => SeedRole(env) = "admin"
  /\ Given(env, "PLATFORM_SEED_APP_LAUNCH_URL") => IsHttp(env.PLATFORM_SEED_APP_LAUNCH_URL)

\* executePlatformSeedInternalAccess up to its first query: the role of the database
\* is nothing to it.
SeedStarts(env) == SeedRead(env) /\ DatabaseConfigRead(env)

-----------------------------------------------------------------------------
(* The environments operators begin from, and the values one of their mistakes *)
(* can give a variable.                                                        *)

Elsewhere == Url("https", "elsewhere", "none")

Hosted ==
  [v \in Variables |->
     CASE v \in ProviderUrls -> Elsewhere
       [] v = "PLATFORM_PUBLIC_BASE_URL" -> Apex
       [] v = "PLATFORM_ALLOWED_ORIGINS" -> << Apex >>
       [] v = "AUTH_REDIRECT_URI" -> At(Apex, "callback")
       [] v = "PLATFORM_SQAG_APP_BASE_URL" -> Sqag
       [] v = "PLATFORM_SEED_APP_LAUNCH_URL" -> NoUrl
       [] v \in Secrets -> "long"
       [] v \in Retired \cup SeedOverrides -> "absent"
       [] v = "DATABASE_SSL_MODE" -> "require"
       [] v = "PLATFORM_SQAG_LAUNCH_MODE" -> "server_handoff"
       [] v = "PLATFORM_SEED_MEMBERSHIP_ROLE" -> "admin"
       [] v = "PLATFORM_COOKIE_SECURE" -> "true"
       [] v \in DOMAIN Passing \ {"DATABASE_SSL_MODE", "PLATFORM_SQAG_LAUNCH_MODE", "PLATFORM_SEED_MEMBERSHIP_ROLE"} ->
            CHOOSE x \in Passing[v] : x \notin {"padded", "other_role"}
       [] OTHER -> "given"]

\* A developer's machine, without sign-in.
Local ==
  [v \in Variables |->
     CASE v \in Urls -> NoUrl
       [] v = "PLATFORM_ALLOWED_ORIGINS" -> <<>>
       [] v \in {"CSRF_TOKEN_HASH_SECRET", "APP_LAUNCH_TOKEN_HASH_SECRET"} -> "long"
       [] v = "DATABASE_URL" -> "valid"
       [] OTHER -> "absent"]

Environments == {Hosted, Local}

\* What a URL may have become: gone, no URL, of another scheme, host or form.
SomeUrls(bases, forms) ==
  {NoUrl, Malformed, Url("other", "elsewhere", "none"), Elsewhere, Plain(Elsewhere)}
  \cup {At(u, r) : u \in bases, r \in forms}

Values(v) ==
  CASE v = "PLATFORM_PUBLIC_BASE_URL" ->
         SomeUrls({Apex, Alpha, Plain(Apex)}, {"none", "/", "path", "query", "credentials"})
    [] v = "AUTH_REDIRECT_URI" ->
         SomeUrls({Apex, Alpha, Plain(Apex)}, {"none", "callback", "callback_query"})
    [] v = "PLATFORM_SQAG_APP_BASE_URL" ->
         SomeUrls({Sqag, Plain(Sqag)}, {"none", "/", "path", "query"})
    [] v \in Urls \ {"PLATFORM_PUBLIC_BASE_URL", "AUTH_REDIRECT_URI", "PLATFORM_SQAG_APP_BASE_URL"} ->
         SomeUrls({}, {})
    [] v = "PLATFORM_ALLOWED_ORIGINS" ->
         {<<>>, << NoUrl, NoUrl >>, << Apex, NoUrl >>, << Apex, Elsewhere >>, << Apex, Apex >>}
         \cup {<< u >> : u \in SomeUrls({Apex, Alpha}, {"none", "/", "path"}) \ {NoUrl}}
    [] v \in Secrets -> {"absent", "short", "long"}
    [] v \in Words -> {"absent", "given"}
    [] v \in DOMAIN Choices -> {"absent"} \cup Choices[v]
=============================================================================
