------------------------------- MODULE Config -------------------------------
(***************************************************************************)
(* What config.rs accepts as configuration and what it makes of it.        *)
(*                                                                         *)
(* env gives every TELEPORTA_* variable its value.  A value is None (not   *)
(* set), Blank (set to white space), Bad (not of the variable's type), or  *)
(* what the text parses to: a number, a Boolean, a mode, a URL.  Loading   *)
(* stops at the first error; which one is reported is a matter of wording, *)
(* so Accepts says whether there is any and FromEnv what results if not.   *)
(***************************************************************************)
EXTENDS Integers

CONSTANTS None, Blank, Bad

DEFAULT_BASE_URL == "http://localhost:8080"

ASSUME ValuesAssumption ==
    /\ {None, Blank, Bad} \cap (Nat \cup BOOLEAN \cup {DEFAULT_BASE_URL}) = {}
    /\ None # Bad /\ Blank # Bad /\ None # Blank

IAM_TOKEN_TTL_SECS == 900

\* The variables, without their prefix; those of the pool without DATABASE_, the
\* fingerprints without SHA256_CERT_.
Names ==
    {"HTTP_HOST", "HTTP_PORT", "PUBLIC_BASE_URL",
     "IOS_TEAM_ID", "IOS_BUNDLE_ID", "IOS_APP_STORE_URL",
     "ANDROID_PACKAGE_NAME", "ANDROID_FINGERPRINTS", "ANDROID_PLAY_STORE_URL",
     "DATABASE_AUTH_MODE", "DATABASE_URL", "DATABASE_HOST", "DATABASE_PORT", "DATABASE_NAME",
     "DATABASE_USER", "DATABASE_PASSWORD", "DATABASE_AWS_REGION", "DATABASE_SSL_MODE",
     "DATABASE_SSL_ROOT_CERT", "DATABASE_IAM_TOKEN_REFRESH_INTERVAL_SECS",
     "POOL_MAX_CONNECTIONS", "POOL_MIN_CONNECTIONS", "POOL_ACQUIRE_TIMEOUT_SECS",
     "POOL_IDLE_TIMEOUT_SECS", "POOL_MAX_LIFETIME_SECS",
     "REDIS_URL", "REDIS_KEY_PREFIX", "LINK_CACHE_TTL_SECS", "NEGATIVE_CACHE_TTL_SECS",
     "FALLBACK_AUTO_REDIRECT_TO_STORE", "FALLBACK_AUTO_REDIRECT_DELAY_MS", "FALLBACK_HOME_URL",
     "PRIVACY_STORE_RAW_IP", "PRIVACY_HASH_IP", "PRIVACY_IP_HASH_SALT"}

-----------------------------------------------------------------------------
(* Reading a variable *)

\* opt_env: a blank value counts as none.
OptEnv(env, x) == IF env[x] = Blank THEN None ELSE env[x]

IsSet(env, x) == OptEnv(env, x) # None

\* env_or and parse_env, whose errors are Parses.
EnvOr(env, x, default) == IF IsSet(env, x) THEN OptEnv(env, x) ELSE default

Parses(env, xs) == \A x \in xs : env[x] # Bad
\* Mutant of Required: any value will do, a blank one too.
RequiredPresent(env, xs) == \A x \in xs : env[x] # None

Required(env, xs) == \A x \in xs : IsSet(env, x)

BoolEnv(env, x) == EnvOr(env, x, FALSE)

-----------------------------------------------------------------------------
(* The sections *)

\* Mutant of ValidIos: half an association will do.
ValidIosHalf(env) == IsSet(env, "IOS_BUNDLE_ID") => IsSet(env, "IOS_TEAM_ID")

\* The app association of a platform: both of its variables, or neither.
ValidIos(env) == IsSet(env, "IOS_TEAM_ID") <=> IsSet(env, "IOS_BUNDLE_ID")

ValidAndroid(env) ==
    /\ IsSet(env, "ANDROID_PACKAGE_NAME") <=> IsSet(env, "ANDROID_FINGERPRINTS")
    /\ Parses(env, {"ANDROID_FINGERPRINTS"})

\* The store URL is read with the association, and only then.
IosConfig(env) ==
    IF IsSet(env, "IOS_TEAM_ID")
    THEN [team_id |-> OptEnv(env, "IOS_TEAM_ID"), bundle_id |-> OptEnv(env, "IOS_BUNDLE_ID"),
          app_store_url |-> OptEnv(env, "IOS_APP_STORE_URL")]
    ELSE None

AndroidConfig(env) ==
    IF IsSet(env, "ANDROID_PACKAGE_NAME")
    THEN [package_name |-> OptEnv(env, "ANDROID_PACKAGE_NAME"),
          fingerprints |-> OptEnv(env, "ANDROID_FINGERPRINTS"),
          play_store_url |-> OptEnv(env, "ANDROID_PLAY_STORE_URL")]
    ELSE None

DatabaseMode(env) ==
    IF EnvOr(env, "DATABASE_AUTH_MODE", "password") = "iam" THEN "iam"
    ELSE IF IsSet(env, "DATABASE_URL") THEN "url"
    ELSE "discrete"

\* parse_ssl_mode_env; IAM has its own default.
SslMode(env) ==
    EnvOr(env, "DATABASE_SSL_MODE", IF DatabaseMode(env) = "iam" THEN "require" ELSE "prefer")

RefreshInterval(env) == EnvOr(env, "DATABASE_IAM_TOKEN_REFRESH_INTERVAL_SECS", 840)

ValidIam(env) ==
    /\ ~IsSet(env, "DATABASE_URL")
    /\ Required(env, {"DATABASE_HOST", "DATABASE_NAME", "DATABASE_USER", "DATABASE_AWS_REGION"})
    /\ Parses(env, {"DATABASE_PORT", "DATABASE_SSL_MODE",
                    "DATABASE_IAM_TOKEN_REFRESH_INTERVAL_SECS"})
    /\ SslMode(env) # "disable"
    /\ RefreshInterval(env) > 0
    /\ RefreshInterval(env) < IAM_TOKEN_TTL_SECS

ValidDiscrete(env) ==
    /\ Required(env, {"DATABASE_HOST", "DATABASE_NAME", "DATABASE_USER", "DATABASE_PASSWORD"})
    /\ Parses(env, {"DATABASE_PORT", "DATABASE_SSL_MODE"})

\* A URL is taken as it is, and nothing else of the section is read.
ValidDatabase(env) ==
    /\ Parses(env, {"DATABASE_AUTH_MODE"})
    /\ DatabaseMode(env) = "iam" => ValidIam(env)
    /\ DatabaseMode(env) = "discrete" => ValidDiscrete(env)

DatabaseConfig(env) ==
    LET mode == DatabaseMode(env) IN
    [mode |-> mode,
     url |-> IF mode = "url" THEN OptEnv(env, "DATABASE_URL") ELSE None,
     host |-> IF mode = "url" THEN None ELSE OptEnv(env, "DATABASE_HOST"),
     ssl_mode |-> IF mode = "url" THEN None ELSE SslMode(env),
     ssl_root_cert |-> IF mode = "url" THEN None ELSE OptEnv(env, "DATABASE_SSL_ROOT_CERT"),
     token_refresh_interval |-> IF mode = "iam" THEN RefreshInterval(env) ELSE None]

\* A lifetime or idle time of zero means no limit.
PoolConfig(env) ==
    [max_connections |-> EnvOr(env, "POOL_MAX_CONNECTIONS", 10),
     min_connections |-> EnvOr(env, "POOL_MIN_CONNECTIONS", 0),
     acquire_timeout |-> EnvOr(env, "POOL_ACQUIRE_TIMEOUT_SECS", 5),
     idle_timeout |-> EnvOr(env, "POOL_IDLE_TIMEOUT_SECS", 300),
     max_lifetime |-> EnvOr(env, "POOL_MAX_LIFETIME_SECS", 600)]

ValidPool(env) ==
    LET pool == PoolConfig(env) IN
    /\ Parses(env, {"POOL_MAX_CONNECTIONS", "POOL_MIN_CONNECTIONS",
                    "POOL_ACQUIRE_TIMEOUT_SECS", "POOL_IDLE_TIMEOUT_SECS",
                    "POOL_MAX_LIFETIME_SECS"})
    /\ pool.max_connections > 0
    /\ pool.min_connections <= pool.max_connections
    /\ pool.acquire_timeout > 0

\* Mutant of ValidPoolForDatabase: a lifetime of zero, no limit, passes.
ValidPoolForDatabaseOrNone(env) ==
    DatabaseMode(env) = "iam" => PoolConfig(env).max_lifetime < IAM_TOKEN_TTL_SECS

\* validate_pool_against_database.
ValidPoolForDatabase(env) ==
    LET lifetime == PoolConfig(env).max_lifetime IN
    DatabaseMode(env) = "iam" => lifetime > 0 /\ lifetime < IAM_TOKEN_TTL_SECS

\* Mutant of PrivacyConfig: off unless it is asked for.
PrivacyConfigOff(env) ==
    [store_raw_ip |-> BoolEnv(env, "PRIVACY_STORE_RAW_IP"),
     hash_ip |-> BoolEnv(env, "PRIVACY_HASH_IP"),
     ip_hash_salt |-> EnvOr(env, "PRIVACY_IP_HASH_SALT", "change-me")]

\* hash_ip is on when the variable does not exist; a blank one is FALSE.
PrivacyConfig(env) ==
    [store_raw_ip |-> BoolEnv(env, "PRIVACY_STORE_RAW_IP"),
     hash_ip |-> env["PRIVACY_HASH_IP"] = None \/ BoolEnv(env, "PRIVACY_HASH_IP"),
     ip_hash_salt |-> EnvOr(env, "PRIVACY_IP_HASH_SALT", "change-me")]

ValidPrivacy(env) == Parses(env, {"PRIVACY_STORE_RAW_IP", "PRIVACY_HASH_IP"})

FallbackConfig(env) ==
    [auto_redirect_to_store |-> BoolEnv(env, "FALLBACK_AUTO_REDIRECT_TO_STORE"),
     auto_redirect_delay |-> EnvOr(env, "FALLBACK_AUTO_REDIRECT_DELAY_MS", 500),
     home_url |-> OptEnv(env, "FALLBACK_HOME_URL")]

ValidFallback(env) ==
    Parses(env, {"FALLBACK_AUTO_REDIRECT_TO_STORE", "FALLBACK_AUTO_REDIRECT_DELAY_MS"})

RedisConfig(env) ==
    [url |-> EnvOr(env, "REDIS_URL", "redis://localhost:6379"),
     key_prefix |-> EnvOr(env, "REDIS_KEY_PREFIX", "teleporta"),
     link_cache_ttl |-> EnvOr(env, "LINK_CACHE_TTL_SECS", 300),
     negative_cache_ttl |-> EnvOr(env, "NEGATIVE_CACHE_TTL_SECS", 30)]

ValidRedis(env) == Parses(env, {"LINK_CACHE_TTL_SECS", "NEGATIVE_CACHE_TTL_SECS"})

-----------------------------------------------------------------------------
(* Config::from_env *)

Accepts(env) ==
    /\ Parses(env, {"HTTP_PORT"})
    /\ ValidIos(env) /\ ValidAndroid(env)
    /\ ValidDatabase(env)
    /\ ValidPool(env) /\ ValidPoolForDatabase(env)
    /\ ValidRedis(env) /\ ValidPrivacy(env) /\ ValidFallback(env)

\* A host that is no IP address is found out when the server binds.
FromEnv(env) ==
    [http_addr |-> EnvOr(env, "HTTP_HOST", "0.0.0.0"),
     public_base_url |-> EnvOr(env, "PUBLIC_BASE_URL", DEFAULT_BASE_URL),
     ios |-> IosConfig(env), android |-> AndroidConfig(env),
     database |-> DatabaseConfig(env), pool |-> PoolConfig(env),
     redis |-> RedisConfig(env), privacy |-> PrivacyConfig(env),
     fallback |-> FallbackConfig(env)]

=============================================================================
