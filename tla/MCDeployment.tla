---------------------------- MODULE MCDeployment ----------------------------
(***************************************************************************)
(* Deployment on a small instance.  Its environments are four that work,   *)
(* one per database mode and one with everything set for the pages, and    *)
(* every change of up to two variables of a section in them.  Numbers are  *)
(* taken on both sides of every boundary config.rs tests.                  *)
(***************************************************************************)
EXTENDS Deployment

Modes == {None, Blank, Bad}
Texts == {None, Blank, "text"}

\* What the variables of the database and pool sections may be set to.
DatabaseValues ==
    [HTTP_HOST |-> {None, Blank, Bad}, HTTP_PORT |-> Modes \cup {8080},
     DATABASE_AUTH_MODE |-> Modes \cup {"password", "iam"},
     DATABASE_URL |-> Texts, DATABASE_HOST |-> Texts, DATABASE_NAME |-> Texts,
     DATABASE_USER |-> Texts, DATABASE_PASSWORD |-> Texts, DATABASE_AWS_REGION |-> Texts,
     DATABASE_PORT |-> Modes \cup {5432},
     DATABASE_SSL_ROOT_CERT |-> Texts,
     DATABASE_SSL_MODE |-> Modes \cup {"disable", "verify-full"},
     DATABASE_IAM_TOKEN_REFRESH_INTERVAL_SECS |-> Modes \cup {0, 1, 899, 900},
     POOL_MAX_CONNECTIONS |-> Modes \cup {0, 1, 2}, POOL_MIN_CONNECTIONS |-> Modes \cup {2, 10, 11},
     POOL_ACQUIRE_TIMEOUT_SECS |-> Modes \cup {0, 1},
     POOL_IDLE_TIMEOUT_SECS |-> Modes \cup {0},
     POOL_MAX_LIFETIME_SECS |-> Modes \cup {0, 1, 899, 900},
     REDIS_URL |-> {None, Blank, Bad}, REDIS_KEY_PREFIX |-> Texts,
     LINK_CACHE_TTL_SECS |-> Modes \cup {0, 60}, NEGATIVE_CACHE_TTL_SECS |-> Modes \cup {0, 60}]

\* And those that shape the pages and the log.
PageValues ==
    [PUBLIC_BASE_URL |-> Texts,
     IOS_TEAM_ID |-> Texts, IOS_BUNDLE_ID |-> Texts, IOS_APP_STORE_URL |-> {None, Blank, "store"},
     ANDROID_PACKAGE_NAME |-> Texts, ANDROID_FINGERPRINTS |-> Texts \cup {Bad},
     ANDROID_PLAY_STORE_URL |-> {None, Blank, "play"},
     FALLBACK_AUTO_REDIRECT_TO_STORE |-> Modes \cup {FALSE, TRUE},
     FALLBACK_AUTO_REDIRECT_DELAY_MS |-> {None, Bad},
     FALLBACK_HOME_URL |-> {None, Blank, "home"},
     PRIVACY_STORE_RAW_IP |-> Modes \cup {FALSE, TRUE},
     PRIVACY_HASH_IP |-> Modes \cup {FALSE, TRUE}, PRIVACY_IP_HASH_SALT |-> {None, Blank, "salt"}]

\* Nothing is set but xs.
OnlySet(xs) == [x \in Names |-> IF x \in xs THEN "text" ELSE None]

ByUrl == OnlySet({"DATABASE_URL"})

Discrete == OnlySet({"DATABASE_HOST", "DATABASE_NAME", "DATABASE_USER", "DATABASE_PASSWORD"})

Iam ==
    [OnlySet({"DATABASE_HOST", "DATABASE_NAME", "DATABASE_USER", "DATABASE_AWS_REGION"})
        EXCEPT !["DATABASE_AUTH_MODE"] = "iam"]

BothApps ==
    [OnlySet({"DATABASE_URL", "IOS_TEAM_ID", "IOS_BUNDLE_ID",
              "ANDROID_PACKAGE_NAME", "ANDROID_FINGERPRINTS"})
        EXCEPT !["IOS_APP_STORE_URL"] = "store", !["ANDROID_PLAY_STORE_URL"] = "play",
               !["FALLBACK_AUTO_REDIRECT_TO_STORE"] = TRUE]

\* base with up to two of its variables changed.
Variants(base, values) ==
    UNION {{[base EXCEPT ![x] = u, ![y] = w] : u \in values[x], w \in values[y]}
              : x, y \in DOMAIN values}

MCEnvs ==
    UNION {Variants(base, DatabaseValues) : base \in {ByUrl, Discrete, Iam}}
    \cup UNION {Variants(base, PageValues) : base \in {ByUrl, BothApps}}

\* Two of those that work, as they are: without any app, and with both.
MCPlainEnvs == {ByUrl, BothApps}

\* Visitors of every platform, with the words their browsers send (an iPad that
\* asks for desktop pages sends those of a Mac), with and without a proxy.
Visitor(device, user_agent, forwarded_for) ==
    [device |-> device, user_agent |-> user_agent, forwarded_for |-> forwarded_for,
     socket |-> "peer"]

MCVisitors ==
    {Visitor("ios", {"iphone", "mac os x"}, None),
     Visitor("ios", {"ipad"}, <<"client", "proxy">>),
     Visitor("android", {"android", "linux"}, <<Bad>>),
     Visitor("unknown", {"macintosh", "mac os x"}, None),
     Visitor("unknown", {}, None), Visitor("unknown", None, None)}

\* A link with URLs of its own, with some, and with none.
MCLinks ==
    {[ios_store_url |-> "own store", android_store_url |-> "own play", web_fallback_url |-> "own web"],
     [ios_store_url |-> "own store", android_store_url |-> None, web_fallback_url |-> None],
     [ios_store_url |-> None, android_store_url |-> None, web_fallback_url |-> "own web"],
     [ios_store_url |-> None, android_store_url |-> None, web_fallback_url |-> None]}

=============================================================================
