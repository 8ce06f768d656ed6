----------------------------- MODULE Deployment -----------------------------
(***************************************************************************)
(* A server from its environment to the pages it answers with: main and    *)
(* run (lib.rs) over Config, then serve (links.rs) over Fallback and       *)
(* ClickContext, and the association documents of WellKnown.               *)
(*                                                                         *)
(* Every step of run awaits something that may fail, and a failure ends    *)
(* the process.  What resolve answers is LinkCache's business: here a      *)
(* request resolves to any link, or to none.                               *)
(***************************************************************************)
EXTENDS ClickContext, WellKnown

CONSTANTS
    Envs,     \* the environments to start in
    Links,    \* what a path may resolve to
    Visitors  \* headers and peer of a request, and the device it comes from

\* An environment has a value for every variable; what parses as a number of
\* seconds or as a switch is one.
ASSUME EnvsAssumption ==
    \A e \in Envs :
       /\ DOMAIN e = Names
       /\ \A x \in {"DATABASE_IAM_TOKEN_REFRESH_INTERVAL_SECS", "POOL_MAX_LIFETIME_SECS"} :
             e[x] \in Nat \cup {None, Blank, Bad}
       /\ \A x \in {"PRIVACY_STORE_RAW_IP", "PRIVACY_HASH_IP"} :
             e[x] \in {TRUE, FALSE, None, Blank, Bad}

\* No hash and no app is mistaken for a missing one.
ASSUME RecordsAssumption ==
    \A e \in Envs : Accepts(e) =>
       /\ \A visitor \in Visitors : HashIp(PrivacyConfig(e), ClientIp(visitor)) # None
       /\ IsSet(e, "IOS_TEAM_ID") => IosConfig(e) # None
       /\ IsSet(e, "ANDROID_PACKAGE_NAME") => AndroidConfig(e) # None

\* A phone that names itself does so by the word the detection looks for, and an
\* Android device by none of iOS.
ASSUME DevicesAssumption ==
    \A visitor \in Visitors :
       /\ visitor.device = "ios" =>
             visitor.user_agent # None /\ visitor.user_agent \cap IosWords # {}
       /\ visitor.device = "android" =>
             /\ visitor.user_agent # None
             /\ "android" \in visitor.user_agent /\ visitor.user_agent \cap IosWords = {}

VARIABLES
    env,    \* the TELEPORTA_* variables
    stage,  \* what run does next
    cfg,    \* the configuration, once it is loaded
    answer  \* to the request just answered, or None

vars == <<env, stage, cfg, answer>>

Stages == {"config", "connect", "migrate", "redis", "bind", "serving", "exited"}

Page == answer # None /\ answer.kind = "page"
Document == answer # None /\ answer.kind = "document"

DeploymentTypeOK ==
    /\ stage \in Stages
    /\ stage \notin {"config", "exited"} => cfg = FromEnv(env) /\ Accepts(env)
    /\ answer # None => stage = "serving"
    /\ Page =>
          /\ answer.link \in Links \cup {None} /\ answer.visitor \in Visitors
          /\ answer.page.status \in {200, 303, 404}
          /\ answer.click.platform \in Platforms
          /\ answer.click.destination_type \in Kinds \cup {"none"}
    /\ Document => answer.platform \in {"ios", "android"} /\ answer.document.status \in {200, 404}

Init ==
    /\ env \in Envs
    /\ stage = "config"
    /\ cfg = None
    /\ answer = None

-----------------------------------------------------------------------------

\* Mutant of LoadConfig: what does not parse is passed over.
LoadConfigLeniently ==
    /\ stage = "config"
    /\ stage' = "connect"
    /\ cfg' = FromEnv(env)
    /\ UNCHANGED <<env, answer>>

LoadConfig ==
    /\ stage = "config"
    /\ IF Accepts(env)
       THEN stage' = "connect" /\ cfg' = FromEnv(env)
       ELSE stage' = "exited" /\ UNCHANGED cfg
    /\ UNCHANGED <<env, answer>>

\* A call of run that succeeds, or fails and ends the process.
Await(at, next) ==
    /\ stage = at
    /\ stage' \in {next, "exited"}
    /\ UNCHANGED <<env, cfg, answer>>

ConnectDatabase == Await("connect", "migrate")
Migrate == Await("migrate", "redis")

\* Client::open tells a URL it cannot use.
ConnectRedis ==
    /\ Await("redis", "bind")
    /\ cfg.redis.url = Bad => stage' = "exited"

\* The address is parsed here; another process may have it.
Bind ==
    /\ Await("bind", "serving")
    /\ cfg.http_addr = Bad => stage' = "exited"

\* serve: a request resolves to link, is logged and answered.
Serve(link, visitor) ==
    /\ stage = "serving"
    /\ answer = None
    /\ answer' = [kind |-> "page", link |-> link, visitor |-> visitor,
                  click |-> Click(cfg, link, visitor),
                  page |-> Respond(cfg, link, DetectPlatform(visitor.user_agent))]
    /\ UNCHANGED <<env, stage, cfg>>

\* An operating system fetches the association document of its platform.
FetchAssociation(platform) ==
    /\ stage = "serving"
    /\ answer = None
    /\ answer' = [kind |-> "document", platform |-> platform,
                  document |-> IF platform = "ios" THEN AppleAppSiteAssociation(cfg)
                               ELSE AssetLinks(cfg)]
    /\ UNCHANGED <<env, stage, cfg>>

\* The answer is on its way; the next request may come.
Sent ==
    /\ answer # None
    /\ answer' = None
    /\ UNCHANGED <<env, stage, cfg>>

\* shutdown_signal: the server drains and run returns.
Shutdown ==
    /\ stage = "serving"
    /\ answer = None
    /\ stage' = "exited"
    /\ UNCHANGED <<env, cfg, answer>>

Next ==
    \/ LoadConfig
    \/ ConnectDatabase \/ Migrate \/ ConnectRedis \/ Bind
    \/ \E link \in Links \cup {None}, visitor \in Visitors : Serve(link, visitor)
    \/ \E platform \in {"ios", "android"} : FetchAssociation(platform)
    \/ Sent
    \/ Shutdown

Spec == Init /\ [][Next]_vars

-----------------------------------------------------------------------------
(* Properties of the configuration *)

\* config.rs:271-371, db.rs:63-99: whatever is set, left out or left blank, a
\* process that goes on to connect with IAM does so over TLS, with a refresh
\* interval and a connection lifetime inside the token's: IamConfigAssumption
\* of IamToken.
IamConfigSound ==
    stage \notin {"config", "exited"} /\ cfg.database.mode = "iam" =>
       /\ cfg.database.ssl_mode # "disable"
       /\ cfg.database.token_refresh_interval \in 1..IAM_TOKEN_TTL_SECS - 1
       /\ cfg.pool.max_lifetime \in 1..IAM_TOKEN_TTL_SECS - 1

\* The environment with its blank variables taken out.
WithoutBlanks(e) ==
    [x \in DOMAIN e |-> IF e[x] = Blank /\ x # "PRIVACY_HASH_IP" THEN None ELSE e[x]]

\* config.rs:450-456: a deployment that leaves a variable blank instead of out
\* is accepted or rejected all the same and behaves the same.  The exception
\* is TELEPORTA_PRIVACY_HASH_IP (config.rs:243): blank, it turns hashing off.
BlankMeansUnset ==
    /\ Accepts(env) <=> Accepts(WithoutBlanks(env))
    /\ Accepts(env) => FromEnv(env) = FromEnv(WithoutBlanks(env))

-----------------------------------------------------------------------------
(* Properties of the answers *)

Buttons(page) == page.primary \o page.alternatives

\* fallback.rs:18-19 "Offer every configured alternative the user might want,
\* regardless of detected platform": each destination the link or the
\* deployment has is on the page, the link's own URL before the deployment's;
\* no kind is there twice, and no URL of anyone else, unless it is the server's
\* public origin.
OffersEverything ==
    Page /\ answer.link # None =>
       LET buttons == Buttons(answer.page)
           link == answer.link
           offered == {<<buttons[i].kind, buttons[i].url>> : i \in DOMAIN buttons}
           expected == {<<"app_store", Or(link.ios_store_url, AppStoreUrl(cfg))>>,
                        <<"play_store", Or(link.android_store_url, PlayStoreUrl(cfg))>>,
                        <<"web", link.web_fallback_url>>}
           origin == {"web", "home"} \X {cfg.public_base_url} IN
       /\ {d \in expected : d[2] # None} \subseteq offered
       /\ offered \subseteq {d \in expected : d[2] # None} \cup origin
       /\ \A i, j \in DOMAIN buttons : buttons[i].kind = buttons[j].kind => i = j

\* config.rs:25-26 public_base_url is "used to build absolute fallback URLs when a
\* link has none of its own", README.md:184 "Public origin, used for absolute
\* fallback URLs": where neither the link nor the deployment has a URL to offer,
\* the page leads to the public origin.
BaseUrlStandsIn ==
    Page /\ answer.link # None /\ (\A kind \in Kinds : Url(cfg, answer.link, kind) = None) =>
       \E i \in DOMAIN Buttons(answer.page) :
          Buttons(answer.page)[i].url = cfg.public_base_url

\* decision.rs:63-94, links.rs:72-112, fallback.rs:90-98: the page, the refresh
\* and the click that is logged agree on one destination, and none of them
\* sends a visitor to the store of another platform than the one logged.
OneDestination ==
    Page =>
       LET page == answer.page
           destination_type == answer.click.destination_type IN
       /\ destination_type = IF page.primary = <<>> THEN "none" ELSE page.primary[1].kind
       /\ page.refresh # None => page.primary # <<>> /\ page.refresh = page.primary[1].url
       /\ destination_type \in {"app_store", "play_store"} =>
             destination_type = Store(answer.click.platform)

\* platform.rs:33-36 "Android devices sometimes include "Linux" in their UA",
\* README.md:165: whatever else its user agent says, a phone that names itself
\* is sent to its own store if the link or the deployment knows one, by the
\* button and by the refresh.
DeviceGetsItsStore ==
    Page /\ answer.link # None /\ answer.visitor.device \in {"ios", "android"} =>
       LET url == Url(cfg, answer.link, Store(answer.visitor.device)) IN
       url # None =>
          /\ answer.page.primary = <<[kind |-> Store(answer.visitor.device), url |-> url]>>
          /\ cfg.fallback.auto_redirect_to_store => answer.page.refresh = url

\* fallback.rs:55-56 "so a user who hit a dead link still has somewhere useful to
\* go": a dead link redirects or offers something that works on the platform.
DeadLinkLeadsOn ==
    Page /\ answer.link = None =>
       LET buttons == Buttons(answer.page) IN
       /\ answer.page.location # None \/ buttons # <<>>
       /\ \A i \in DOMAIN buttons :
             buttons[i].url # None /\ buttons[i].kind \in {Store(answer.click.platform), "home"}

\* config.rs:181-225, api/well_known.rs: a document is served complete or not at
\* all, whichever of its variables are set, and a page shows a store of the
\* deployment only where the app of that store is associated with the domain
\* (otherwise its URL is dropped, config.rs:185).
AssociationComplete ==
    /\ Document =>
          LET names == IF answer.platform = "ios" THEN {"IOS_TEAM_ID", "IOS_BUNDLE_ID"}
                       ELSE {"ANDROID_PACKAGE_NAME", "ANDROID_FINGERPRINTS"} IN
          /\ (answer.document.status = 200) <=> Required(env, names)
          /\ answer.document.status = 200 => answer.document.ids = {env[x] : x \in names}
    /\ Page =>
          \A i \in DOMAIN Buttons(answer.page) :
             LET button == Buttons(answer.page)[i]
                 own(url) == answer.link # None /\ answer.link[url] = button.url IN
             /\ button.kind = "app_store" =>
                   own("ios_store_url") \/ Required(env, {"IOS_TEAM_ID", "IOS_BUNDLE_ID"})
             /\ button.kind = "play_store" =>
                   \/ own("android_store_url")
                   \/ Required(env, {"ANDROID_PACKAGE_NAME", "ANDROID_FINGERPRINTS"})

\* config.rs:241-259, click_log.rs:47-56, migration 0002 "Raw IP is only populated
\* when explicitly enabled": an address is logged in the clear only if the
\* environment says so, and not even hashed only if it has the variable for it
\* (blank counts, config.rs:243); the salt is the deployment's.
PrivacyExplicit ==
    Page =>
       /\ answer.click.raw_ip # None => env["PRIVACY_STORE_RAW_IP"] = TRUE
       /\ answer.click.ip_hash = None => env["PRIVACY_HASH_IP"] \in {Blank, FALSE}
       /\ answer.click.ip_hash # None /\ IsSet(env, "PRIVACY_IP_HASH_SALT") =>
             answer.click.ip_hash[1] = env["PRIVACY_IP_HASH_SALT"]

=============================================================================
