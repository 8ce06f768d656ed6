-------------------------- MODULE DeploymentProofs --------------------------
(* What TLAPS proves of Deployment, for every environment, link and visitor. *)
EXTENDS Deployment, TLAPS

-----------------------------------------------------------------------------
(* Where the configuration and the answers come from *)

\* A process past loading runs on the configuration of its environment, which was
\* accepted, and every answer is computed from it.
Loaded == stage \notin {"config", "exited"} => cfg = FromEnv(env) /\ Accepts(env)

PageOf(link, visitor) ==
    [kind |-> "page", link |-> link, visitor |-> visitor,
     click |-> Click(cfg, link, visitor),
     page |-> Respond(cfg, link, DetectPlatform(visitor.user_agent))]

DocumentOf(platform) ==
    [kind |-> "document", platform |-> platform,
     document |-> IF platform = "ios" THEN AppleAppSiteAssociation(cfg) ELSE AssetLinks(cfg)]

Computed ==
    answer # None =>
       /\ stage = "serving"
       /\ \/ \E link \in Links \cup {None}, visitor \in Visitors : answer = PageOf(link, visitor)
          \/ \E platform \in {"ios", "android"} : answer = DocumentOf(platform)

DeploymentInv == env \in Envs /\ Loaded /\ Computed

\* The invariant holds in every reachable state.
LEMMA DeploymentInvCorrect == Spec => []DeploymentInv
<1>1. Init => DeploymentInv
  BY DEF Init, DeploymentInv, Loaded, Computed
<1>2. DeploymentInv /\ [Next]_vars => DeploymentInv'
  <2> SUFFICES ASSUME DeploymentInv, [Next]_vars PROVE DeploymentInv'
    OBVIOUS
  <2>1. CASE LoadConfig
    BY <2>1 DEF LoadConfig, DeploymentInv, Loaded, Computed
  <2>2. CASE ConnectDatabase \/ Migrate \/ ConnectRedis \/ Bind
    BY <2>2 DEF ConnectDatabase, Migrate, ConnectRedis, Bind, Await, DeploymentInv, Loaded, Computed
  <2>3. ASSUME NEW link \in Links \cup {None}, NEW visitor \in Visitors, Serve(link, visitor)
        PROVE  DeploymentInv'
    <3>1. UNCHANGED <<env, stage, cfg>> /\ stage = "serving" /\ answer' = PageOf(link, visitor)
      BY <2>3 DEF Serve, PageOf
    <3> QED BY <3>1 DEF DeploymentInv, Loaded, Computed, PageOf
  <2>4. ASSUME NEW platform \in {"ios", "android"}, FetchAssociation(platform)
        PROVE  DeploymentInv'
    <3>1. UNCHANGED <<env, stage, cfg>> /\ stage = "serving" /\ answer' = DocumentOf(platform)
      BY <2>4 DEF FetchAssociation, DocumentOf
    <3> QED BY <3>1 DEF DeploymentInv, Loaded, Computed, DocumentOf
  <2>5. CASE Sent
    BY <2>5 DEF Sent, DeploymentInv, Loaded, Computed
  <2>6. CASE Shutdown
    BY <2>6 DEF Shutdown, DeploymentInv, Loaded, Computed
  <2>7. CASE UNCHANGED vars
    BY <2>7 DEF vars, DeploymentInv, Loaded, Computed, PageOf, DocumentOf
  <2> QED BY <2>1, <2>2, <2>3, <2>4, <2>5, <2>6, <2>7 DEF Next
<1> QED BY <1>1, <1>2, PTL DEF Spec

\* What a page is made of.
LEMMA Pages ==
    ASSUME DeploymentInv, Page
    PROVE  /\ answer.link \in Links \cup {None} /\ answer.visitor \in Visitors
           /\ answer.click = Click(cfg, answer.link, answer.visitor)
           /\ answer.page = Respond(cfg, answer.link, answer.click.platform)
           /\ cfg = FromEnv(env) /\ Accepts(env)
<1>1. PICK link \in Links \cup {None}, visitor \in Visitors : answer = PageOf(link, visitor)
  BY DEF Page, DeploymentInv, Computed, DocumentOf
<1>2. answer.click.platform = DetectPlatform(visitor.user_agent)
  BY <1>1 DEF PageOf, Click
<1> QED BY <1>1, <1>2 DEF PageOf, Page, DeploymentInv, Computed, Loaded

-----------------------------------------------------------------------------
(* The configuration *)

\* A variable that parses and is a number of seconds where it is set is a number.
LEMMA Seconds ==
    ASSUME NEW e \in Envs, NEW default \in Nat,
           NEW x \in {"DATABASE_IAM_TOKEN_REFRESH_INTERVAL_SECS", "POOL_MAX_LIFETIME_SECS"},
           e[x] # Bad
    PROVE  EnvOr(e, x, default) \in Nat
BY EnvsAssumption DEF EnvOr, IsSet, OptEnv

\* Whatever is set, left out or left blank, a process that connects with IAM does
\* so over TLS, with an interval and a lifetime inside those of the token.
THEOREM IamConfigSoundCorrect == Spec => []IamConfigSound
<1>1. DeploymentInv => IamConfigSound
  <2> SUFFICES ASSUME DeploymentInv, stage \notin {"config", "exited"}, cfg.database.mode = "iam"
               PROVE  /\ cfg.database.ssl_mode # "disable"
                      /\ cfg.database.token_refresh_interval \in 1..IAM_TOKEN_TTL_SECS - 1
                      /\ cfg.pool.max_lifetime \in 1..IAM_TOKEN_TTL_SECS - 1
    BY DEF IamConfigSound
  <2>1. env \in Envs /\ cfg = FromEnv(env) /\ Accepts(env)
    BY DEF DeploymentInv, Loaded
  <2>2. cfg.database = DatabaseConfig(env) /\ cfg.pool = PoolConfig(env)
    BY <2>1 DEF FromEnv
  <2>3. DatabaseMode(env) = "iam"
    BY <2>2 DEF DatabaseConfig
  <2>4. /\ cfg.database.ssl_mode = SslMode(env)
        /\ cfg.database.token_refresh_interval = RefreshInterval(env)
    BY <2>2, <2>3 DEF DatabaseConfig
  <2>5. ValidIam(env) /\ ValidPool(env) /\ ValidPoolForDatabase(env)
    BY <2>1, <2>3 DEF Accepts, ValidDatabase
  <2>6. RefreshInterval(env) \in 1..IAM_TOKEN_TTL_SECS - 1
    <3>1. RefreshInterval(env) \in Nat
      BY <2>1, <2>5, Seconds DEF ValidIam, Parses, RefreshInterval
    <3> QED BY <2>5, <3>1 DEF ValidIam, IAM_TOKEN_TTL_SECS
  <2>7. PoolConfig(env).max_lifetime \in 1..IAM_TOKEN_TTL_SECS - 1
    <3>1. PoolConfig(env).max_lifetime = EnvOr(env, "POOL_MAX_LIFETIME_SECS", 600)
      BY DEF PoolConfig
    <3>2. PoolConfig(env).max_lifetime \in Nat
      BY <2>1, <2>5, <3>1, Seconds DEF ValidPool, Parses
    <3> QED BY <2>3, <2>5, <3>2 DEF ValidPoolForDatabase, IAM_TOKEN_TTL_SECS
  <2> QED BY <2>2, <2>4, <2>5, <2>6, <2>7 DEF ValidIam
<1> QED BY <1>1, DeploymentInvCorrect, PTL

-----------------------------------------------------------------------------
(* Blank variables *)

\* A variable reads the same with the blanks taken out.
LEMMA BlankVariables ==
    ASSUME NEW e \in Envs
    PROVE  LET w == WithoutBlanks(e) IN
           /\ w["PRIVACY_HASH_IP"] = e["PRIVACY_HASH_IP"]
           /\ \A x \in Names :
                 /\ OptEnv(w, x) = OptEnv(e, x)
                 /\ IsSet(w, x) <=> IsSet(e, x)
                 /\ w[x] = Bad <=> e[x] = Bad
                 /\ \A default : EnvOr(w, x, default) = EnvOr(e, x, default)
                 /\ BoolEnv(w, x) = BoolEnv(e, x)
<1> DEFINE w == WithoutBlanks(e)
<1>1. /\ "PRIVACY_HASH_IP" \in Names
      /\ \A x \in Names :
            w[x] = IF e[x] = Blank /\ x # "PRIVACY_HASH_IP" THEN None ELSE e[x]
  BY EnvsAssumption DEF WithoutBlanks, Names
<1> HIDE DEF w
<1>2. \A x \in Names : OptEnv(w, x) = OptEnv(e, x) /\ (w[x] = Bad <=> e[x] = Bad)
  BY <1>1, ValuesAssumption DEF OptEnv
<1>3. \A x \in Names : \A default : EnvOr(w, x, default) = EnvOr(e, x, default)
  BY <1>2 DEF EnvOr, IsSet
<1>4. \A x \in Names : BoolEnv(w, x) = BoolEnv(e, x)
  BY <1>3, Zenon DEF BoolEnv
<1>5. \A x \in Names : IsSet(w, x) <=> IsSet(e, x)
  BY <1>2 DEF IsSet
<1>6. w["PRIVACY_HASH_IP"] = e["PRIVACY_HASH_IP"]
  BY <1>1
<1> QED BY <1>2, <1>3, <1>4, <1>5, <1>6 DEF w

\* A deployment that leaves variables blank is one that leaves them out.
THEOREM BlankMeansUnsetCorrect == Spec => []BlankMeansUnset
<1>1. ASSUME NEW e \in Envs
      PROVE  /\ Accepts(e) <=> Accepts(WithoutBlanks(e))
             /\ FromEnv(e) = FromEnv(WithoutBlanks(e))
  <2> DEFINE w == WithoutBlanks(e)
  <2>1. /\ w["PRIVACY_HASH_IP"] = e["PRIVACY_HASH_IP"]
        /\ \A x \in Names :
              /\ OptEnv(w, x) = OptEnv(e, x)
              /\ IsSet(w, x) <=> IsSet(e, x)
              /\ w[x] = Bad <=> e[x] = Bad
              /\ \A default : EnvOr(w, x, default) = EnvOr(e, x, default)
              /\ BoolEnv(w, x) = BoolEnv(e, x)
    BY BlankVariables
  <2> HIDE DEF w
  <2>2. \A xs \in SUBSET Names :
           (Parses(w, xs) <=> Parses(e, xs)) /\ (Required(w, xs) <=> Required(e, xs))
    BY <2>1 DEF Parses, Required
  <2>3. DatabaseMode(w) = DatabaseMode(e)
    BY <2>1 DEF DatabaseMode, Names
  <2>4. SslMode(w) = SslMode(e) /\ RefreshInterval(w) = RefreshInterval(e)
    BY <2>1, <2>3 DEF SslMode, RefreshInterval, Names
  <2>5. PoolConfig(w) = PoolConfig(e)
    BY <2>1 DEF PoolConfig, Names
  <2>6. (ValidIos(w) <=> ValidIos(e)) /\ (ValidAndroid(w) <=> ValidAndroid(e))
    BY <2>1, <2>2 DEF ValidIos, ValidAndroid, Names
  <2>7. ValidDatabase(w) <=> ValidDatabase(e)
    <3>1. ValidIam(w) <=> ValidIam(e)
      BY <2>1, <2>2, <2>4 DEF ValidIam, Names
    <3>2. ValidDiscrete(w) <=> ValidDiscrete(e)
      BY <2>2 DEF ValidDiscrete, Names
    <3> QED BY <2>2, <2>3, <3>1, <3>2 DEF ValidDatabase, Names
  <2>8. (ValidPool(w) <=> ValidPool(e)) /\ (ValidPoolForDatabase(w) <=> ValidPoolForDatabase(e))
    BY <2>2, <2>3, <2>5 DEF ValidPool, ValidPoolForDatabase, Names
  <2>9. (ValidRedis(w) <=> ValidRedis(e)) /\ (ValidPrivacy(w) <=> ValidPrivacy(e))
        /\ (ValidFallback(w) <=> ValidFallback(e))
        /\ (Parses(w, {"HTTP_PORT"}) <=> Parses(e, {"HTTP_PORT"}))
    BY <2>2 DEF ValidRedis, ValidPrivacy, ValidFallback, Names
  <2>10. Accepts(e) <=> Accepts(w)
    BY <2>6, <2>7, <2>8, <2>9 DEF Accepts
  <2>11. IosConfig(w) = IosConfig(e) /\ AndroidConfig(w) = AndroidConfig(e)
    BY <2>1 DEF IosConfig, AndroidConfig, Names
  <2>12. DatabaseConfig(w) = DatabaseConfig(e)
    BY <2>1, <2>3, <2>4 DEF DatabaseConfig, Names
  <2>13. PrivacyConfig(w) = PrivacyConfig(e) /\ FallbackConfig(w) = FallbackConfig(e)
    <3>1. /\ BoolEnv(w, "PRIVACY_STORE_RAW_IP") = BoolEnv(e, "PRIVACY_STORE_RAW_IP")
          /\ BoolEnv(w, "PRIVACY_HASH_IP") = BoolEnv(e, "PRIVACY_HASH_IP")
          /\ BoolEnv(w, "FALLBACK_AUTO_REDIRECT_TO_STORE")
                = BoolEnv(e, "FALLBACK_AUTO_REDIRECT_TO_STORE")
      BY <2>1 DEF Names
    <3>2. /\ OptEnv(w, "FALLBACK_HOME_URL") = OptEnv(e, "FALLBACK_HOME_URL")
          /\ EnvOr(w, "FALLBACK_AUTO_REDIRECT_DELAY_MS", 500)
                = EnvOr(e, "FALLBACK_AUTO_REDIRECT_DELAY_MS", 500)
          /\ EnvOr(w, "PRIVACY_IP_HASH_SALT", "change-me")
                = EnvOr(e, "PRIVACY_IP_HASH_SALT", "change-me")
      BY <2>1 DEF Names
    <3>3. PrivacyConfig(w) = PrivacyConfig(e)
      BY <2>1, <3>1, <3>2, Zenon DEF PrivacyConfig
    <3> QED BY <3>1, <3>2, <3>3, Zenon DEF FallbackConfig
  <2>14. /\ RedisConfig(w) = RedisConfig(e)
         /\ EnvOr(w, "HTTP_HOST", "0.0.0.0") = EnvOr(e, "HTTP_HOST", "0.0.0.0")
         /\ EnvOr(w, "PUBLIC_BASE_URL", DEFAULT_BASE_URL)
               = EnvOr(e, "PUBLIC_BASE_URL", DEFAULT_BASE_URL)
    BY <2>1 DEF RedisConfig, Names
  <2>15. FromEnv(e) = FromEnv(w)
    BY <2>5, <2>11, <2>12, <2>13, <2>14, Zenon DEF FromEnv
  <2> QED BY <2>10, <2>15 DEF w
<1>2. DeploymentInv => BlankMeansUnset
  BY <1>1 DEF DeploymentInv, BlankMeansUnset
<1> QED BY <1>2, DeploymentInvCorrect, PTL

-----------------------------------------------------------------------------
(* The log *)

\* A switch that parses is on only if it is set to TRUE.
LEMMA Switches ==
    ASSUME NEW e \in Envs, NEW x \in {"PRIVACY_STORE_RAW_IP", "PRIVACY_HASH_IP"}, e[x] # Bad
    PROVE  /\ BoolEnv(e, x) \in {TRUE, FALSE}
           /\ BoolEnv(e, x) = TRUE => e[x] = TRUE
           /\ BoolEnv(e, x) = FALSE => e[x] \in {None, Blank, FALSE}
<1>1. e[x] \in {TRUE, FALSE, None, Blank}
  BY EnvsAssumption
<1>2. CASE e[x] \in {None, Blank}
  BY <1>2, ValuesAssumption DEF BoolEnv, EnvOr, IsSet, OptEnv
<1>3. CASE e[x] \in {TRUE, FALSE}
  <2>1. e[x] # None /\ e[x] # Blank
    BY <1>3, ValuesAssumption
  <2>2. BoolEnv(e, x) = e[x]
    BY <2>1 DEF BoolEnv, EnvOr, IsSet, OptEnv
  <2> QED BY <1>3, <2>2
<1> QED BY <1>1, <1>2, <1>3

\* An address is logged in the clear only if the environment says so, and not at
\* all only if it says that.
THEOREM PrivacyExplicitCorrect == Spec => []PrivacyExplicit
<1>1. ASSUME DeploymentInv, Page
      PROVE  /\ answer.click.raw_ip # None => env["PRIVACY_STORE_RAW_IP"] = TRUE
             /\ answer.click.ip_hash = None => env["PRIVACY_HASH_IP"] \in {Blank, FALSE}
             /\ answer.click.ip_hash # None /\ IsSet(env, "PRIVACY_IP_HASH_SALT") =>
                   answer.click.ip_hash[1] = env["PRIVACY_IP_HASH_SALT"]
  <2> DEFINE raw == BoolEnv(env, "PRIVACY_STORE_RAW_IP")
             hash == BoolEnv(env, "PRIVACY_HASH_IP")
             ip == ClientIp(answer.visitor)
  <2>1. /\ env \in Envs /\ answer.visitor \in Visitors
        /\ cfg = FromEnv(env) /\ Accepts(env)
        /\ answer.click = Click(cfg, answer.link, answer.visitor)
    BY <1>1, Pages DEF DeploymentInv
  <2>2. cfg.privacy = PrivacyConfig(env)
    BY <2>1 DEF FromEnv
  <2>3. env["PRIVACY_STORE_RAW_IP"] # Bad /\ env["PRIVACY_HASH_IP"] # Bad
    BY <2>1 DEF Accepts, ValidPrivacy, Parses
  <2>4. answer.click.raw_ip = IF raw THEN ip ELSE None
    BY <2>1, <2>2 DEF Click, PrivacyConfig
  <2>5. answer.click.ip_hash =
           IF env["PRIVACY_HASH_IP"] = None \/ hash THEN HashIp(PrivacyConfig(env), ip) ELSE None
    <3>1. answer.click.ip_hash =
             IF cfg.privacy.hash_ip THEN HashIp(cfg.privacy, ip) ELSE None
      BY <2>1 DEF Click
    <3>2. PrivacyConfig(env).hash_ip = (env["PRIVACY_HASH_IP"] = None \/ hash)
      BY Zenon DEF PrivacyConfig
    <3> HIDE DEF hash, ip
    <3> QED BY <2>2, <3>1, <3>2, Zenon
  <2>6. HashIp(PrivacyConfig(env), ip) # None
    BY <2>1, RecordsAssumption
  <2>7. answer.click.raw_ip # None => env["PRIVACY_STORE_RAW_IP"] = TRUE
    BY <2>1, <2>3, <2>4, Switches
  <2>8. answer.click.ip_hash = None => env["PRIVACY_HASH_IP"] \in {Blank, FALSE}
    <3> SUFFICES ASSUME answer.click.ip_hash = None PROVE env["PRIVACY_HASH_IP"] \in {Blank, FALSE}
      OBVIOUS
    <3>1. env["PRIVACY_HASH_IP"] # None /\ ~hash
      BY <2>5, <2>6
    <3> QED BY <2>1, <2>3, <3>1, Switches
  <2>9. IsSet(env, "PRIVACY_IP_HASH_SALT") =>
           HashIp(PrivacyConfig(env), ip)[1] = env["PRIVACY_IP_HASH_SALT"]
    BY DEF HashIp, PrivacyConfig, EnvOr, IsSet, OptEnv
  <2> QED BY <2>5, <2>7, <2>8, <2>9
<1>2. DeploymentInv => PrivacyExplicit
  BY <1>1 DEF PrivacyExplicit
<1> QED BY <1>2, DeploymentInvCorrect, PTL

-----------------------------------------------------------------------------
(* The destination *)

\* A decision is of the kind of its platform or of the web, and has a URL unless
\* it is none.
LEMMA Decisions ==
    ASSUME NEW c, NEW link, NEW platform
    PROVE  LET d == Decide(c, link, platform) IN
           /\ d = NoDestination \/ (d.kind \in {Store(platform), "web"} /\ d.url # None
                                      /\ d.kind # "none")
           /\ d.url = None => d = NoDestination
BY DEF Decide, Destination, NoDestination, Store, Url

\* The primary button, the refresh and the click agree.
THEOREM OneDestinationCorrect == Spec => []OneDestination
<1>1. ASSUME DeploymentInv, Page
      PROVE  /\ answer.click.destination_type =
                   IF answer.page.primary = <<>> THEN "none" ELSE answer.page.primary[1].kind
             /\ answer.page.refresh # None =>
                   /\ answer.page.primary # <<>>
                   /\ answer.page.refresh = answer.page.primary[1].url
             /\ answer.click.destination_type \in {"app_store", "play_store"} =>
                   answer.click.destination_type = Store(answer.click.platform)
  <2> DEFINE platform == DetectPlatform(answer.visitor.user_agent)
             decision == Decide(cfg, answer.link, platform)
  <2>1. /\ answer.click.platform = platform
        /\ answer.click.destination_type = Logged(cfg, answer.link, platform)
    BY <1>1, Pages DEF Click
  <2>2. answer.page = Respond(cfg, answer.link, platform)
    BY <1>1, <2>1, Pages
  <2>3. CASE answer.link # None
    <3>1. /\ answer.click.destination_type = decision.kind
          /\ answer.page.primary = PrimaryButton(decision)
          /\ answer.page.refresh = AutoRedirect(cfg, decision)
      BY <2>1, <2>2, <2>3 DEF Logged, Respond, RenderFound
    <3>2. CASE decision.url = None
      <4>1. decision = NoDestination
        BY <3>2, Decisions
      <4> QED BY <3>1, <3>2, <4>1 DEF NoDestination, PrimaryButton, AutoRedirect
    <3>3. CASE decision.url # None
      <4>1. answer.page.primary = <<decision>> /\ answer.page.primary[1] = decision
        BY <3>1, <3>3 DEF PrimaryButton
      <4>2. decision.kind \in {Store(platform), "web"}
        BY <3>3, Decisions DEF NoDestination
      <4>3. answer.page.refresh # None => answer.page.refresh = decision.url
        BY <3>1 DEF AutoRedirect
      <4> QED BY <2>1, <3>1, <4>1, <4>2, <4>3
    <3> QED BY <3>2, <3>3
  <2>4. CASE answer.link = None
    <3>1. answer.click.destination_type = "none"
      BY <2>1, <2>4 DEF Logged
    <3>2. answer.page.primary = <<>> /\ answer.page.refresh = None
      BY <2>2, <2>4 DEF Respond, RedirectTo, RenderNotFound
    <3> QED BY <3>1, <3>2
  <2> QED BY <2>3, <2>4
<1>2. DeploymentInv => OneDestination
  BY <1>1 DEF OneDestination
<1> QED BY <1>2, DeploymentInvCorrect, PTL

\* A phone that names itself is sent to its own store.
THEOREM DeviceGetsItsStoreCorrect == Spec => []DeviceGetsItsStore
<1>1. ASSUME DeploymentInv, Page, answer.link # None, answer.visitor.device \in {"ios", "android"},
             Url(cfg, answer.link, Store(answer.visitor.device)) # None
      PROVE  LET url == Url(cfg, answer.link, Store(answer.visitor.device)) IN
             /\ answer.page.primary = <<[kind |-> Store(answer.visitor.device), url |-> url]>>
             /\ cfg.fallback.auto_redirect_to_store => answer.page.refresh = url
  <2> DEFINE device == answer.visitor.device
             decision == Decide(cfg, answer.link, device)
  <2>1. answer.visitor \in Visitors /\ answer.click = Click(cfg, answer.link, answer.visitor)
    BY <1>1, Pages
  <2>2. DetectPlatform(answer.visitor.user_agent) = device
    BY <1>1, <2>1, DevicesAssumption DEF DetectPlatform
  <2>3. answer.page = Respond(cfg, answer.link, device)
    BY <1>1, <2>1, <2>2, Pages DEF Click
  <2>4. /\ answer.page.primary = PrimaryButton(decision)
        /\ answer.page.refresh = AutoRedirect(cfg, decision)
    BY <1>1, <2>3 DEF Respond, RenderFound
  <2>5. decision = Destination(cfg, answer.link, Store(device))
    BY <1>1 DEF Decide, Store
  <2>6. /\ decision = [kind |-> Store(device), url |-> Url(cfg, answer.link, Store(device))]
        /\ decision.url # None
    BY <1>1, <2>5 DEF Destination
  <2> QED BY <2>4, <2>6 DEF PrimaryButton, AutoRedirect
<1>2. DeploymentInv => DeviceGetsItsStore
  BY <1>1 DEF DeviceGetsItsStore
<1> QED BY <1>2, DeploymentInvCorrect, PTL

-----------------------------------------------------------------------------
(* The buttons *)

Elements(s) == {s[i] : i \in DOMAIN s}
Distinct(s) == \A i, j \in DOMAIN s : s[i].kind = s[j].kind => i = j

\* Buttons of different kinds put one after the other.
LEMMA Concatenation ==
    ASSUME NEW S, NEW s \in Seq(S), NEW t \in Seq(S)
    PROVE  /\ s \o t \in Seq(S)
           /\ Elements(s \o t) = Elements(s) \cup Elements(t)
           /\ Distinct(s) /\ Distinct(t)
                 /\ (\A a \in Elements(s), b \in Elements(t) : a.kind # b.kind) => Distinct(s \o t)
<1>1. /\ s \o t \in Seq(S) /\ Len(s \o t) = Len(s) + Len(t) /\ Len(s) \in Nat /\ Len(t) \in Nat
      /\ DOMAIN s = 1..Len(s) /\ DOMAIN t = 1..Len(t) /\ DOMAIN (s \o t) = 1..Len(s) + Len(t)
      /\ \A i \in 1..Len(s) + Len(t) :
            (s \o t)[i] = IF i <= Len(s) THEN s[i] ELSE t[i - Len(s)]
  OBVIOUS
<1>2. Elements(s) \cup Elements(t) \subseteq Elements(s \o t)
  <2>1. ASSUME NEW i \in DOMAIN s PROVE s[i] \in Elements(s \o t)
    <3>1. i \in DOMAIN (s \o t) /\ (s \o t)[i] = s[i]
      BY <1>1, <2>1
    <3> QED BY <3>1 DEF Elements
  <2>2. ASSUME NEW i \in DOMAIN t PROVE t[i] \in Elements(s \o t)
    <3>1. i + Len(s) \in DOMAIN (s \o t) /\ (s \o t)[i + Len(s)] = t[i]
      BY <1>1, <2>2
    <3> QED BY <3>1 DEF Elements
  <2> QED BY <2>1, <2>2 DEF Elements
<1>3. \A i \in DOMAIN (s \o t) :
         \/ i \in DOMAIN s /\ (s \o t)[i] = s[i]
         \/ i - Len(s) \in DOMAIN t /\ (s \o t)[i] = t[i - Len(s)]
  BY <1>1
<1>4. Elements(s \o t) \subseteq Elements(s) \cup Elements(t)
  BY <1>3 DEF Elements
<1>5. ASSUME Distinct(s), Distinct(t), \A a \in Elements(s), b \in Elements(t) : a.kind # b.kind
      PROVE  Distinct(s \o t)
  <2> SUFFICES ASSUME NEW i \in DOMAIN (s \o t), NEW j \in DOMAIN (s \o t),
                      (s \o t)[i].kind = (s \o t)[j].kind
               PROVE  i = j
    BY DEF Distinct
  <2>1. CASE i \in DOMAIN s /\ (s \o t)[i] = s[i] /\ j \in DOMAIN s /\ (s \o t)[j] = s[j]
    BY <1>5, <2>1 DEF Distinct
  <2>2. CASE i \in DOMAIN s /\ (s \o t)[i] = s[i]
             /\ j - Len(s) \in DOMAIN t /\ (s \o t)[j] = t[j - Len(s)]
    BY <1>5, <2>2 DEF Elements
  <2>3. CASE i - Len(s) \in DOMAIN t /\ (s \o t)[i] = t[i - Len(s)]
             /\ j \in DOMAIN s /\ (s \o t)[j] = s[j]
    BY <1>5, <2>3 DEF Elements
  <2>4. CASE i - Len(s) \in DOMAIN t /\ (s \o t)[i] = t[i - Len(s)]
             /\ j - Len(s) \in DOMAIN t /\ (s \o t)[j] = t[j - Len(s)]
    <3>1. i - Len(s) = j - Len(s)
      BY <1>5, <2>4 DEF Distinct
    <3> QED BY <1>1, <3>1
  <2> QED BY <1>3, <2>1, <2>2, <2>3, <2>4
<1> QED BY <1>1, <1>2, <1>4, <1>5

\* One button is a sequence of buttons, and of different kinds.
LEMMA Singleton ==
    ASSUME NEW S, NEW d \in S
    PROVE  <<d>> \in Seq(S) /\ Elements(<<d>>) = {d} /\ Distinct(<<d>>)
<1>1. DOMAIN <<d>> = {1} /\ <<d>>[1] = d /\ <<d>> \in Seq(S)
  OBVIOUS
<1> QED BY <1>1 DEF Elements, Distinct

\* A destination with a URL is one button, and one without is none.
LEMMA OneButton ==
    ASSUME NEW S, NEW d \in S
    PROVE  /\ PrimaryButton(d) \in Seq(S)
           /\ Elements(PrimaryButton(d)) = {e \in {d} : e.url # None}
           /\ Distinct(PrimaryButton(d))
<1>1. CASE d.url = None
  BY <1>1 DEF PrimaryButton, Elements, Distinct
<1>2. CASE d.url # None
  <2>1. PrimaryButton(d) = <<d>>
    BY <1>2 DEF PrimaryButton
  <2> QED BY <1>2, <2>1, Singleton
<1> QED BY <1>1, <1>2

\* An alternative of its own kind, one button if it has a URL.
LEMMA Alternatives ==
    ASSUME NEW S, NEW c, NEW link, NEW kind, NEW decision, Destination(c, link, kind) \in S
    PROVE  LET s == Alternative(c, link, kind, decision)
               d == Destination(c, link, kind) IN
           /\ s \in Seq(S)
           /\ Elements(s) = {e \in {d} : e.url # None /\ kind # decision.kind}
           /\ Distinct(s)
<1>1. CASE kind = decision.kind
  BY <1>1 DEF Alternative, Elements, Distinct
<1>2. CASE kind # decision.kind
  BY <1>2, OneButton DEF Alternative
<1> QED BY <1>1, <1>2

\* The buttons of a link's page are its destinations with a URL, each once.
LEMMA ButtonsOfLink ==
    ASSUME NEW c, NEW link, NEW platform
    PROVE  LET buttons == Buttons(RenderFound(c, link, Decide(c, link, platform))) IN
           /\ Elements(buttons)
                 = {d \in {Destination(c, link, kind) : kind \in Kinds} : d.url # None}
           /\ Distinct(buttons)
<1> DEFINE D(kind) == Destination(c, link, kind)
           d == Decide(c, link, platform)
           S == {D("app_store"), D("play_store"), D("web"), NoDestination}
           A(kind) == Alternative(c, link, kind, d)
           p == PrimaryButton(d)
<1>1. /\ d \in {D("app_store"), D("play_store"), D("web"), NoDestination}
      /\ d = D("app_store") <=> d.kind = "app_store"
      /\ d = D("play_store") <=> d.kind = "play_store"
      /\ d = D("web") <=> d.kind = "web"
  BY DEF Decide, Store, Destination, NoDestination
<1>2. /\ D("app_store").kind = "app_store" /\ D("play_store").kind = "play_store"
      /\ D("web").kind = "web" /\ NoDestination.kind = "none" /\ NoDestination.url = None
  BY DEF Destination, NoDestination
<1>3. /\ p \in Seq(S) /\ Elements(p) = {e \in {d} : e.url # None} /\ Distinct(p)
  BY <1>1, OneButton
<1>4. \A kind \in Kinds :
         /\ A(kind) \in Seq(S)
         /\ Elements(A(kind)) = {e \in {D(kind)} : e.url # None /\ kind # d.kind}
         /\ Distinct(A(kind))
  <2> TAKE kind \in Kinds
  <2>1. D(kind) \in S
    BY DEF Kinds
  <2> HIDE DEF S, d
  <2> QED BY <2>1, Alternatives
<1> HIDE DEF D, d, S, A, p
<1> DEFINE two == A("app_store") \o A("play_store")
           three == two \o A("web")
<1>5. /\ two \in Seq(S) /\ Distinct(two)
      /\ Elements(two) = Elements(A("app_store")) \cup Elements(A("play_store"))
  <2>1. \A a \in Elements(A("app_store")), b \in Elements(A("play_store")) : a.kind # b.kind
    BY <1>2, <1>4 DEF Kinds
  <2> QED BY <1>4, <2>1, Concatenation DEF Kinds
<1> HIDE DEF two
<1>6. /\ three \in Seq(S) /\ Distinct(three)
      /\ Elements(three) = Elements(two) \cup Elements(A("web"))
  <2>1. \A a \in Elements(two), b \in Elements(A("web")) : a.kind # b.kind
    BY <1>2, <1>4, <1>5 DEF Kinds
  <2> QED BY <1>4, <1>5, <2>1, Concatenation DEF Kinds
<1> HIDE DEF three
<1>7. /\ Distinct(p \o three)
      /\ Elements(p \o three) = Elements(p) \cup Elements(three)
  <2>1. \A a \in Elements(p), b \in Elements(three) : a.kind # b.kind
    BY <1>2, <1>3, <1>4, <1>5, <1>6 DEF Kinds
  <2> QED BY <1>3, <1>6, <2>1, Concatenation
<1>8. Elements(p \o three) = {e \in {D(kind) : kind \in Kinds} : e.url # None}
  <2>1. Elements(p \o three) = Elements(p) \cup Elements(A("app_store"))
                                 \cup Elements(A("play_store")) \cup Elements(A("web"))
    BY <1>5, <1>6, <1>7
  <2>2. {D(kind) : kind \in Kinds} = {D("app_store"), D("play_store"), D("web")}
    BY DEF Kinds
  <2> QED BY <1>1, <1>2, <1>3, <1>4, <2>1, <2>2 DEF Kinds
<1>9. Buttons(RenderFound(c, link, d)) = p \o three
  BY DEF Buttons, RenderFound, three, two, A, p
<1> QED BY <1>7, <1>8, <1>9 DEF D, d

\* Every destination of the link or the deployment is on its page, once, and
\* nobody else's.
THEOREM OffersEverythingCorrect == Spec => []OffersEverything
<1>1. ASSUME DeploymentInv, Page, answer.link # None
      PROVE  LET buttons == Buttons(answer.page)
                 link == answer.link
                 expected == {<<"app_store", Or(link.ios_store_url, AppStoreUrl(cfg))>>,
                              <<"play_store", Or(link.android_store_url, PlayStoreUrl(cfg))>>,
                              <<"web", link.web_fallback_url>>}
                 offered == {<<buttons[i].kind, buttons[i].url>> : i \in DOMAIN buttons} IN
             /\ offered = {d \in expected : d[2] # None}
             /\ \A i, j \in DOMAIN buttons : buttons[i].kind = buttons[j].kind => i = j
  <2> DEFINE buttons == Buttons(answer.page)
             link == answer.link
             D(kind) == Destination(cfg, link, kind)
             expected == {<<"app_store", Or(link.ios_store_url, AppStoreUrl(cfg))>>,
                          <<"play_store", Or(link.android_store_url, PlayStoreUrl(cfg))>>,
                          <<"web", link.web_fallback_url>>}
  <2>1. answer.page = RenderFound(cfg, link, Decide(cfg, link, answer.click.platform))
    BY <1>1, Pages DEF Respond
  <2>2. Elements(buttons) = {d \in {D(kind) : kind \in Kinds} : d.url # None} /\ Distinct(buttons)
    BY <2>1, ButtonsOfLink
  <2>3. expected = {<<d.kind, d.url>> : d \in {D(kind) : kind \in Kinds}}
    <3>1. {D(kind) : kind \in Kinds} = {D("app_store"), D("play_store"), D("web")}
      BY DEF Kinds
    <3>2. /\ <<D("app_store").kind, D("app_store").url>>
                = <<"app_store", Or(link.ios_store_url, AppStoreUrl(cfg))>>
          /\ <<D("play_store").kind, D("play_store").url>>
                = <<"play_store", Or(link.android_store_url, PlayStoreUrl(cfg))>>
          /\ <<D("web").kind, D("web").url>> = <<"web", link.web_fallback_url>>
      BY DEF Destination, Url
    <3> HIDE DEF D
    <3> QED BY <3>1, <3>2
  <2>4. {<<buttons[i].kind, buttons[i].url>> : i \in DOMAIN buttons}
           = {<<d.kind, d.url>> : d \in Elements(buttons)}
    <3> HIDE DEF buttons
    <3> QED BY DEF Elements
  <2>5. {<<d.kind, d.url>> : d \in {e \in {D(kind) : kind \in Kinds} : e.url # None}}
           = {d \in expected : d[2] # None}
    <3> HIDE DEF D, expected
    <3> QED BY <2>3
  <2> HIDE DEF buttons, expected
  <2>6. \A i, j \in DOMAIN buttons : buttons[i].kind = buttons[j].kind => i = j
    BY <2>2 DEF Distinct
  <2> QED BY <2>2, <2>4, <2>5, <2>6 DEF buttons, expected
<1>2. DeploymentInv => OffersEverything
  BY <1>1 DEF OffersEverything
<1> QED BY <1>2, DeploymentInvCorrect, PTL

\* The buttons of a dead link: the store of the platform, if there is one, and
\* the homepage.
LEMMA ButtonsOfDeadLink ==
    ASSUME NEW c, NEW platform, c.fallback.home_url = None
    PROVE  LET page == Respond(c, None, platform)
               store == CASE platform = "ios" -> AppStoreUrl(c)
                          [] platform = "android" -> PlayStoreUrl(c)
                          [] OTHER -> None
               button == [kind |-> Store(platform), url |-> store]
               home == [kind |-> "home", url |-> c.public_base_url] IN
           /\ Elements(Buttons(page)) = {e \in {button} : e.url # None} \cup {home}
           /\ Buttons(page) # <<>>
<1> DEFINE page == Respond(c, None, platform)
           store == CASE platform = "ios" -> AppStoreUrl(c)
                      [] platform = "android" -> PlayStoreUrl(c)
                      [] OTHER -> None
           button == [kind |-> Store(platform), url |-> store]
           home == [kind |-> "home", url |-> c.public_base_url]
           S == {button, home}
           first == PrimaryButton(button)
           last == <<home>>
           s == first \o last
<1>1. page.primary = <<>> /\ page.alternatives = s
  BY DEF Respond, RenderNotFound
<1> HIDE DEF page, button, home
<1>2. button \in S /\ home \in S
  OBVIOUS
<1> HIDE DEF S
<1>3. first \in Seq(S) /\ Elements(first) = {e \in {button} : e.url # None}
  BY <1>2, OneButton
<1>4. last \in Seq(S) /\ Elements(last) = {home}
  BY <1>2, Singleton
<1> HIDE DEF first, last
<1>5. s \in Seq(S) /\ Elements(s) = {e \in {button} : e.url # None} \cup {home}
  BY <1>3, <1>4, Concatenation
<1>6. Buttons(page) = s
  <2> HIDE DEF s
  <2> QED BY <1>1, <1>5 DEF Buttons
<1>7. s # <<>>
  <2> HIDE DEF s
  <2>1. home \in Elements(s)
    BY <1>5
  <2> QED BY <2>1 DEF Elements
<1> QED BY <1>5, <1>6, <1>7 DEF page, button, home

\* A dead link leads somewhere that works on the platform.
THEOREM DeadLinkLeadsOnCorrect == Spec => []DeadLinkLeadsOn
<1>1. ASSUME DeploymentInv, Page, answer.link = None
      PROVE  LET buttons == Buttons(answer.page) IN
             /\ answer.page.location # None \/ buttons # <<>>
             /\ \A i \in DOMAIN buttons :
                   /\ buttons[i].url # None
                   /\ buttons[i].kind \in {Store(answer.click.platform), "home"}
  <2> DEFINE buttons == Buttons(answer.page)
             platform == answer.click.platform
  <2>1. answer.page = Respond(cfg, None, platform) /\ cfg = FromEnv(env)
    BY <1>1, Pages
  <2>2. CASE cfg.fallback.home_url # None
    <3>1. /\ answer.page.location = cfg.fallback.home_url
          /\ answer.page.primary = <<>> /\ answer.page.alternatives = <<>>
      BY <2>1, <2>2 DEF Respond, RedirectTo
    <3>2. buttons = <<>>
      BY <3>1 DEF Buttons
    <3> QED BY <2>2, <3>1, <3>2
  <2>3. CASE cfg.fallback.home_url = None
    <3>1. cfg.public_base_url # None
      <4>1. cfg.public_base_url = EnvOr(env, "PUBLIC_BASE_URL", DEFAULT_BASE_URL)
        BY <2>1 DEF FromEnv
      <4>2. DEFAULT_BASE_URL # None
        BY ValuesAssumption
      <4> QED BY <4>1, <4>2 DEF EnvOr, IsSet
    <3>2. buttons # <<>>
      BY <2>1, <2>3, ButtonsOfDeadLink
    <3>3. \A b \in Elements(buttons) : b.url # None /\ b.kind \in {Store(platform), "home"}
      BY <2>1, <2>3, <3>1, ButtonsOfDeadLink
    <3>4. \A i \in DOMAIN buttons : buttons[i] \in Elements(buttons)
      BY DEF Elements
    <3> HIDE DEF buttons, platform
    <3> QED BY <3>2, <3>3, <3>4 DEF buttons, platform
  <2> QED BY <2>2, <2>3
<1>2. DeploymentInv => DeadLinkLeadsOn
  BY <1>1 DEF DeadLinkLeadsOn
<1> QED BY <1>2, DeploymentInvCorrect, PTL

\* An app is configured if and only if both of its variables are set.
LEMMA Associations ==
    ASSUME NEW e \in Envs, Accepts(e)
    PROVE  /\ FromEnv(e).ios # None <=> Required(e, {"IOS_TEAM_ID", "IOS_BUNDLE_ID"})
           /\ FromEnv(e).android # None
                 <=> Required(e, {"ANDROID_PACKAGE_NAME", "ANDROID_FINGERPRINTS"})
<1>1. FromEnv(e).ios = IosConfig(e) /\ FromEnv(e).android = AndroidConfig(e)
  BY DEF FromEnv
<1>2. /\ IosConfig(e) # None <=> IsSet(e, "IOS_TEAM_ID")
      /\ AndroidConfig(e) # None <=> IsSet(e, "ANDROID_PACKAGE_NAME")
  BY RecordsAssumption DEF IosConfig, AndroidConfig
<1> QED BY <1>1, <1>2 DEF Accepts, ValidIos, ValidAndroid, Required

\* A document is complete or missing, and a store of the deployment is shown only
\* with the association of its app.
THEOREM AssociationCompleteCorrect == Spec => []AssociationComplete
<1>1. ASSUME DeploymentInv, Document
      PROVE  LET names == IF answer.platform = "ios" THEN {"IOS_TEAM_ID", "IOS_BUNDLE_ID"}
                          ELSE {"ANDROID_PACKAGE_NAME", "ANDROID_FINGERPRINTS"} IN
             /\ (answer.document.status = 200) <=> Required(env, names)
             /\ answer.document.status = 200 => answer.document.ids = {env[x] : x \in names}
  <2>1. PICK platform \in {"ios", "android"} : answer = DocumentOf(platform)
    BY <1>1 DEF Document, DeploymentInv, Computed, PageOf
  <2>2. /\ env \in Envs /\ cfg = FromEnv(env) /\ Accepts(env)
        /\ cfg.ios = IosConfig(env) /\ cfg.android = AndroidConfig(env)
    BY <1>1 DEF Document, DeploymentInv, Computed, Loaded, FromEnv
  <2>3. CASE platform = "ios"
    <3>1. answer.platform = "ios" /\ answer.document = AppleAppSiteAssociation(cfg)
      BY <2>1, <2>3 DEF DocumentOf
    <3>2. CASE cfg.ios = None
      <4>1. ~Required(env, {"IOS_TEAM_ID", "IOS_BUNDLE_ID"})
        BY <2>2, <3>2, Associations
      <4>2. answer.document.status = 404
        BY <3>1, <3>2 DEF AppleAppSiteAssociation, NotConfigured
      <4> QED BY <3>1, <4>1, <4>2
    <3>3. CASE cfg.ios # None
      <4>1. Required(env, {"IOS_TEAM_ID", "IOS_BUNDLE_ID"})
        BY <2>2, <3>3, Associations
      <4>2. cfg.ios.team_id = env["IOS_TEAM_ID"] /\ cfg.ios.bundle_id = env["IOS_BUNDLE_ID"]
        BY <2>2, <4>1 DEF IosConfig, Required, IsSet, OptEnv
      <4>3. answer.document.status = 200
            /\ answer.document.ids = {env["IOS_TEAM_ID"], env["IOS_BUNDLE_ID"]}
        BY <3>1, <3>3, <4>2 DEF AppleAppSiteAssociation
      <4> QED BY <3>1, <4>1, <4>3
    <3> QED BY <3>2, <3>3
  <2>4. CASE platform = "android"
    <3>1. answer.platform = "android" /\ answer.document = AssetLinks(cfg)
      BY <2>1, <2>4 DEF DocumentOf
    <3>2. CASE cfg.android = None
      <4>1. ~Required(env, {"ANDROID_PACKAGE_NAME", "ANDROID_FINGERPRINTS"})
        BY <2>2, <3>2, Associations
      <4>2. answer.document.status = 404
        BY <3>1, <3>2 DEF AssetLinks, NotConfigured
      <4> QED BY <3>1, <4>1, <4>2
    <3>3. CASE cfg.android # None
      <4>1. Required(env, {"ANDROID_PACKAGE_NAME", "ANDROID_FINGERPRINTS"})
        BY <2>2, <3>3, Associations
      <4>2. /\ cfg.android.package_name = env["ANDROID_PACKAGE_NAME"]
            /\ cfg.android.fingerprints = env["ANDROID_FINGERPRINTS"]
        BY <2>2, <4>1 DEF AndroidConfig, Required, IsSet, OptEnv
      <4>3. answer.document.status = 200
            /\ answer.document.ids = {env["ANDROID_PACKAGE_NAME"], env["ANDROID_FINGERPRINTS"]}
        BY <3>1, <3>3, <4>2 DEF AssetLinks
      <4> QED BY <3>1, <4>1, <4>3
    <3> QED BY <3>2, <3>3
  <2> QED BY <2>3, <2>4
<1>2. ASSUME DeploymentInv, Page, NEW i \in DOMAIN Buttons(answer.page)
      PROVE  LET button == Buttons(answer.page)[i]
                 own(url) == answer.link # None /\ answer.link[url] = button.url IN
             /\ button.kind = "app_store" =>
                   own("ios_store_url") \/ Required(env, {"IOS_TEAM_ID", "IOS_BUNDLE_ID"})
             /\ button.kind = "play_store" =>
                   \/ own("android_store_url")
                   \/ Required(env, {"ANDROID_PACKAGE_NAME", "ANDROID_FINGERPRINTS"})
  <2> DEFINE button == Buttons(answer.page)[i]
             platform == answer.click.platform
  <2>1. /\ env \in Envs /\ cfg = FromEnv(env) /\ Accepts(env)
        /\ answer.page = Respond(cfg, answer.link, platform)
    BY <1>2, Pages DEF DeploymentInv
  <2>2. /\ AppStoreUrl(cfg) # None => Required(env, {"IOS_TEAM_ID", "IOS_BUNDLE_ID"})
        /\ PlayStoreUrl(cfg) # None
              => Required(env, {"ANDROID_PACKAGE_NAME", "ANDROID_FINGERPRINTS"})
    BY <2>1, Associations DEF AppStoreUrl, PlayStoreUrl
  <2>3. button \in Elements(Buttons(answer.page))
    BY DEF Elements
  <2>4. CASE answer.link # None
    <3>1. answer.page = RenderFound(cfg, answer.link, Decide(cfg, answer.link, platform))
      BY <2>1, <2>4 DEF Respond
    <3>2. PICK kind \in Kinds : button = Destination(cfg, answer.link, kind) /\ button.url # None
      BY <2>3, <3>1, ButtonsOfLink
    <3>3. button.kind = kind /\ button.url = Url(cfg, answer.link, kind)
      BY <3>2 DEF Destination
    <3>4. CASE kind = "app_store"
      BY <2>2, <2>4, <3>2, <3>3, <3>4 DEF Url, Or
    <3>5. CASE kind = "play_store"
      BY <2>2, <2>4, <3>2, <3>3, <3>5 DEF Url, Or
    <3>6. CASE kind = "web"
      BY <3>3, <3>6
    <3> QED BY <3>4, <3>5, <3>6 DEF Kinds
  <2>5. CASE answer.link = None /\ cfg.fallback.home_url # None
    <3>1. Buttons(answer.page) = <<>>
      BY <2>1, <2>5 DEF Respond, RedirectTo, Buttons
    <3> QED BY <1>2, <3>1
  <2>6. CASE answer.link = None /\ cfg.fallback.home_url = None
    <3>1. CASE button = [kind |-> "home", url |-> cfg.public_base_url]
      BY <3>1
    <3>2. CASE /\ button.url # None /\ button.kind = Store(platform)
               /\ button.url = CASE platform = "ios" -> AppStoreUrl(cfg)
                                 [] platform = "android" -> PlayStoreUrl(cfg)
                                 [] OTHER -> None
      <4>1. CASE platform = "ios"
        BY <2>2, <3>2, <4>1 DEF Store
      <4>2. CASE platform = "android"
        BY <2>2, <3>2, <4>2 DEF Store
      <4>3. CASE platform \notin {"ios", "android"}
        BY <3>2, <4>3
      <4> QED BY <4>1, <4>2, <4>3
    <3> HIDE DEF button, platform
    <3> QED BY <2>1, <2>3, <2>6, <3>1, <3>2, ButtonsOfDeadLink
  <2> QED BY <2>4, <2>5, <2>6
<1>3. DeploymentInv => AssociationComplete
  BY <1>1, <1>2 DEF AssociationComplete
<1> QED BY <1>3, DeploymentInvCorrect, PTL

-----------------------------------------------------------------------------
(* Types *)

\* Every reachable state is well typed.
THEOREM DeploymentTypeCorrect == Spec => []DeploymentTypeOK
<1> DEFINE StageOK == stage \in Stages
<1>1. Spec => []StageOK
  <2>1. Init => StageOK
    BY DEF Init, Stages
  <2>2. StageOK /\ [Next]_vars => StageOK'
    BY DEF Next, vars, Stages, LoadConfig, ConnectDatabase, Migrate, ConnectRedis, Bind, Await,
           Serve, FetchAssociation, Sent, Shutdown
  <2> QED BY <2>1, <2>2, PTL DEF Spec
<1>2. ASSUME DeploymentInv, Page
      PROVE  /\ answer.link \in Links \cup {None} /\ answer.visitor \in Visitors
             /\ answer.page.status \in {200, 303, 404}
             /\ answer.click.platform \in Platforms
             /\ answer.click.destination_type \in Kinds \cup {"none"}
  <2>1. /\ answer.click = Click(cfg, answer.link, answer.visitor)
        /\ answer.page = Respond(cfg, answer.link, answer.click.platform)
        /\ answer.link \in Links \cup {None} /\ answer.visitor \in Visitors
    BY <1>2, Pages
  <2>2. answer.page.status \in {200, 303, 404}
    BY <2>1 DEF Respond, RenderFound, RedirectTo, RenderNotFound
  <2>3. answer.click.platform \in Platforms
    BY <2>1 DEF Click, DetectPlatform, Platforms
  <2>4. answer.click.destination_type = Logged(cfg, answer.link, answer.click.platform)
    BY <2>1 DEF Click
  <2>5. Decide(cfg, answer.link, answer.click.platform).kind \in Kinds \cup {"none"}
    <3>1. Store(answer.click.platform) \in Kinds \cup {"none"}
      BY DEF Store, Kinds
    <3> QED BY <3>1, Decisions DEF NoDestination, Kinds
  <2> QED BY <2>1, <2>2, <2>3, <2>4, <2>5 DEF Logged
<1>3. ASSUME DeploymentInv, Document
      PROVE  answer.platform \in {"ios", "android"} /\ answer.document.status \in {200, 404}
  <2>1. PICK platform \in {"ios", "android"} : answer = DocumentOf(platform)
    BY <1>3 DEF Document, DeploymentInv, Computed, PageOf
  <2>2. AppleAppSiteAssociation(cfg).status \in {200, 404} /\ AssetLinks(cfg).status \in {200, 404}
    BY DEF AppleAppSiteAssociation, AssetLinks, NotConfigured
  <2> QED BY <2>1, <2>2 DEF DocumentOf
<1>4. DeploymentInv /\ StageOK => DeploymentTypeOK
  BY <1>2, <1>3 DEF DeploymentTypeOK, DeploymentInv, Loaded, Computed
<1> QED BY <1>1, <1>4, DeploymentInvCorrect, PTL

=============================================================================
