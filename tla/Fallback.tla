------------------------------ MODULE Fallback ------------------------------
(***************************************************************************)
(* The page a visitor gets whose app did not open (decision.rs,            *)
(* fallback.rs, the second half of serve in links.rs).                     *)
(*                                                                         *)
(* A destination is a kind and a URL.  A page is its status, where it      *)
(* redirects to, its buttons, and the target of its meta refresh; layout,  *)
(* wording and escaping are left out.  None stands for an absent URL.      *)
(***************************************************************************)
EXTENDS Config, Sequences

Platforms == {"ios", "android", "desktop", "other"}
Kinds == {"app_store", "play_store", "web"}

\* The first of two optional values that is there.
Or(a, b) == IF a # None THEN a ELSE b

\* The deployment-wide store URLs, if the app is configured at all.
AppStoreUrl(cfg) == IF cfg.ios = None THEN None ELSE cfg.ios.app_store_url
PlayStoreUrl(cfg) == IF cfg.android = None THEN None ELSE cfg.android.play_store_url

\* Mutant of Url: the store of the other platform stands in.
UrlOneStore(cfg, link, kind) ==
    CASE kind = "app_store" -> Or(link.ios_store_url, AppStoreUrl(cfg))
      [] kind = "play_store" -> Or(link.android_store_url, AppStoreUrl(cfg))
      [] kind = "web" -> link.web_fallback_url

\* What a link can lead to, of each kind: its own URL, else the deployment's.
Url(cfg, link, kind) ==
    CASE kind = "app_store" -> Or(link.ios_store_url, AppStoreUrl(cfg))
      [] kind = "play_store" -> Or(link.android_store_url, PlayStoreUrl(cfg))
      [] kind = "web" -> link.web_fallback_url

Destination(cfg, link, kind) == [kind |-> kind, url |-> Url(cfg, link, kind)]

NoDestination == [kind |-> "none", url |-> None]

\* The store of a platform that has one.
Store(platform) ==
    CASE platform = "ios" -> "app_store"
      [] platform = "android" -> "play_store"
      [] OTHER -> "none"

\* decide: the store of the platform, else the web, else nothing.
Decide(cfg, link, platform) ==
    LET kind == Store(platform) IN
    IF kind # "none" /\ Url(cfg, link, kind) # None THEN Destination(cfg, link, kind)
    ELSE IF link.web_fallback_url # None THEN Destination(cfg, link, "web")
    ELSE NoDestination

\* primary_button: a decision without a URL has none.
PrimaryButton(decision) == IF decision.url = None THEN <<>> ELSE <<decision>>

\* Mutant of AutoRedirect: to the deployment's store wherever there is one.
AutoRedirectToStore(cfg, decision) ==
    IF cfg.fallback.auto_redirect_to_store THEN Or(AppStoreUrl(cfg), decision.url) ELSE None

\* auto_redirect_head.
AutoRedirect(cfg, decision) ==
    IF cfg.fallback.auto_redirect_to_store THEN decision.url ELSE None

\* An alternative of a page: a destination with a URL that is not its decision.
Alternative(cfg, link, kind, decision) ==
    IF kind = decision.kind THEN <<>> ELSE PrimaryButton(Destination(cfg, link, kind))

\* render_found: the decision, and every other destination there is.
RenderFound(cfg, link, decision) ==
    [status |-> 200, location |-> None,
     primary |-> PrimaryButton(decision),
     alternatives |-> Alternative(cfg, link, "app_store", decision)
                      \o Alternative(cfg, link, "play_store", decision)
                      \o Alternative(cfg, link, "web", decision),
     refresh |-> AutoRedirect(cfg, decision)]

\* Mutant of RenderNotFound: a store button without a store.
RenderNotFoundUnchecked(cfg, platform) ==
    LET store == IF platform = "ios" THEN AppStoreUrl(cfg) ELSE PlayStoreUrl(cfg) IN
    [status |-> 404, location |-> None, primary |-> <<>>,
     alternatives |-> <<[kind |-> Store(platform), url |-> store],
                        [kind |-> "home", url |-> cfg.public_base_url]>>,
     refresh |-> None]

\* render_not_found: the store of the platform, if configured, and the homepage.
RenderNotFound(cfg, platform) ==
    LET store == CASE platform = "ios" -> AppStoreUrl(cfg)
                   [] platform = "android" -> PlayStoreUrl(cfg)
                   [] OTHER -> None
        button == [kind |-> Store(platform), url |-> store] IN
    [status |-> 404, location |-> None,
     primary |-> <<>>,
     alternatives |-> PrimaryButton(button)
                      \o <<[kind |-> "home", url |-> cfg.public_base_url]>>,
     refresh |-> None]

\* Redirect::to, which answers 303.
RedirectTo(url) ==
    [status |-> 303, location |-> url, primary |-> <<>>, alternatives |-> <<>>, refresh |-> None]

\* The answer to a resolved link, or to a path without one.
Respond(cfg, link, platform) ==
    IF link # None THEN RenderFound(cfg, link, Decide(cfg, link, platform))
    ELSE IF cfg.fallback.home_url # None THEN RedirectTo(cfg.fallback.home_url)
    ELSE RenderNotFound(cfg, platform)

\* The destination_type of the click that is logged with it.
Logged(cfg, link, platform) ==
    IF link # None THEN Decide(cfg, link, platform).kind ELSE "none"

=============================================================================
