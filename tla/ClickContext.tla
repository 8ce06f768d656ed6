---------------------------- MODULE ClickContext ----------------------------
(***************************************************************************)
(* What serve (links.rs) reads from the headers of a request, and what     *)
(* becomes of it in the click log (platform.rs, click_log.rs).             *)
(*                                                                         *)
(* A user agent is the set of those words it contains that the detection   *)
(* looks for, a forwarding header the sequence of its hops, each an        *)
(* address or Bad; None stands for a header that is missing or no text.    *)
(***************************************************************************)
EXTENDS Fallback

IosWords == {"iphone", "ipad", "ipod"}
DesktopWords == {"windows", "macintosh", "mac os x", "x11", "linux", "cros"}

\* Mutant of DetectPlatform: the same tests, but desktop words come first.
DetectPlatformDesktopFirst(user_agent) ==
    IF user_agent = None THEN "other"
    ELSE IF user_agent \cap DesktopWords # {} THEN "desktop"
    ELSE IF user_agent \cap IosWords # {} THEN "ios"
    ELSE IF "android" \in user_agent THEN "android"
    ELSE "other"

\* detect_platform, and serve without a user agent: words of iOS come before
\* Android, which comes before the words its devices share with desktops.
DetectPlatform(user_agent) ==
    IF user_agent = None THEN "other"
    ELSE IF user_agent \cap IosWords # {} THEN "ios"
    ELSE IF "android" \in user_agent THEN "android"
    ELSE IF user_agent \cap DesktopWords # {} THEN "desktop"
    ELSE "other"

\* client_ip: the first hop, if it is an address, else the peer of the socket.
ClientIp(visitor) ==
    IF visitor.forwarded_for # None /\ Head(visitor.forwarded_for) # Bad
    THEN Head(visitor.forwarded_for)
    ELSE visitor.socket

\* hash_ip: the same for the same salt and address, and for no others.
HashIp(privacy, ip) == <<privacy.ip_hash_salt, ip>>

\* insert: the columns that depend on the visitor.
Click(cfg, link, visitor) ==
    LET ip == ClientIp(visitor)
        platform == DetectPlatform(visitor.user_agent) IN
    [platform |-> platform,
     destination_type |-> Logged(cfg, link, platform),
     ip_hash |-> IF cfg.privacy.hash_ip THEN HashIp(cfg.privacy, ip) ELSE None,
     raw_ip |-> IF cfg.privacy.store_raw_ip THEN ip ELSE None]

=============================================================================
