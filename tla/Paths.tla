------------------------------- MODULE Paths -------------------------------
(***************************************************************************)
(* Paths of links and of URLs: normalize_path (link.rs), validate_path     *)
(* (admin.rs) and the routes of api/mod.rs.                                *)
(*                                                                         *)
(* A path is a sequence of Slash, Blank (a character of white space) and   *)
(* words (runs of other characters, of length one).  A URL is the path of  *)
(* a request after decoding: clients encode blanks, and nothing else.      *)
(***************************************************************************)
EXTENDS Naturals, Sequences, SequencesExt

CONSTANT MaxPathLength  \* 2048 in validate_path

Slash == "/"
Blank == " "
Root == <<Slash>>

\* str::trim_end_matches and trim_start: s without the characters of cs there.
TrimEnd(s, cs) == SubSeq(s, 1, Max({0} \cup {i \in DOMAIN s : s[i] \notin cs}))
TrimStart(s, cs) == Reverse(TrimEnd(Reverse(s), cs))

\* Mutant of Normalize: one slash at the end goes, a second one stays.
NormalizeOneSlash(raw) ==
    LET trimmed == TrimStart(TrimEnd(raw, {Blank}), {Blank})
        rooted == IF trimmed # <<>> /\ Head(trimmed) = Slash THEN trimmed ELSE Root \o trimmed IN
    IF Len(rooted) > 1 /\ Last(rooted) = Slash THEN Front(rooted) ELSE rooted

\* normalize_path: blanks around it go, then a leading slash is put there if
\* there is none, then all slashes at the end go, except that of the root.
Normalize(raw) ==
    LET trimmed == TrimStart(TrimEnd(raw, {Blank}), {Blank})
        rooted == IF trimmed # <<>> /\ Head(trimmed) = Slash THEN trimmed ELSE Root \o trimmed
        stripped == TrimEnd(rooted, {Slash}) IN
    IF stripped = <<>> THEN Root ELSE stripped

\* The paths that Normalize returns.
Normal(path) ==
    /\ Len(path) > 0 /\ Head(path) = Slash
    /\ Len(path) > 1 => Last(path) # Slash

\* validate_path, which only create_link calls.
ValidPath(path) == path # Root /\ Len(path) <= MaxPathLength

-----------------------------------------------------------------------------
(* The router *)

LinksRoute == <<Slash, "v1", Slash, "links">>
StaticRoutes ==
    {<<Slash, "healthz">>, <<Slash, "readyz">>, LinksRoute,
     <<Slash, ".well-known", Slash, "apple-app-site-association">>,
     <<Slash, ".well-known", Slash, "assetlinks.json">>}

\* URLs that a route more specific than the catch-all takes.
Reserved(url) == url \in StaticRoutes \/ IsStrictPrefix(LinksRoute \o Root, url)

\* A wildcard captures the rest of a URL without the slash before it.
Capture(rest) == Normalize(Tail(rest))

\* The path that handle_root or handle_link resolves for a URL: none if another
\* route takes it.
Visited(url) ==
    IF Reserved(url) THEN <<>>
    ELSE IF url = Root THEN Root
    ELSE Capture(url)

\* The path that /v1/links{rest} names.
AdminPath(rest) == Capture(rest)

=============================================================================
