------------------------------ MODULE LinkCache ------------------------------
(***************************************************************************)
(* How teleporta resolves a path and how the admin API writes one.         *)
(*                                                                         *)
(* PostgreSQL (db) is the source of truth.  Redis holds two keys for a     *)
(* path: the link itself (linkKey) and a marker that the path has no       *)
(* resolvable link (missKey), each with a time to live.  A visitor's       *)
(* request runs resolver::resolve, whose Redis and SQL calls are separate  *)
(* steps; an admin's request writes one row and then deletes both keys.    *)
(* Any number of server processes may run: a step belongs to a request,    *)
(* never to a process, and all requests interleave.                        *)
(*                                                                         *)
(* Time is counted in whole seconds.  Redis counts its keys down, links    *)
(* expire against the clock of the server, and both advance together.      *)
(***************************************************************************)
EXTENDS Naturals

CONSTANTS
    Paths,              \* normalised request paths
    Visitors, Admins,   \* requests in flight: GET /{path}, and writes of /v1/links
    Bodies,             \* what a create or update may say: is_active, expires_at
    LinkCacheTtl,       \* TELEPORTA_LINK_CACHE_TTL_SECS
    NegativeCacheTtl,   \* TELEPORTA_NEGATIVE_CACHE_TTL_SECS
    MaxTime,            \* bound: no expires_at lies beyond it, the clock stops there
    MaxWrites,          \* bound: commits to the links table
    MaxFaults           \* bound: failed commands and abandoned requests

\* A link whose expires_at is NULL: a time the clock never reaches.
Never == MaxTime + 1

ASSUME BoundsAssumption == MaxTime \in Nat /\ MaxWrites \in Nat /\ MaxFaults \in Nat
ASSUME TtlAssumption == LinkCacheTtl \in Nat /\ NegativeCacheTtl \in Nat
ASSUME BodiesAssumption == Bodies \subseteq [is_active : BOOLEAN, expires_at : 0..Never]

VARIABLES
    clock,      \* Utc::now() of the servers
    db,         \* the links table: a row, or NoLink, for every path
    linkKey,    \* {prefix}:link:v1:{path}, a row and the seconds it has left
    missKey,    \* {prefix}:link-miss:v1:{path}, the seconds it has left
    visitor,    \* per visitor request: where resolve stands and what it holds
    admin,      \* per admin request: the path it still has to invalidate
    writes,     \* commits so far; gives each version of a row its rev
    faults      \* failures so far

vars == <<clock, db, linkKey, missKey, visitor, admin, writes, faults>>

-----------------------------------------------------------------------------
(* Rows, keys and requests *)

\* A version of a link.  rev stands for the columns that differ from one
\* version to the next (id, updated_at, the URLs).
Rows == [rev : 0..MaxWrites, is_active : BOOLEAN, expires_at : 0..Never]

\* No row: LinkRow is None, which resolves like an inactive link.
NoLink == [rev |-> 0, is_active |-> FALSE, expires_at |-> Never]

\* A TTL in whole seconds with a floor of one, since SETEX rejects zero.
TtlSecs(d) == IF d = 0 THEN 1 ELSE d

LinkTtl == TtlSecs(LinkCacheTtl)
MissTtl == TtlSecs(NegativeCacheTtl)

\* A key Redis does not hold has no time left.
Entries == [row : Rows, ttl : 0..LinkTtl]
NoEntry == [row |-> NoLink, ttl |-> 0]

IsExpired(link, now) == link.expires_at <= now
IsResolvable(link, now) == link.is_active /\ ~IsExpired(link, now)

\* Where a request stands: before its next call, or finished with an answer.
Finished == {"idle", "found", "not_found", "server_error"}
Calls == {"get_link", "is_known_miss", "select", "put_link", "put_miss"}

\* row is what the SELECT returned and, once finished, the link that was served.
VisitorStates == [pc : Finished \cup Calls, path : Paths, start : 0..MaxTime, row : Rows]
AdminStates == [pc : {"idle", "invalidate"}, path : Paths]

TypeOK ==
    /\ clock \in 0..MaxTime
    /\ db \in [Paths -> Rows]
    /\ linkKey \in [Paths -> Entries]
    /\ \A p \in Paths : linkKey[p] = NoEntry \/ linkKey[p].ttl > 0
    /\ missKey \in [Paths -> 0..MissTtl]
    /\ visitor \in [Visitors -> VisitorStates]
    /\ \A v \in Visitors : visitor[v].start <= clock
    /\ admin \in [Admins -> AdminStates]
    /\ writes \in 0..MaxWrites
    /\ faults \in 0..MaxFaults

Init ==
    /\ clock = 0
    /\ db = [p \in Paths |-> NoLink]
    /\ linkKey = [p \in Paths |-> NoEntry]
    /\ missKey = [p \in Paths |-> 0]
    /\ \E p \in Paths :
        /\ visitor = [v \in Visitors |-> [pc |-> "idle", path |-> p, start |-> 0, row |-> NoLink]]
        /\ admin = [a \in Admins |-> [pc |-> "idle", path |-> p]]
    /\ writes = 0
    /\ faults = 0

-----------------------------------------------------------------------------
(* Time *)

\* A second passes.  Redis drops the keys whose time is up.  Past MaxTime every
\* expires_at has gone by and only the keys still age.
Tick ==
    /\ clock' = IF clock < MaxTime THEN clock + 1 ELSE clock
    /\ linkKey' = [p \in Paths |->
           IF linkKey[p].ttl > 1 THEN [linkKey[p] EXCEPT !.ttl = @ - 1] ELSE NoEntry]
    /\ missKey' = [p \in Paths |-> IF missKey[p] > 1 THEN missKey[p] - 1 ELSE 0]
    /\ UNCHANGED <<db, visitor, admin, writes, faults>>

\* Redis evicts a key under memory pressure, or restarts without it.
RedisForgets(p) ==
    /\ \/ linkKey' = [linkKey EXCEPT ![p] = NoEntry] /\ UNCHANGED missKey
       \/ missKey' = [missKey EXCEPT ![p] = 0] /\ UNCHANGED linkKey
    /\ UNCHANGED <<clock, db, visitor, admin, writes, faults>>

-----------------------------------------------------------------------------
(* A visitor's request: resolver::resolve, one action per call it awaits *)

Goto(v, pc) == visitor' = [visitor EXCEPT ![v].pc = pc]

\* resolve returns: the request is over, only its answer is kept.
Return(v, outcome, link) ==
    visitor' = [visitor EXCEPT ![v] =
                   [pc |-> outcome, path |-> visitor[v].path, start |-> 0, row |-> link]]

\* A command fails, or its answer is lost.
Fault == faults < MaxFaults /\ faults' = faults + 1

\* serve() reads the clock once and hands it to resolve.
Visit(v, p) ==
    /\ visitor[v].pc \in Finished
    /\ visitor' = [visitor EXCEPT ![v] =
                      [pc |-> "get_link", path |-> p, start |-> clock, row |-> NoLink]]
    /\ UNCHANGED <<clock, db, linkKey, missKey, admin, writes, faults>>

\* Mutant of GetLink: a read prolongs the life of the key (GETEX for GET).
GetLinkSliding(v) ==
    LET cached == linkKey[visitor[v].path]
        hit == cached.ttl > 0 /\ IsResolvable(cached.row, visitor[v].start) IN
    /\ visitor[v].pc = "get_link"
    /\ \/ hit /\ Return(v, "found", cached.row) /\ UNCHANGED faults
       \/ ~hit /\ Goto(v, "is_known_miss") /\ UNCHANGED faults
       \/ Fault /\ Goto(v, "is_known_miss")
    /\ linkKey' = IF cached.ttl > 0 THEN [linkKey EXCEPT ![visitor[v].path].ttl = LinkTtl]
                                    ELSE linkKey
    /\ UNCHANGED <<clock, db, missKey, admin, writes>>

\* Mutant of GetLink: a cached link is served without is_resolvable.
GetLinkUntested(v) ==
    LET hit == linkKey[visitor[v].path].ttl > 0 IN
    /\ visitor[v].pc = "get_link"
    /\ \/ hit /\ Return(v, "found", linkKey[visitor[v].path].row) /\ UNCHANGED faults
       \/ ~hit /\ Goto(v, "is_known_miss") /\ UNCHANGED faults
       \/ Fault /\ Goto(v, "is_known_miss")
    /\ UNCHANGED <<clock, db, linkKey, missKey, admin, writes>>

\* Cache::get_link and the test of its result: a cached link is served only if
\* it is resolvable when the request began; an error is a miss.
GetLink(v) ==
    LET hit == LET cached == linkKey[visitor[v].path] IN
               cached.ttl > 0 /\ IsResolvable(cached.row, visitor[v].start) IN
    /\ visitor[v].pc = "get_link"
    /\ \/ hit /\ Return(v, "found", linkKey[visitor[v].path].row) /\ UNCHANGED faults
       \/ ~hit /\ Goto(v, "is_known_miss") /\ UNCHANGED faults
       \/ Fault /\ Goto(v, "is_known_miss")
    /\ UNCHANGED <<clock, db, linkKey, missKey, admin, writes>>

\* Mutant of IsKnownMiss: an error of Redis counts as a marker.
IsKnownMissOnError(v) ==
    LET marked == missKey[visitor[v].path] > 0 IN
    /\ visitor[v].pc = "is_known_miss"
    /\ \/ marked /\ Return(v, "not_found", NoLink) /\ UNCHANGED faults
       \/ ~marked /\ Goto(v, "select") /\ UNCHANGED faults
       \/ Fault /\ Return(v, "not_found", NoLink)
    /\ UNCHANGED <<clock, db, linkKey, missKey, admin, writes>>

\* Cache::is_known_miss: a marker ends the request, an error counts as none.
IsKnownMiss(v) ==
    LET marked == missKey[visitor[v].path] > 0 IN
    /\ visitor[v].pc = "is_known_miss"
    /\ \/ marked /\ Return(v, "not_found", NoLink) /\ UNCHANGED faults
       \/ ~marked /\ Goto(v, "select") /\ UNCHANGED faults
       \/ Fault /\ Goto(v, "select")
    /\ UNCHANGED <<clock, db, linkKey, missKey, admin, writes>>

\* Mutant of Select: a database error is handled like an absent row.
SelectErrorIsMiss(v) ==
    LET row == db[visitor[v].path]
        next == IF IsResolvable(row, visitor[v].start) THEN "put_link" ELSE "put_miss" IN
    /\ visitor[v].pc = "select"
    /\ \/ /\ visitor' = [visitor EXCEPT ![v].pc = next, ![v].row = row]
          /\ UNCHANGED faults
       \/ Fault /\ Goto(v, "put_miss")
    /\ UNCHANGED <<clock, db, linkKey, missKey, admin, writes>>

\* The SELECT and the match on its row.  A database error is a 500.
Select(v) ==
    LET row == db[visitor[v].path]
        next == IF IsResolvable(row, visitor[v].start) THEN "put_link" ELSE "put_miss" IN
    /\ visitor[v].pc = "select"
    /\ \/ /\ visitor' = [visitor EXCEPT ![v].pc = next, ![v].row = row]
          /\ UNCHANGED faults
       \/ Fault /\ Return(v, "server_error", NoLink)
    /\ UNCHANGED <<clock, db, linkKey, missKey, admin, writes>>

\* Cache::put_link (SETEX), best effort, then Some(link).
PutLink(v) ==
    /\ visitor[v].pc = "put_link"
    /\ Return(v, "found", visitor[v].row)
    /\ \/ /\ linkKey' = [linkKey EXCEPT ![visitor[v].path] =
                            [row |-> visitor[v].row, ttl |-> LinkTtl]]
          /\ UNCHANGED faults
       \/ Fault /\ UNCHANGED linkKey
    /\ UNCHANGED <<clock, db, missKey, admin, writes>>

\* Mutant of PutMiss: the marker gets the TTL of a link.
PutMissLinkTtl(v) ==
    /\ visitor[v].pc = "put_miss"
    /\ Return(v, "not_found", NoLink)
    /\ \/ /\ missKey' = [missKey EXCEPT ![visitor[v].path] = LinkTtl]
          /\ UNCHANGED faults
       \/ Fault /\ UNCHANGED missKey
    /\ UNCHANGED <<clock, db, linkKey, admin, writes>>

\* Cache::put_miss (SETEX), best effort, then None.
PutMiss(v) ==
    /\ visitor[v].pc = "put_miss"
    /\ Return(v, "not_found", NoLink)
    /\ \/ /\ missKey' = [missKey EXCEPT ![visitor[v].path] = MissTtl]
          /\ UNCHANGED faults
       \/ Fault /\ UNCHANGED missKey
    /\ UNCHANGED <<clock, db, linkKey, admin, writes>>

Resolve(v) == GetLink(v) \/ IsKnownMiss(v) \/ Select(v) \/ PutLink(v) \/ PutMiss(v)

\* The client disconnects or the server dies: the handler is dropped mid-way.
VisitorGone(v) ==
    /\ visitor[v].pc \in Calls
    /\ Fault
    /\ Return(v, "idle", NoLink)
    /\ UNCHANGED <<clock, db, linkKey, missKey, admin, writes>>

-----------------------------------------------------------------------------
(* An admin's request: one SQL statement, then Cache::invalidate.  A rejected  *)
(* body (400), a path already taken (409) and a missing row (404) change       *)
(* nothing, so they are guards.  A statement that fails without committing     *)
(* changes nothing either; one that commits and whose answer is lost is the    *)
(* write followed by AdminGone.                                                *)

\* The statement commits; the handler goes on to invalidate the path.
Commit(a, p, row) ==
    /\ admin[a].pc = "idle"
    /\ writes < MaxWrites
    /\ writes' = writes + 1
    /\ db' = [db EXCEPT ![p] = row]
    /\ admin' = [admin EXCEPT ![a] = [pc |-> "invalidate", path |-> p]]
    /\ UNCHANGED <<clock, linkKey, missKey, visitor, faults>>

NextVersion(body) ==
    [rev |-> writes + 1, is_active |-> body.is_active, expires_at |-> body.expires_at]

\* POST /v1/links: INSERT, refused by the unique index when the path has a row.
CreateLink(a, p, body) == db[p] = NoLink /\ Commit(a, p, NextVersion(body))

\* PUT /v1/links/{path}: replaces the mutable columns of an existing row.
UpdateLink(a, p, body) == db[p] # NoLink /\ Commit(a, p, NextVersion(body))

\* DELETE /v1/links/{path}.
DeleteLink(a, p) == db[p] # NoLink /\ Commit(a, p, NoLink)

\* Mutant of Invalidate: the marker is not deleted.
InvalidateLinkOnly(a) ==
    /\ admin[a].pc = "invalidate"
    /\ admin' = [admin EXCEPT ![a].pc = "idle"]
    /\ \/ /\ linkKey' = [linkKey EXCEPT ![admin[a].path] = NoEntry]
          /\ UNCHANGED <<missKey, faults>>
       \/ Fault /\ UNCHANGED <<linkKey, missKey>>
    /\ UNCHANGED <<clock, db, visitor, writes>>

\* Cache::invalidate: one DEL of both keys, its error ignored.
Invalidate(a) ==
    /\ admin[a].pc = "invalidate"
    /\ admin' = [admin EXCEPT ![a].pc = "idle"]
    /\ \/ /\ linkKey' = [linkKey EXCEPT ![admin[a].path] = NoEntry]
          /\ missKey' = [missKey EXCEPT ![admin[a].path] = 0]
          /\ UNCHANGED faults
       \/ Fault /\ UNCHANGED <<linkKey, missKey>>
    /\ UNCHANGED <<clock, db, visitor, writes>>

\* The handler is dropped between the commit and the DEL: the client is gone,
\* the server died, or the answer of the statement was lost (500).
AdminGone(a) ==
    /\ admin[a].pc = "invalidate"
    /\ Fault
    /\ admin' = [admin EXCEPT ![a].pc = "idle"]
    /\ UNCHANGED <<clock, db, linkKey, missKey, visitor, writes>>

-----------------------------------------------------------------------------
(* The specification *)

VisitorStep(v) == (\E p \in Paths : Visit(v, p)) \/ Resolve(v) \/ VisitorGone(v)

AdminStep(a) ==
    \/ \E p \in Paths, body \in Bodies : CreateLink(a, p, body) \/ UpdateLink(a, p, body)
    \/ \E p \in Paths : DeleteLink(a, p)
    \/ Invalidate(a)
    \/ AdminGone(a)

Next ==
    \/ Tick
    \/ \E p \in Paths : RedisForgets(p)
    \/ \E v \in Visitors : VisitorStep(v)
    \/ \E a \in Admins : AdminStep(a)

Spec == Init /\ [][Next]_vars

\* Time passes.  Nothing else is certain: nobody has to make a request, and a
\* call that a request awaits may never return, since the connection to Redis
\* has no timeout for an answer (cache.rs:31-46).
Fairness == WF_vars(Tick)

-----------------------------------------------------------------------------
(* What the keys of a path say about its row *)

\* The cached link is not the row the table holds.
StaleLink(p) == linkKey[p].ttl > 0 /\ linkKey[p].row # db[p]

\* The marker hides a link that resolves.
StaleMiss(p) == missKey[p] > 0 /\ IsResolvable(db[p], clock)

Coherent(p) == ~StaleLink(p) /\ ~StaleMiss(p)

\* The request is about to store what an intervening write has made wrong.
Overtaken(v) ==
    LET p == visitor[v].path IN
    \/ visitor[v].pc = "put_link" /\ visitor[v].row # db[p]
    \/ visitor[v].pc = "put_miss" /\ IsResolvable(db[p], clock)

OvertakenFill(p) == \E v \in Visitors : visitor[v].path = p /\ Overtaken(v)

\* Nothing stored or about to be stored for p contradicts the table.
Clean(p) == Coherent(p) /\ ~OvertakenFill(p)

\* A clean path is made unclean by a commit to its row and by nothing else:
\* no interleaving of resolve (resolver.rs:72-111), no failed Redis command, no
\* expiry of the link and no dropped request can put something wrong in Redis.
CleanUntilWritten == [][\A p \in Paths : Clean(p) /\ db'[p] = db[p] => Clean(p)']_vars

\* cache.rs:118-127: the DEL of a write repairs whatever that write, or any
\* earlier one whose DEL was lost, left in Redis, unless a fill that an earlier
\* SELECT feeds is still on its way.
InvalidateRepairs ==
    [][\A a \in Admins, p \in Paths :
          /\ admin[a].path = p /\ Invalidate(a) /\ faults' = faults
          /\ ~OvertakenFill(p)
          => Clean(p)']_vars

\* resolver.rs:72-111: as long as its path is clean, a request is answered as
\* the table alone would answer it, at the time the request began or at the
\* time of its answer, however Redis fails and whatever else is in flight.
CleanAnswersExact ==
    [][\A v \in Visitors :
          LET p == visitor[v].path IN
          visitor[v].pc \in Calls /\ Clean(p) =>
             /\ visitor'[v].pc = "found" =>
                   visitor'[v].row = db[p] /\ IsResolvable(db[p], visitor[v].start)
             /\ visitor'[v].pc = "not_found" => ~IsResolvable(db[p], clock)]_vars

\* README.md:131-132 "Writes invalidate the Redis cache for the affected path so
\* changes take effect immediately", admin.rs:127-128 "clear both caches so it
\* starts resolving immediately": once every write has been answered, and as
\* long as no command has failed, Redis does not contradict the table.
WritesTakeEffectImmediately ==
    faults = 0 /\ (\A a \in Admins : admin[a].pc = "idle") => \A p \in Paths : Coherent(p)

\* cache.rs:76-93: once nobody writes, the keys of every path become and stay
\* coherent, although visitors go on filling the cache, and although any request
\* may hang for good between its SELECT and its fill, or between its commit and
\* the DEL: only the passing of time is needed.
Converges == <>[](\A p \in Paths : Coherent(p))

=============================================================================
