------------------------------ MODULE AdminApi ------------------------------
(***************************************************************************)
(* The admin API over the links table, and a client that lists it.         *)
(*                                                                         *)
(* Operators create, replace and delete links by paths as they happen to   *)
(* spell them; a link is stored under its normalized path with the time    *)
(* its INSERT began.  The listing client pages through GET /v1/links while *)
(* they do: one query per page, newest first, each a snapshot of its own.  *)
(* Redis and the resolution of links are LinkCache's business.             *)
(***************************************************************************)
EXTENDS Paths, Integers

CONSTANTS
    None,
    Operators,
    RawPaths,     \* paths as clients spell them, in bodies and in URLs
    Bodies,       \* what a request may set: route_type, is_active
    Filters,      \* the same of a query, None where it does not ask
    Limits,       \* limits a client asks for, None if it does not
    DefaultLimit, \* 100
    MaxLimit,     \* 1000
    Tables,       \* what the table may hold at first
    MaxWrites     \* bound

ASSUME ApiAssumption ==
    /\ MaxLimit \in Nat \ {0} /\ DefaultLimit \in 1..MaxLimit
    /\ None \notin Int /\ Limits \subseteq Int \cup {None}
    /\ RawPaths \subseteq Seq(STRING)
    /\ MaxWrites \in Nat

\* A table holds what links created before have left in it.
ASSUME TablesAssumption ==
    \A rows \in Tables :
       /\ IsFiniteSet(DOMAIN rows)
       /\ rows \in [DOMAIN rows -> [body : Bodies, created_at : Nat]]
       /\ \A path \in DOMAIN rows : path \in Seq(STRING) /\ Normal(path) /\ ValidPath(path)

VARIABLES
    table,    \* the links table: path -> row
    clock,    \* now() of the database when a link was last created
    op,       \* per operator: the INSERT it waits for, or None
    writes,   \* so far
    scan,     \* the listing client: its query and the items it was given
    watch     \* history: what happened to the rows it asked for

apiVars == <<table, clock, op, writes>>
vars == <<apiVars, scan, watch>>

Rows == [body : Bodies, created_at : 0..clock]

ApiTypeOK ==
    /\ \A path \in DOMAIN table : ValidPath(path) /\ table[path] \in Rows
    /\ clock \in Nat
    /\ \A o \in Operators :
       op[o] # None => ValidPath(op[o].path) /\ op[o].row \in Rows
    /\ writes \in 0..MaxWrites
    /\ scan.pc \in {"idle", "scanning", "done"}
    /\ \A i \in DOMAIN scan.seen : scan.seen[i].created_at \in 0..clock
    /\ scan.pc = "scanning" => watch.stayed \subseteq DOMAIN table

-----------------------------------------------------------------------------
(* Listing: list_links *)

Matches(row, filter) ==
    \A field \in DOMAIN filter : filter[field] \in {None, row.body[field]}

Matching(filter) == {path \in DOMAIN table : Matches(table[path], filter)}

Item(path) == [path |-> path, created_at |-> table[path].created_at]

\* Mutant of EffectiveLimit: a limit below one is kept.
EffectiveLimitUnraised(limit) ==
    IF limit = None THEN DefaultLimit
    ELSE IF limit > MaxLimit THEN MaxLimit
    ELSE limit

EffectiveLimit(limit) ==
    IF limit = None THEN DefaultLimit
    ELSE IF limit > MaxLimit THEN MaxLimit
    ELSE IF limit < 1 THEN 1
    ELSE limit

EffectiveOffset(offset) == IF offset = None \/ offset < 0 THEN 0 ELSE offset

\* ORDER BY created_at DESC: rows of one instant come in any order, which may
\* differ from query to query.
Orders(filter) ==
    {order \in SetToSeqs(Matching(filter)) :
        \A i, j \in DOMAIN order :
           i < j => table[order[i]].created_at >= table[order[j]].created_at}

\* LIMIT and OFFSET.
Page(order, limit, offset) ==
    LET last == EffectiveOffset(offset) + EffectiveLimit(limit) IN
    SubSeq(order, EffectiveOffset(offset) + 1, IF last > Len(order) THEN Len(order) ELSE last)

-----------------------------------------------------------------------------
(* The listing client *)

NoScan == [pc |-> "idle", limit |-> None, filter |-> None, seen |-> <<>>]
NoWatch == [stayed |-> {}, arrivals |-> 0, departures |-> 0, tied |-> FALSE]

Tied(paths) ==
    \E p, q \in paths : p # q /\ table[p].created_at = table[q].created_at

StartScan ==
    /\ scan.pc = "idle"
    /\ \E limit \in Limits, filter \in Filters :
          /\ scan' = [scan EXCEPT !.pc = "scanning", !.limit = limit, !.filter = filter]
          /\ watch' = [NoWatch EXCEPT !.stayed = Matching(filter), !.tied = Tied(Matching(filter))]
    /\ UNCHANGED apiVars

\* The client asks for the page after what it has, until a page is empty.
NextPage ==
    /\ scan.pc = "scanning"
    /\ \E order \in Orders(scan.filter),
          offset \in IF scan.seen = <<>> THEN {None, -1} ELSE {Len(scan.seen)} :
          LET page == Page(order, scan.limit, offset) IN
          scan' = [scan EXCEPT
                     !.pc = IF page = <<>> THEN "done" ELSE "scanning",
                     !.seen = scan.seen \o [i \in DOMAIN page |-> Item(page[i])]]
    /\ UNCHANGED <<apiVars, watch>>

EndScan ==
    /\ scan.pc = "done"
    /\ scan' = NoScan
    /\ watch' = NoWatch
    /\ UNCHANGED apiVars

\* What a write does to the rows the client asked for.
Watch ==
    /\ UNCHANGED scan
    /\ IF scan.pc # "scanning" THEN UNCHANGED watch
       ELSE LET before == Matching(scan.filter)
                after == Matching(scan.filter)' IN
            watch' = [stayed |-> watch.stayed \cap after,
                      arrivals |-> watch.arrivals + Cardinality(after \ before),
                      departures |-> watch.departures + Cardinality(before \ after),
                      tied |-> watch.tied \/ Tied(Matching(scan.filter))']

-----------------------------------------------------------------------------
(* Operators *)

\* validate_route_type.
ValidBody(body) == body.route_type \notin {"blank", "long"}

Write == writes < MaxWrites /\ writes' = writes + 1

\* The table with this row under this path.
With(path, row) ==
    [other \in DOMAIN table \cup {path} |-> IF other = path THEN row ELSE table[other]]

\* Mutant of CreateLink: the path is validated before it is normalized.
CreateLinkValidatedRaw(o, raw) ==
    /\ op[o] = None
    /\ Write
    /\ LET path == Normalize(raw) IN
       \E body \in Bodies :
          /\ ValidPath(raw) /\ ValidBody(body)
          /\ clock' \in {clock, clock + 1}
          /\ op' = [op EXCEPT ![o] = [path |-> path, row |-> [body |-> body, created_at |-> clock']]]
    /\ UNCHANGED table

\* create_link up to its INSERT, which takes the time when it begins; what is
\* not valid is a 400.  Time may have passed since the last one, or not.
CreateLink(o, raw) ==
    /\ op[o] = None
    /\ Write
    /\ LET path == Normalize(raw) IN
       \E body \in Bodies :
          /\ ValidPath(path) /\ ValidBody(body)
          /\ clock' \in {clock, clock + 1}
          /\ op' = [op EXCEPT ![o] = [path |-> path, row |-> [body |-> body, created_at |-> clock']]]
    /\ UNCHANGED table

\* Mutant of Insert: an upsert, which starts a link anew.
InsertOrReplace(o) ==
    /\ op[o] # None
    /\ op' = [op EXCEPT ![o] = None]
    /\ table' = With(op[o].path, op[o].row)
    /\ UNCHANGED <<clock, writes>>

\* The INSERT commits (201, or 500 if its answer is lost), or it meets a row of
\* its path (409) or fails (500).
Insert(o) ==
    /\ op[o] # None
    /\ op' = [op EXCEPT ![o] = None]
    /\ \/ op[o].path \notin DOMAIN table /\ table' = With(op[o].path, op[o].row)
       \/ UNCHANGED table
    /\ UNCHANGED <<clock, writes>>

\* UPDATE and DELETE are one statement on one row.  A failure after its commit
\* differs from success in the answer alone; one before it, or a path without a
\* row (404), changes nothing.
Statement(path, result) ==
    /\ path \in DOMAIN table
    /\ table' = result
    /\ UNCHANGED <<clock, op>>

\* update_link: the whole body, and nothing of created_at.
UpdateLink(rest) ==
    /\ Write
    /\ LET path == AdminPath(rest) IN
       \E body \in Bodies :
          ValidBody(body) /\ Statement(path, [table EXCEPT ![path].body = body])

DeleteLink(rest) ==
    /\ Write
    /\ LET path == AdminPath(rest) IN
       Statement(path, [other \in DOMAIN table \ {path} |-> table[other]])

-----------------------------------------------------------------------------

\* What follows /v1/links in a URL that the item routes take.
Rests == {raw \in RawPaths : Len(raw) > 1 /\ Head(raw) = Slash}

WriteStep ==
    \/ \E o \in Operators : Insert(o) \/ \E raw \in RawPaths : CreateLink(o, raw)
    \/ \E rest \in Rests : UpdateLink(rest) \/ DeleteLink(rest)

Init ==
    /\ table \in Tables
    /\ clock = Max({0} \cup {table[path].created_at : path \in DOMAIN table})
    /\ op = [o \in Operators |-> None]
    /\ writes = 0
    /\ scan = NoScan
    /\ watch = NoWatch

Next ==
    \/ WriteStep /\ Watch
    \/ StartScan
    \/ NextPage
    \/ EndScan

Spec == Init /\ [][Next]_vars

-----------------------------------------------------------------------------
(* Properties of paths *)

\* A path that its own URL leads back to: no empty segment and no blank at its
\* beginning, and no blank at its end.
Canonical(path) ==
    /\ Len(path) > 1
    /\ Head(path) = Slash
    /\ path[2] \notin {Slash, Blank}
    /\ Last(path) \notin {Slash, Blank}

\* link.rs:51-80, api/mod.rs:64-84, admin.rs:243-251: of the links that can be
\* created, those that visitors find at the path they are stored under are
\* exactly the canonical ones that no other route takes, and operators reach
\* exactly the canonical ones; slashes at the end of a URL change nothing.
VisitedUnlessReserved ==
    \A path \in DOMAIN table :
       /\ Canonical(path) <=> AdminPath(path) = path
       /\ Canonical(path) /\ ~Reserved(path) <=> Visited(path) = path
       /\ \A url \in {path \o Root, path \o Root \o Root} :
             Canonical(path) => AdminPath(url) = path /\ Visited(url) \in {path, <<>>}

\* README.md:127-129 "A link is addressed by its normalized path": the path an
\* answer of the API names finds the link at /v1/links{path}.
AddressedByItsPath == \A path \in DOMAIN table : AdminPath(path) = path

-----------------------------------------------------------------------------
(* Properties of listing *)

Seen(path) == {i \in DOMAIN scan.seen : scan.seen[i].path = path}

Skipped == {path \in watch.stayed : Seen(path) = {}}
Repeats == Len(scan.seen) - Cardinality({scan.seen[i].path : i \in DOMAIN scan.seen})

\* admin.rs:208-239: a client that pages to the end is given every link that was
\* there all the time, once and newest first, up to what happened meanwhile:
\* each link that left may hide one from it, each that came may show one again.
\* Rows of one instant are excepted, as their order is not fixed.
ScanExplained ==
    scan.pc # "idle" /\ ~watch.tied =>
       /\ scan.pc = "done" => Cardinality(Skipped) <= watch.departures
       /\ Repeats <= watch.arrivals
       /\ watch.arrivals = 0 =>
             \A i, j \in DOMAIN scan.seen :
                i < j => scan.seen[i].created_at > scan.seen[j].created_at

\* admin.rs:208-239: a listing during which no link it asks for came or left is
\* exact: those links, each once, whatever the limit of its pages and whatever
\* was written to the other links. Rows of one instant are excepted again.
ListingExact ==
    /\ scan.pc = "done" /\ ~watch.tied
    /\ watch.arrivals = 0 /\ watch.departures = 0
    => /\ {scan.seen[i].path : i \in DOMAIN scan.seen} = watch.stayed
       /\ Len(scan.seen) = Cardinality(watch.stayed)

=============================================================================
