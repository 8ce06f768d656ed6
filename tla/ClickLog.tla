------------------------------ MODULE ClickLog ------------------------------
(***************************************************************************)
(* One server process: requests, the clicks they log, the readiness probe, *)
(* and the pool they all draw their connections from.                      *)
(*                                                                         *)
(* A request is answered from Redis or from the table; a detached task     *)
(* then inserts its click (click_log::record).  Requests, click tasks,     *)
(* deletions and probes all need one of MaxConnections connections, and    *)
(* give up when they do not get one in time.  link_clicks.link_id          *)
(* references links(id), so the database refuses a click on a deleted      *)
(* link, and the deletion of a clicked one.  At shutdown requests are      *)
(* drained, click tasks are not.                                           *)
(*                                                                         *)
(* A path is represented by the id of the row it has had; what Redis may   *)
(* still serve of it is LinkCache's business, here it is a set of ids.     *)
(***************************************************************************)
EXTENDS Naturals, FiniteSets

CONSTANTS
    Requests,       \* requests, each made once
    Links,          \* ids of the links that exist at first
    NoLink,         \* link_id of a click on a path without a link: NULL
    MaxConnections, \* TELEPORTA_DATABASE_POOL_MAX_CONNECTIONS
    MaxFaults       \* bound: failures of the database, dropped requests, crashes

\* parse_pool_config rejects a pool without connections.
ASSUME ClickLogAssumption ==
    /\ MaxConnections \in Nat \ {0}
    /\ MaxFaults \in Nat
    /\ NoLink \notin Links

VARIABLES
    server,     \* the process: serving, draining after a signal, or over
    links,      \* ids in the links table
    cached,     \* ids Redis may still serve
    clicks,     \* rows of link_clicks
    request,    \* per request: where serve stands, and the link of its answer
    task,       \* per request: its click task
    deletion,   \* per link: the DELETE request for it
    probe,      \* the probe of /readyz: where it stands, or its last answer
    faults      \* failures so far

vars == <<server, links, cached, clicks, request, task, deletion, probe, faults>>

Rows == [request : Requests, link_id : Links \cup {NoLink}]

Answered == {"found", "not_found"}
InFlight == {"redis", "acquire", "select"}
RequestStates ==
    [pc : {"new", "server_error", "dropped"} \cup InFlight \cup Answered,
     path : Links, link_id : Links \cup {NoLink}]

\* A DELETE ends with 200, 404 or 500.
DeletionStates == {"none", "acquire", "delete", "ok", "not_found", "server_error"}

ClickTypeOK ==
    /\ server \in {"serving", "draining", "stopped", "crashed"}
    /\ links \subseteq Links
    /\ cached \subseteq Links
    /\ clicks \subseteq Rows
    /\ request \in [Requests -> RequestStates]
    /\ task \in [Requests -> {"none", "acquire", "insert", "ended"}]
    /\ deletion \in [Links -> DeletionStates]
    /\ probe \in {"none", "acquire", "select", "ready", "unavailable"}
    /\ faults \in 0..MaxFaults

Init ==
    /\ server = "serving"
    /\ links = Links
    /\ cached = {}
    /\ clicks = {}
    /\ request \in [Requests -> [pc : {"new"}, path : Links, link_id : {NoLink}]]
    /\ task = [r \in Requests |-> "none"]
    /\ deletion = [l \in Links |-> "none"]
    /\ probe = "none"
    /\ faults = 0

-----------------------------------------------------------------------------
(* The pool *)

Holders ==
    ({"request"} \X {r \in Requests : request[r].pc = "select"})
    \cup ({"task"} \X {r \in Requests : task[r] = "insert"})
    \cup ({"deletion"} \X {l \in Links : deletion[l] = "delete"})
    \cup ({"probe"} \X ({probe} \cap {"select"}))

Free == Cardinality(Holders) < MaxConnections

Running == server \in {"serving", "draining"}

Fault == faults < MaxFaults /\ faults' = faults + 1

\* acquire gives up when all connections stay in use for acquire_timeout, and
\* fails when a new one cannot be opened.
AcquireFails == (~Free /\ UNCHANGED faults) \/ Fault

-----------------------------------------------------------------------------
(* A request: serve() and resolve() *)

\* Mutant of Arrive: the click is recorded before the path is resolved.
ArriveRecords(r) ==
    /\ server = "serving"
    /\ request[r].pc = "new"
    /\ request' = [request EXCEPT ![r].pc = "redis"]
    /\ task' = [task EXCEPT ![r] = "acquire"]
    /\ UNCHANGED <<server, links, cached, clicks, deletion, probe, faults>>

Arrive(r) ==
    /\ server = "serving"
    /\ request[r].pc = "new"
    /\ request' = [request EXCEPT ![r].pc = "redis"]
    /\ UNCHANGED <<server, links, cached, clicks, task, deletion, probe, faults>>

Abort(r, pc) ==
    /\ request' = [request EXCEPT ![r].pc = pc]
    /\ UNCHANGED task

\* serve() spawns the click task and answers.
Answer(r, link_id) ==
    /\ request' = [request EXCEPT ![r].pc = IF link_id = NoLink THEN "not_found" ELSE "found",
                                  ![r].link_id = link_id]
    /\ task' = [task EXCEPT ![r] = "acquire"]

\* Redis holds the link or a marker for its path, or neither.
AskRedis(r) ==
    /\ Running /\ request[r].pc = "redis"
    /\ \/ \E link_id \in (cached \cap {request[r].path}) \cup {NoLink} : Answer(r, link_id)
       \/ request' = [request EXCEPT ![r].pc = "acquire"] /\ UNCHANGED task
    /\ UNCHANGED <<server, links, cached, clicks, deletion, probe, faults>>

\* Mutant of Acquire: the pool is closed as soon as the signal arrives.
AcquireWhileServing(r) ==
    /\ server = "serving" /\ request[r].pc = "acquire"
    /\ \/ Free /\ Abort(r, "select") /\ UNCHANGED faults
       \/ AcquireFails /\ Abort(r, "server_error")
    /\ UNCHANGED <<server, links, cached, clicks, deletion, probe>>

Acquire(r) ==
    /\ Running /\ request[r].pc = "acquire"
    /\ \/ Free /\ Abort(r, "select") /\ UNCHANGED faults
       \/ AcquireFails /\ Abort(r, "server_error")
    /\ UNCHANGED <<server, links, cached, clicks, deletion, probe>>

\* The SELECT, its cache fill and the answer: the row, unless there is none or
\* it is inactive or expired.  A database error is a 500.
Select(r) ==
    /\ Running /\ request[r].pc = "select"
    /\ \/ \E link_id \in (links \cap {request[r].path}) \cup {NoLink} :
             /\ Answer(r, link_id)
             /\ cached' = cached \cup ({link_id} \ {NoLink})
             /\ UNCHANGED faults
       \/ Fault /\ Abort(r, "server_error") /\ UNCHANGED cached
    /\ UNCHANGED <<server, links, clicks, deletion, probe>>

\* The client goes away before the answer: the handler is dropped.
Drop(r) ==
    /\ Running /\ request[r].pc \in InFlight
    /\ Fault
    /\ Abort(r, "dropped")
    /\ UNCHANGED <<server, links, cached, clicks, deletion, probe>>

-----------------------------------------------------------------------------
(* A click task: click_log::insert.  Its failures are only traced. *)

TaskAcquire(r) ==
    /\ Running /\ task[r] = "acquire"
    /\ \/ Free /\ task' = [task EXCEPT ![r] = "insert"] /\ UNCHANGED faults
       \/ AcquireFails /\ task' = [task EXCEPT ![r] = "ended"]
    /\ UNCHANGED <<server, links, cached, clicks, request, deletion, probe>>

\* Mutant of Click: its first two values are bound in the wrong order.
ClickSwapped(r) == [request |-> request[r].link_id, link_id |-> r]

Click(r) == [request |-> r, link_id |-> request[r].link_id]

\* The foreign key of link_clicks: the link exists, or there is none.
Insertable(r) == request[r].link_id \in links \cup {NoLink}

\* Mutant of Insert: a refused click is tried again.
InsertRetries(r) ==
    /\ Running /\ task[r] = "insert"
    /\ task' = [task EXCEPT ![r] = IF Insertable(r) THEN "ended" ELSE "insert"]
    /\ \/ Insertable(r) /\ clicks' = clicks \cup {Click(r)} /\ UNCHANGED faults
       \/ ~Insertable(r) /\ UNCHANGED <<clicks, faults>>
    /\ UNCHANGED <<server, links, cached, request, deletion, probe>>

\* Mutant of Insert: clicks on paths without a link are left out.
InsertLinkedOnly(r) ==
    /\ Running /\ task[r] = "insert"
    /\ task' = [task EXCEPT ![r] = "ended"]
    /\ clicks' = IF request[r].link_id \in links THEN clicks \cup {Click(r)} ELSE clicks
    /\ UNCHANGED <<server, links, cached, request, deletion, probe, faults>>

\* The INSERT commits, is refused, or fails before or after its commit.
Insert(r) ==
    /\ Running /\ task[r] = "insert"
    /\ task' = [task EXCEPT ![r] = "ended"]
    /\ \/ Insertable(r) /\ clicks' = clicks \cup {Click(r)} /\ UNCHANGED faults
       \/ ~Insertable(r) /\ UNCHANGED <<clicks, faults>>
       \/ Fault /\ UNCHANGED clicks
       \/ Fault /\ Insertable(r) /\ clicks' = clicks \cup {Click(r)}
    /\ UNCHANGED <<server, links, cached, request, deletion, probe>>

-----------------------------------------------------------------------------
(* DELETE /v1/links/{path}: delete_link *)

AskDelete(l) ==
    /\ server = "serving" /\ deletion[l] \in DeletionStates \ {"acquire", "delete"}
    /\ deletion' = [deletion EXCEPT ![l] = "acquire"]
    /\ UNCHANGED <<server, links, cached, clicks, request, task, probe, faults>>

DeleteAcquire(l) ==
    /\ Running /\ deletion[l] = "acquire"
    /\ \/ Free /\ deletion' = [deletion EXCEPT ![l] = "delete"] /\ UNCHANGED faults
       \/ AcquireFails /\ deletion' = [deletion EXCEPT ![l] = "server_error"]
    /\ UNCHANGED <<server, links, cached, clicks, request, task, probe>>

\* Mutant of Referenced: link_id is no foreign key.
ReferencedNever(l) == FALSE

\* link_id has no ON DELETE clause: a row that a click names cannot go.
Referenced(l) == \E click \in clicks : click.link_id = l

\* The table once a DELETE of l has committed: the foreign key may keep the row.
Deleted(l) == IF Referenced(l) THEN links ELSE links \ {l}

\* The DELETE and the invalidation, which may come too late to clear Redis.  An
\* error comes before the DELETE has committed or after; it skips the invalidation.
Delete(l) ==
    LET end(outcome) == deletion' = [deletion EXCEPT ![l] = outcome] IN
    /\ Running /\ deletion[l] = "delete"
    /\ \/ l \notin links /\ end("not_found") /\ UNCHANGED <<links, cached, faults>>
       \/ /\ l \in links /\ ~Referenced(l)
          /\ links' = Deleted(l)
          /\ cached' \in {cached, cached \ {l}}
          /\ end("ok")
          /\ UNCHANGED faults
       \/ l \in links /\ Referenced(l) /\ end("server_error") /\ UNCHANGED <<links, cached, faults>>
       \/ Fault /\ end("server_error") /\ links' \in {links, Deleted(l)} /\ UNCHANGED cached
    /\ UNCHANGED <<server, clicks, request, task, probe>>

RedisForgets(l) ==
    /\ l \in cached
    /\ cached' = cached \ {l}
    /\ UNCHANGED <<server, links, clicks, request, task, deletion, probe, faults>>

-----------------------------------------------------------------------------
(* GET /readyz: readyz.  Kubernetes asks again and again, one at a time. *)

AskProbe ==
    /\ server = "serving" /\ probe \notin {"acquire", "select"}
    /\ probe' = "acquire"
    /\ UNCHANGED <<server, links, cached, clicks, request, task, deletion, faults>>

ProbeAcquire ==
    /\ Running /\ probe = "acquire"
    /\ \/ Free /\ probe' = "select" /\ UNCHANGED faults
       \/ AcquireFails /\ probe' = "unavailable"
    /\ UNCHANGED <<server, links, cached, clicks, request, task, deletion>>

\* SELECT 1, whose failure is a 503.
ProbeSelect ==
    /\ Running /\ probe = "select"
    /\ \/ probe' = "ready" /\ UNCHANGED faults
       \/ probe' = "unavailable" /\ Fault
    /\ UNCHANGED <<server, links, cached, clicks, request, task, deletion>>

-----------------------------------------------------------------------------
(* The process: run() and shutdown_signal() *)

\* SIGTERM or Ctrl-C: no new request is accepted.
Signal ==
    /\ server = "serving"
    /\ server' = "draining"
    /\ UNCHANGED <<links, cached, clicks, request, task, deletion, probe, faults>>

\* The tasks still there are dropped; an INSERT the database has may commit.
Halt(how) ==
    /\ server' = how
    /\ \E sent \in SUBSET {r \in Requests : task[r] = "insert" /\ Insertable(r)} :
          clicks' = clicks \cup {Click(r) : r \in sent}
    /\ task' = [r \in Requests |-> IF task[r] = "none" THEN "none" ELSE "ended"]
    /\ UNCHANGED <<links, cached>>

\* axum::serve returns once every request has been answered; main returns.
Stop ==
    /\ server = "draining"
    /\ \A r \in Requests : request[r].pc \notin InFlight
    /\ \A l \in Links : deletion[l] \notin {"acquire", "delete"}
    /\ probe \notin {"acquire", "select"}
    /\ Halt("stopped")
    /\ UNCHANGED <<request, deletion, probe, faults>>

\* The process is killed: what was in flight is over.  A DELETE that commits all
\* the same is a Delete whose answer is lost, just before.
Crash ==
    /\ Running
    /\ Fault
    /\ Halt("crashed")
    /\ request' = [r \in Requests |->
           IF request[r].pc \in InFlight THEN [request[r] EXCEPT !.pc = "dropped"] ELSE request[r]]
    /\ deletion' = [l \in Links |->
           IF deletion[l] \in {"acquire", "delete"} THEN "server_error" ELSE deletion[l]]
    /\ probe' = IF probe \in {"acquire", "select"} THEN "none" ELSE probe

-----------------------------------------------------------------------------

Serve(r) == AskRedis(r) \/ Acquire(r) \/ Select(r)
Record(r) == TaskAcquire(r) \/ Insert(r)
HandleDelete(l) == DeleteAcquire(l) \/ Delete(l)
HandleProbe == ProbeAcquire \/ ProbeSelect

Next ==
    \/ \E r \in Requests : Arrive(r) \/ Serve(r) \/ Drop(r) \/ Record(r)
    \/ \E l \in Links : AskDelete(l) \/ HandleDelete(l) \/ RedisForgets(l)
    \/ AskProbe \/ HandleProbe
    \/ Signal
    \/ Stop
    \/ Crash

Spec == Init /\ [][Next]_vars

\* The runtime schedules every task that can go on, and Redis and the database
\* answer every call, if only with an error (nothing in the code makes them).
\* Kubernetes does not stop asking.
Fairness ==
    /\ \A r \in Requests : WF_vars(Serve(r)) /\ WF_vars(Record(r))
    /\ \A l \in Links : WF_vars(HandleDelete(l))
    /\ WF_vars(AskProbe) /\ WF_vars(HandleProbe)
    /\ WF_vars(Stop)

FairSpec == Spec /\ Fairness

-----------------------------------------------------------------------------
(* Properties *)

\* links.rs:65-124, click_log.rs:38-45: the log tells what happened, once.  Every
\* row is the click of a request that was answered, with the link it was
\* answered with; a request that failed or was dropped left none.
ClicksFaithful ==
    \A click \in clicks :
       LET r == click.request IN
       /\ request[r].pc \in Answered
       /\ click.link_id = request[r].link_id
       /\ task[r] = "ended"

\* 0002_create_link_clicks.sql:6, admin.rs:195-204: no history of deletions and
\* late clicks leaves a row of the log pointing at a link that is gone.
ClicksReferToLinks == \A click \in clicks : click.link_id \in links \cup {NoLink}

\* lib.rs:61-68: a server that stops in order has answered every request it
\* accepted, and it always comes to that: neither a full pool nor a click task
\* that waits for it holds a shutdown up.
ShutdownCompletes ==
    server = "draining" ~>
       \/ server = "stopped" /\ \A r \in Requests : request[r].pc \notin InFlight
       \/ server = "crashed"

\* click_log.rs:37-45: a click task never stays behind.
ClicksSettle == \A r \in Requests : task[r] = "acquire" ~> task[r] = "ended"

\* click_log.rs:37-77: a click is lost only to a failure of the database, to a
\* full pool, to the deletion of its link, or with the process.
LossExplained ==
    [][\A r \in Requests :
          task[r] \in {"acquire", "insert"} /\ task'[r] = "ended" /\ Click(r) \notin clicks' =>
             \/ faults' > faults
             \/ task[r] = "acquire" /\ ~Free
             \/ task[r] = "insert" /\ ~Insertable(r)
             \/ server' = "stopped"]_vars

\* Who is under way: a request with its click, a deletion, or the probe.
Users ==
    ({"request"} \X {r \in Requests : request[r].pc \in InFlight \/ task[r] \in {"acquire", "insert"}})
    \cup ({"deletion"} \X {l \in Links : deletion[l] \in {"acquire", "delete"}})
    \cup ({"probe"} \X ({probe} \cap {"acquire", "select"}))

Crowded(user) == Cardinality(Users \ {user}) >= MaxConnections

\* resolver.rs:91-97, click_log.rs:38-45, admin.rs:196, health.rs:15: a request and
\* its click never hold two connections, and what has ended holds none.  So a
\* request, a deletion or a probe is turned away, with nothing failing, only
\* while as many others are under way as the pool has connections.
OneConnectionEach ==
    [][faults' = faults =>
          /\ \A r \in Requests :
                request[r].pc = "acquire" /\ request'[r].pc = "server_error" =>
                   Crowded(<<"request", r>>)
          /\ \A l \in Links :
                deletion[l] = "acquire" /\ deletion'[l] = "server_error" =>
                   Crowded(<<"deletion", l>>)
          /\ probe = "acquire" /\ probe' = "unavailable" => Crowded(<<"probe", "acquire">>)]_vars

\* health.rs:14-25, click_log.rs:74, links.rs:65: a burst that fills the pool
\* takes the server out of rotation, but not for good.  Whatever requests, click
\* tasks and deletions came to, each gives its connection back: a server that
\* goes on serving is found ready again and again once no deletion is under way.
ReadyAgain ==
    <>[](server = "serving" /\ \A l \in Links : deletion[l] \notin {"acquire", "delete"})
       => []<>(probe = "ready")

\* admin.rs:190 "delete a link. `404` if it did not exist": a deletion that
\* reaches the database, which does not fail, succeeds or finds no link.
DeletesSucceed ==
    [][\A l \in Links : Delete(l) /\ faults' = faults =>
          deletion'[l] \in {"ok", "not_found"}]_vars

\* README.md:343-344 "Inserts run on a detached task, so logging never adds
\* latency to (or fails) the user-facing fallback": a request does not fail
\* while nothing is wrong and only click tasks hold connections.
LoggingFailsNoRequest ==
    [][\A r \in Requests :
          /\ \A h \in Holders : h[1] = "task"
          /\ faults' = faults
          => ~(request[r].pc = "acquire" /\ request'[r].pc = "server_error")]_vars

=============================================================================
