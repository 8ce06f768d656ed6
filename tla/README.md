# Verification of teleporta

TLA+ models of teleporta, a deep-link server (Rust, axum, PostgreSQL, Redis),
the TLC configurations that check them, and TLAPS proofs of their main
invariants. Paths below are relative to `src/`; `crates/teleporta/src/` is
abbreviated to the file name. `PROJECT.json` maps every definition to the lines
it models.

## 1. The system

| Component | State | Operations | Talks to |
|---|---|---|---|
| Resolver (`resolver.rs`, `link.rs`) | none of its own; what a request holds between two awaits | `resolve`, `is_resolvable` | cache, pool |
| Cache (`cache.rs`) | two Redis keys per path, each with a TTL: the link, and a marker "no link" | `get_link`, `put_link`, `is_known_miss`, `put_miss`, `invalidate` | Redis |
| Admin API (`api/admin.rs`) | the `links` table | create, update, delete (each followed by `invalidate`); get, list | pool, cache |
| Public handler (`api/links.rs`) | none | `serve`: resolve, decide, record, respond | resolver, click log, fallback |
| Click log (`click_log.rs`, `0002_create_link_clicks.sql`) | the `link_clicks` table; one detached task per request | `record`, `insert` | pool |
| Fallback (`decision.rs`, `fallback.rs`) | none | `decide`, `render_found`, `render_not_found` | configuration |
| Database (`db.rs`) | the pool and its connect options; a background task under IAM | `connect`, `migrate`, `run_token_refresher` | PostgreSQL, AWS |
| Configuration (`config.rs`) | the loaded `Config` | `from_env` | the environment |
| Process (`lib.rs`, `main.rs`) | starting, serving, draining, over | `run`, `shutdown_signal` | everything |
| Router (`api/mod.rs`), `normalize_path` (`link.rs`) | none | which route takes a URL, and which path its handler sees | every handler |
| Platform detection, client address (`platform.rs`, `api/links.rs`) | none | `detect_platform`, `client_ip` | click log, fallback |
| Health probes (`api/health.rs`) | none | `readyz`, `healthz` | pool |
| Association documents (`well_known.rs`) | none | `apple_app_site_association`, `assetlinks_json` | configuration |
| Errors (`error.rs`) | none | the status an error becomes | |

Any number of processes share one PostgreSQL and one Redis. Within a process all
requests and tasks are futures that interleave at every `await`, and a request
may be dropped at any of them when its client goes away.

What is hard about this code, and therefore what the properties are about
(`hazards` in `PROJECT.json` has each at its line):

* **Cache and table.** `resolve` reads Redis twice, reads the table and writes
  Redis, in four awaits, while writes commit and delete the same two keys. The
  cache must never be worse than one lost race, and must recover.
* **Partial failure.** Every Redis command is best effort; a write whose `DEL` is
  lost is never invalidated again.
* **Time.** Links expire, keys expire, and `resolve` judges by a time read before
  its first await.
* **Shared pool and detached tasks.** Click inserts compete with requests for
  connections, outlive their request, and die with the process.
* **IAM tokens.** A token, an interval, a lifetime and the duration of calls must
  fit into fifteen minutes, in the presence of failed refreshes.
* **Configuration.** Many variables with defaults, cross-checks and blanks, and what
  becomes of them on pages, in documents and in the log.
* **Paths.** A path is normalised when it is stored and again when a URL names it,
  and other routes lie over the catch-all.
* **Paging.** A client lists links page by page, by offset, while others write.

## 2. The modules

| Module | Models | Composed with |
|---|---|---|
| `LinkCache` | resolver, cache, admin writes, on any number of processes | |
| `LinkRegister` | abstract: what resolving promises, without Redis | |
| `LinkRefinement` | the refinement mapping `LinkCache` ⇒ `LinkRegister` | both |
| `LinkStaleness` | `LinkCache` with a clock of the time since a path was last disturbed | `LinkCache` |
| `ClickLog` | one process: requests, click tasks, deletions, the readiness probe, pool, shutdown, crash | |
| `IamToken` | refresher task, pool and connections under IAM | |
| `Paths` | `normalize_path`, `validate_path` and the routes, as operators on sequences | |
| `AdminApi` | create, update, delete and list by spelled paths, and a client that pages | `Paths` |
| `Config` | `from_env` as operators | |
| `Fallback` | decision and pages as operators | `Config` |
| `ClickContext` | user agents, addresses and the columns made of them, as operators | `Fallback` |
| `WellKnown` | the association documents, as operators | `Config` |
| `Deployment` | a process from its environment to its answers | `ClickContext`, `WellKnown` |
| `LinkCacheProofs`, `LinkStalenessProofs`, `LinkRefinementProofs`, `ClickLogProofs`, `IamTokenProofs`, `DeploymentProofs`, `PathsProofs`, `AdminApiProofs` | theorems | their component |
| `MCLinkCache`, `MCLinkStaleness`, `MCClickLog`, `MCIamToken`, `MCAdminApi`, `MCDeployment` | constants for TLC | their component |

Definitions named after a mutation (`GetLinkSliding`, `InvalidateLinkOnly`, …, each
marked *Mutant of* in its comment) are plausible bugs of the definition that
follows them. No specification uses them; they are there to show that every
property notices at least one.

### LinkCache

`db` is the `links` table (a row or `NoLink` per path), `linkKey` and `missKey` are
the two Redis keys with the seconds they have left, `visitor[v]` is where a call
of `resolve` stands and what it holds, `admin[a]` the invalidation a write still
owes. A row is its `is_active`, its `expires_at` and a `rev` that stands for every
other column: two versions of a row always differ in `rev`.

| Action | Code |
|---|---|
| `Visit` | `serve` up to the call of `resolve`; `Utc::now()` is read here |
| `GetLink` | `Cache::get_link` and the `is_resolvable` test of step 1; an error is a miss |
| `IsKnownMiss` | `Cache::is_known_miss`, step 2 |
| `Select` | the `SELECT` and the `match`; a database error is a 500 |
| `PutLink`, `PutMiss` | the `SETEX` of step 4a or 4b and the return |
| `VisitorGone`, `AdminGone` | the handler is dropped at an await, or its process dies |
| `CreateLink`, `UpdateLink`, `DeleteLink` | the SQL statement; its guard is the 409 or 404 |
| `Invalidate` | the `DEL` of both keys, or its failure |
| `Tick`, `RedisForgets` | time; Redis expiring, evicting or losing a key |

`LinkRegister` is the promise: an answer is based on some version that is still
*known* (the current row, or one that something still holds), judged at the time
the request began, and a version that nothing holds any more never comes back.
`LinkRefinement` maps *known* to the row, the two keys and the fills in flight.

### LinkStaleness

Adds `quiet[p]`, the time since anything happened that can make the keys of `p`
wrong: a commit to its row, or a fill that a commit has overtaken. It is a history
variable: it reads the state and influences nothing. `StaleKeysAge`
(time left + `quiet` ≤ TTL for a wrong key) is the inductive form of
`StalenessBounded`.

### ClickLog

One process. A request is answered from Redis or, with a connection of the pool,
from the table, and then spawns its click task; `links`, `cached` and `clicks` are
the tables and what Redis may serve, as sets of ids. `Holders` are the users of a
connection (requests, click tasks, deletions, the probe of `readyz`); `acquire`
fails when all stay in use (`AcquireFails`, `ProbeAcquire`). The foreign key is
`Insertable` and `Referenced`. `Signal`, `Stop` and `Crash` end the process;
`Halt` drops its tasks, and an `INSERT` already sent may still commit. `Fault`
stands for a failing or lost statement, a dropped request or a crash.

### IamToken

`tokenAge` is the age of the token in the connect options, `phase` and `since` the
state of the ticker, `conn` the slots of the pool with the age of each connection
and of its token. The ticker has `MissedTickBehavior::Delay`: the next tick is due
one interval after the tick that was taken. Time advances only when nothing is
due, so nothing is later than its bound (`MaxConnect`, `MaxMint`).

### Paths, AdminApi

A path is a sequence of slashes, blanks and words. `Normalize` is `normalize_path`
step by step, `Visited(url)` the path that a visitor's URL resolves (none if another
route takes it), `AdminPath(rest)` the one that `/v1/links{rest}` names; both lose
the first slash to the wildcard and normalise again.

`AdminApi` has the `links` table with the paths links are stored under. A creation
is two steps, since `created_at` is the time its `INSERT` begins (`CreateLink`) and
the row appears when it commits (`Insert`); an update or deletion is one statement.
`NextPage` is one `GET /v1/links`: `Orders` are the orders PostgreSQL may return,
which leave rows of one instant in any order, and `Page` cuts one with the limit
and offset after clamping. The client asks for the page after what it has until
one is empty. `watch` is a history variable: what happened meanwhile to the rows
it asked for.

### Config, Fallback, ClickContext, WellKnown, Deployment

`Config` gives each variable the value `None`, `Blank`, `Bad` or what it parses to.
`Accepts` is the conjunction of everything `from_env` can reject, `FromEnv` what it
returns. `Fallback` computes pages as buttons (kind and URL), redirect and meta
refresh. `ClickContext` detects the platform from the keywords a user agent
contains, takes the address from the forwarding header or the socket, and makes
the columns of a click that depend on them. `WellKnown` says when a document exists
and which ids it names. `Deployment` runs `main` and `run` step by step, each of
which may fail, and then serves pages (`Serve`) and documents (`FetchAssociation`).
`visitor.device` is what a request really comes from; the code never sees it, and
`DevicesAssumption` says how far its user agent can be trusted.

## 3. What is checked

| Run | Result | Properties |
|---|---|---|
| `cache` | pass | `TimedTypeOK`; `CleanUntilWritten`: only a commit can make the keys of a path, or a fill on its way to them, wrong; `InvalidateRepairs`: one `DEL` repairs whatever earlier writes left unless a fill is in flight; `StaleKeysAge`, `StalenessBounded`: a wrong key is gone one TTL after the last disturbance; `CleanAnswersExact`: on a clean path an answer is what the table says; `ImplementsRegister`; `Converges`: once writes stop the keys agree with the table for good, even if requests hang |
| `iam` | pass | `IamTypeOK`, `TokenAgeBounded`, `NewConnectionsAuthenticate`, `UsableTokenBounded`, `OutageEnds` |
| `clicks` | pass | `ClickTypeOK`, `ClicksFaithful`, `ClicksReferToLinks`, `LossExplained`; `OneConnectionEach`: who gets no connection, though nothing fails, meets as many others under way as there are; `ReadyAgain`: a server that a full pool took out of rotation comes back; `ClicksSettle`, `ShutdownCompletes` |
| `api` | pass | `ApiTypeOK` (also that no stored path is invalid); `VisitedUnlessReserved`: which created links visitors and operators find again, and that they are exactly the canonical paths no route shadows; `ScanExplained`: what a paged listing may miss or repeat; `ListingExact`: that an undisturbed one is exact |
| `deployment` | pass | `DeploymentTypeOK`, `IamConfigSound` (what `IamToken` assumes of its constants), `BlankMeansUnset`, `OffersEverything`, `OneDestination`, `DeviceGetsItsStore`, `DeadLinkLeadsOn`, `AssociationComplete`, `PrivacyExplicit` |
| `immediate` | violated | `WritesTakeEffectImmediately` (README.md:131-132) |
| `disabling` | violated | `DisablingTakesEffect` (README.md:333-334) |
| `delete_clicked` | violated | `DeletesSucceed` (`api/admin.rs:190`) |
| `pool_shared` | violated | `LoggingFailsNoRequest` (README.md:343-344) |
| `iam_rotation` | violated | `ConnectionsRotateWhileTokenValid` (`db.rs:79-81`, README.md:310-311) |
| `base_url` | violated | `BaseUrlStandsIn` (`config.rs:25-26`, README.md:184) |
| `unaddressable` | violated | `AddressedByItsPath` (README.md:127-129) |

The violated runs are where a document or comment promises more than the code
keeps; `findings` in `PROJECT.json` tells each story. The passing runs say what
holds instead: not "immediately" but `StalenessBounded`; not "while the token is
valid" but `UsableTokenBounded`; not every path but the canonical ones
(`VisitedUnlessReserved`); a request and the readiness probe do fail for a full pool, but
only for one that others fill, and not for good (`OneConnectionEach`, `ReadyAgain`).
That the probe answers 503 then, with PostgreSQL up, is not what `health.rs:13`
("the process can serve traffic, i.e. Postgres answers") and README.md:114 ("checks
Postgres") say; it is reported with `pool_shared`, whose trace is the same but for
who waits. Two theorems say what remains of the other promises, or
what would keep them: `RefusedOnlyIfVisited` (a deletion that does not fail is refused
only for a link that an answer has led a visitor to) and
`ConnectionsRotateWithMargin` (connections rotate before their token expires if the
oldest token of the pool leaves room for `MaxLifetime`; with the defaults it
does not, even if no refresh fails).

### Bounds

* **Paths**: one. No action of `LinkCache` relates two paths (lemma
  `OthersUntouched` of `LinkCacheProofs`), and the theorems hold for any number.
* **Visitors and admins**: two each, without symmetry, which would be unsound for
  `Converges`. The races are a fill against a write, two
  fills, and two writes whose `DEL`s come in the other order; each needs two.
* **Writes, faults**: two writes and one fault of any kind in `cache`:
  a version, its successor, and a lost step at any point. The
  theorems have no such limit.
* **Time**: the clock stops at 2, after every `expires_at` that is not `Never`; keys
  go on ageing. TTLs 2 and 0, so that the floor of `ttl_secs` is used.
* **ClickLog**: two requests, one link with its deletion, one probe, one connection:
  enough for any of them to wait behind a click task. Two faults, so that a failure
  can precede a crash.
* **AdminApi**: two operators and two writes while a client lists, on tables of
  none, two or three links; the limits asked for are absent, below and above
  (0 and 3 against a default and a maximum of 2), so that a scan takes two pages.
  Eight spellings of paths: plain, blanks and slashes around, an empty and a blank
  segment, the root, one too long, one below an admin route. Clients encode blanks
  and nothing else. Time passes only when a link is created, as nothing else reads it.
* **IamToken**: token 7, interval 4, lifetime 3, connect 1, mint 1: the margin of
  `NewConnectionsAuthenticate` is met by exactly one unit.
  The token's age is counted up to `MaxAge` (20), beyond every bound the properties
  state (14 for `TokenAgeBounded` with two failures). `iam_rotation` uses the
  defaults in minutes.
* **Deployment**: all environments that differ in at most two variables of a
  section from four working ones, with values on both sides of every limit; four
  links (URLs of their own: all, some, none) and none; six visitors (an iPhone, an
  iPad behind a proxy, an Android device with a malformed forwarding header, a Mac
  or an iPad that calls itself one, one with no known word, one without a header).

### Fairness

`LinkCache`: time passes, and that is all. Redis commands have no timeout in this
code, so a connection that neither answers nor fails holds a request for ever,
perhaps with a fill or a `DEL` it still owes. `Converges` holds in spite of that:
a key lives for its TTL, and what hangs for ever stores nothing. That a request
ends is not claimed, since nothing in the code sees to it. Nobody is assumed to
make requests or writes; `Converges` relies on writes being finite, which the
bound `MaxWrites` says.
`ClickLog`: the runtime polls every ready future, Redis and PostgreSQL answer every
call, if only with an error, and `axum::serve` returns when it can; Kubernetes goes
on probing. `ShutdownCompletes`, `ClicksSettle` and `ReadyAgain` are claimed under this
assumption only: a call that hangs for ever holds up a shutdown, and its
connection with it. `ReadyAgain` also supposes that no deletion is under way,
since an operator who deletes again and again could take the connection before
every probe. Arrivals, deletions, signals, crashes and faults have no fairness.
`IamToken`: time goes on and the task is scheduled; that a refresh ever succeeds
follows from `MaxFails`, the bound on failures in a row, and is assumed by
`OutageEnds`.

`api` and `deployment` have no fairness and only safety properties.

`clicks` and `deployment` do not check deadlock: a process really ends there.

## 4. What is proved

For all values of the constants that satisfy the named assumptions, TLAPS checks
every invariant and every action property of the passing runs, and the refinement.
The assumptions are `BoundsAssumption`,
`TtlAssumption`, `BodiesAssumption` (`LinkCache`); `IamConfigAssumption`,
`IamEnvironmentAssumption` (`IamToken`); `ClickLogAssumption`; for `Deployment`,
`ValuesAssumption` (the three special values are none of the ordinary ones),
`EnvsAssumption` (an environment has all variables; numbers and switches parse to
such), `RecordsAssumption` (a hash or an app is not the value `None`) and
`DevicesAssumption` (a phone that names itself uses the word the code looks for); and,
for `AdminApi`, `ApiAssumption` (the default limit is between 1 and the largest, a
limit asked for is any integer or absent, a spelling is a sequence of strings) and
`TablesAssumption` (a table at the start is finite and its paths are normalized and
valid, as they are after every history of creations: `ApiTypeOK`).
TLC evaluates all of them on the instances of the runs.

* **`LinkCacheProofs`**: `TypeCorrect`, `CleanUntilWrittenCorrect`,
  `InvalidateRepairsCorrect`, `CleanAnswersExactCorrect`. `TypeOK` is inductive
  (`TypeStep`), also because a request never starts in the future. The action
  properties follow from it by cases on the actions; the fact behind
  `CleanUntilWritten` is `UnresolvableStays`: a row that did not resolve when the
  request began does not resolve later, so a marker about to be stored can only
  be made wrong by a write.
* **`LinkRefinementProofs`**: `ImplementsRegisterCorrect`, that `LinkCache` implements
  `LinkRegister` under the mapping of `LinkRefinement`. The first lemmas meet each
  action of the register from conditions on the state of `LinkCache` (`Passes`,
  `Writes`, `Serves`, …); the next say how *known* changes: a row is known as long as
  the table, a key or a fill holds it (`HeldIff`), and a step of one request changes
  what is known only by what its own fill carries (`OnlyFill`). Then there is one
  lemma per action: reading a row that does not resolve is `FindUnresolvable`, which
  needs `UnresolvableStays` again; storing a fill is a `Serve` or `Refuse`, which
  needs the invariant `FillsResolvable`, that a fill carries a row that resolved
  when its request began; a `Tick`, an eviction or a `DEL` only forgets.
* **`LinkStalenessProofs`**: `TimedTypeCorrect`, `StaleKeysAgeCorrect`,
  `StalenessBoundedCorrect`. `StalenessBounded` alone is not inductive, as it says
  nothing of a wrong key before its time is up; `StaleKeysAge` is the
  strengthening. An instantaneous step keeps it because nothing but a disturbance,
  which resets `quiet`, can make a key wrong or renew a wrong one
  (`InstantKeepsKeys`); a second takes one from the time left and adds at most one
  to `quiet` (`TickAgesKeys`).
* **`IamTokenProofs`**: `IamTypeCorrect`, `TokenAgeBoundedCorrect`,
  `NewConnectionsAuthenticateCorrect`, `UsableTokenBoundedCorrect`. The invariant
  ties the token's age to `since` and the number of failures in each phase of the
  task, and a connection's token to its own age. `RotationInv`, that a connection's
  token is older than the connection by at most `OldestToken`, adds
  `ConnectionsRotateWithMargin`.
* **`ClickLogProofs`**: `ClickTypeCorrect`, `ClicksFaithfulCorrect`,
  `ClicksReferToLinksCorrect`, `LossExplainedCorrect`, `OneConnectionEachCorrect`. The
  invariant is `ClickInv`. `ClicksFaithful` is not inductive by itself: nothing in it
  keeps a task from running before its request is answered. `TasksOfAnswers` adds
  that a task exists only for an answered request, which never changes again. The
  case that matters for `ClicksReferToLinks` is a deletion against an insert in
  flight: whichever commits second meets the foreign key.
  `RefusedOnlyIfVisited` is an action property: a row of `link_clicks` that refuses a
  deletion was made by a task, and a task by an answer. `OneConnectionEachCorrect`
  (for finitely many requests and links) maps the holders of connections into those
  who are under way, but for the one who is turned away (`FullIsCrowded`); by
  `TasksOfAnswers` the map is one to one.
* **`DeploymentProofs`**: one theorem for each of the nine invariants. `DeploymentInv`
  says where everything comes from: a process past loading runs on `FromEnv(env)`,
  which was accepted, and an answer is computed from that configuration. The rest
  is about operators: `Seconds` and `Switches` (a variable that parses has its type),
  `BlankVariables`, `Associations`, `Decisions`, and `Concatenation`, from which
  `ButtonsOfLink` and `ButtonsOfDeadLink` follow. `IamConfigSoundCorrect` discharges
  the assumptions of `IamTokenProofs` for every environment the code accepts.
* **`PathsProofs`**: `Normalize` over any alphabet and any length.
  `NormalizeReturnsNormal`: the result has one slash in front and none behind it at
  the end. `NormalizeWords`: a path that begins and ends in a word only gets its
  slash, however many follow it. `NormalizeKeeps`: a normalized path is normalized
  again to itself exactly if it does not end in a blank, which is why creating at `/a /` makes
  a link at `/a ` that no URL of the API names. The model trims by the largest and the
  smallest index to keep, so these proofs need the existence of a maximum
  (`MaxOfFinite`, from `SetInduction`) and no induction over the sequence.
* **`AdminApiProofs`**: `ApiTypeCorrect`, `VisitedUnlessReservedCorrect`,
  `ScanExplainedCorrect`, `ListingExactCorrect`, `OneRowCorrect`.
  * `ApiInv` is inductive with the help of `NormalizeReturnsNormal`: what is
    checked by `validate_path` is the path after normalisation.
    `VisitedUnlessReserved` follows from it by `UrlsOfPath`, on what the routes and
    the second normalisation do to the URLs of a stored path.
  * `ScanExplained` is about the end of a listing and not inductive. `ScanCounted`
    keeps the books on the way. The *rank* of a row is the number of newer ones,
    `Coming` are the rows of rank at least the offset, `Given` the paths the client
    has. A link that stayed and is in neither is paid for by a departure; an item
    given twice, or given and still coming, by an arrival. A write
    changes one row (`OneRow`, a theorem of its own), which moves at most one other
    over the offset (`BeyondWith`, `BeyondWithout`); a page is the next rows by rank
    whatever order PostgreSQL chose (`RankIsPlace`, `PageIsPart`), so it moves its rows
    from `Coming` to `Given` (`PageKeepsBooks`); after an empty page nothing is coming
    (`BooksExplain`).
  * `ListingExact` needs `ScanSound` as well: while nothing came or left, all that was
    given is among the links asked for.

Only model-checked: the liveness properties `Converges`, `OutageEnds`,
`ShutdownCompletes`, `ClicksSettle` and `ReadyAgain`. They rest on fairness, hence on `ENABLED`,
about which TLAPS does not reason here.

## 5. What is not modelled

* `parse_query` and the referrer: they end in columns of the log nothing reads.
* Request ids, tracing, body limits and the other layers of the router; HTTP
  methods; `healthz`, which always answers 200.
* HTML, JSON and the wording of errors; the constant part of the association
  documents.
* The URL `/v1/links/`: no route of the admin API takes it, and whether the catch-all
  does is up to the router library. No run makes a link there.
* A path is decoded as axum does it; escapes other than of blanks are left out.
* `get_link` and the response bodies of the admin API.
* `Redirect::to` answers 303 in axum 0.7 (README.md:240 says `302`); the model
  follows the library.
* `std::env::var` failing on text that is not Unicode, which `opt_env` treats as
  absent.
* A store URL without the association of its platform is dropped in silence
  (`config.rs:185`), although README.md:176 says "Misconfiguration fails loudly at
  startup"; `AssociationComplete` describes what the code does.

## 6. Plan

In the order of what matters most.

1. *Done*: `LinkCache`, its refinement and staleness, their theorems; `IamToken`
   and its theorems; `ClickLog` with the readiness probe, and its theorems; `Config`,
   `Fallback`, `ClickContext`, `WellKnown`, `Deployment` and their theorems; the proof
   of the refinement; `Paths` and `AdminApi`, and theorems about `Normalize` and
   about every property of the `api` run.
2. Creations and updates as users of the pool in `ClickLog` (deletions are).
3. A composition of `AdminApi` with `LinkCache`, so that a scan and a cached answer
   can be compared.
