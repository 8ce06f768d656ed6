------------------------------ MODULE IamToken ------------------------------
(***************************************************************************)
(* Database connections under AWS IAM authentication (db.rs, config.rs).   *)
(*                                                                         *)
(* The password of a new connection is a token that the database accepts   *)
(* for TokenTtl after it was minted.  A background task mints a new one    *)
(* at every tick of an interval and hands it to the pool for connections   *)
(* still to be opened; an open connection keeps the one it logged in with. *)
(* The pool hands a connection out until it is older than MaxLifetime.     *)
(*                                                                         *)
(* Time is counted in units; nothing is late: a step whose time has come   *)
(* is taken before time goes on.                                           *)
(***************************************************************************)
EXTENDS Naturals

CONSTANTS
    Conns,              \* the slots of the pool
    TokenTtl,           \* IAM_TOKEN_TTL_SECS
    RefreshInterval,    \* TELEPORTA_DATABASE_IAM_TOKEN_REFRESH_INTERVAL_SECS
    MaxLifetime,        \* TELEPORTA_DATABASE_POOL_MAX_LIFETIME_SECS
    MaxConnect,         \* the longest the first connection takes at startup
    MaxMint,            \* the longest a call of the AWS SDK takes
    MaxFails,           \* bound: refreshes that fail one after the other
    MaxAge              \* bound: up to which the age of the pool's token is counted

\* parse_database_config and validate_pool_against_database: what startup accepts.
ValidRefresh(d) == d # 0 /\ d < TokenTtl
ValidLifetime(d) == d # 0 /\ d < TokenTtl

ASSUME IamConfigAssumption ==
    /\ TokenTtl \in Nat
    /\ RefreshInterval \in Nat /\ ValidRefresh(RefreshInterval)
    /\ MaxLifetime \in Nat /\ ValidLifetime(MaxLifetime)

ASSUME IamEnvironmentAssumption ==
    /\ MaxConnect \in Nat
    /\ MaxMint \in 0..RefreshInterval
    /\ MaxFails \in Nat
    /\ MaxAge \in Nat /\ MaxAge >= TokenTtl

VARIABLES
    tokenAge,   \* age of the token in the connect options of the pool
    phase,      \* of the background task
    since,      \* time since the task's last tick, or since the first mint
    fails,      \* refreshes that failed since the last one that did not
    conn        \* per slot: the connection, and the age of its token

vars == <<tokenAge, phase, since, fails, conn>>

\* A connection past MaxLifetime is just that: its age is no longer counted.
Closed == [open |-> FALSE, age |-> 0, token |-> 0]
Connections == [open : BOOLEAN, age : 0..MaxLifetime + 1, token : Nat]

IamTypeOK ==
    /\ tokenAge \in Nat
    /\ phase \in {"connecting", "waiting", "minting"}
    /\ since \in Nat
    /\ fails \in 0..MaxFails
    /\ conn \in [Conns -> Connections]

\* connect_iam has minted the initial token and is opening the pool.
Init ==
    /\ tokenAge = 0
    /\ phase = "connecting"
    /\ since = 0
    /\ fails = 0
    /\ conn = [c \in Conns |-> Closed]

-----------------------------------------------------------------------------
(* Time *)

\* The moment at which the background task must move on.
Due ==
    \/ phase = "connecting" /\ since >= MaxConnect
    \/ phase = "waiting" /\ since >= RefreshInterval
    \/ phase = "minting" /\ since >= MaxMint

Older(k) ==
    IF k.open /\ k.age <= MaxLifetime
    THEN [k EXCEPT !.age = @ + 1, !.token = @ + 1]
    ELSE k

Tick ==
    /\ ~Due
    /\ tokenAge' = IF tokenAge < MaxAge THEN tokenAge + 1 ELSE tokenAge
    /\ since' = since + 1
    /\ conn' = [c \in Conns |-> Older(conn[c])]
    /\ UNCHANGED <<phase, fails>>

-----------------------------------------------------------------------------
(* The background task: run_token_refresher *)

\* The pool is up.  The interval starts; its first tick, at once, is skipped.
StartRefresher ==
    /\ phase = "connecting"
    /\ phase' = "waiting"
    /\ since' = 0
    /\ UNCHANGED <<tokenAge, fails, conn>>

\* The interval fires.  With MissedTickBehavior::Delay the next tick is due one
\* interval after this one, however late this one is.
IntervalTick ==
    /\ phase = "waiting"
    /\ since >= RefreshInterval
    /\ phase' = "minting"
    /\ since' = 0
    /\ UNCHANGED <<tokenAge, fails, conn>>

\* Mutant of RefreshOk: the new options are built but never set on the pool.
RefreshNotApplied ==
    /\ phase = "minting"
    /\ phase' = "waiting"
    /\ fails' = 0
    /\ UNCHANGED <<tokenAge, since, conn>>

\* build_iam_options succeeds: connections opened from now on use the new token.
RefreshOk ==
    /\ phase = "minting"
    /\ phase' = "waiting"
    /\ tokenAge' = 0
    /\ fails' = 0
    /\ UNCHANGED <<since, conn>>

\* Mutant of RefreshFailed: the task returns with the error.
RefreshFailedEnds ==
    /\ phase = "minting"
    /\ fails < MaxFails
    /\ phase' = "stopped"
    /\ fails' = fails + 1
    /\ UNCHANGED <<tokenAge, since, conn>>

\* Mutant of RefreshFailed: a whole interval is slept after the failure.
RefreshFailedSleeps ==
    /\ phase = "minting"
    /\ fails < MaxFails
    /\ phase' = "waiting"
    /\ fails' = fails + 1
    /\ since' = 0
    /\ UNCHANGED <<tokenAge, conn>>

\* It fails: the previous token stays, the next tick tries again.
RefreshFailed ==
    /\ phase = "minting"
    /\ fails < MaxFails
    /\ phase' = "waiting"
    /\ fails' = fails + 1
    /\ UNCHANGED <<tokenAge, since, conn>>

-----------------------------------------------------------------------------
(* The pool and the database, as the code uses them *)

\* The database lets a new connection in while the token is valid; when it is
\* not, the acquire fails and nothing changes.
Open(c) ==
    /\ ~conn[c].open
    /\ tokenAge < TokenTtl
    /\ conn' = [conn EXCEPT ![c] = [open |-> TRUE, age |-> 0, token |-> tokenAge]]
    /\ UNCHANGED <<tokenAge, phase, since, fails>>

\* Idle, broken or too old, and at the latest when it is asked for.
Close(c) ==
    /\ conn[c].open
    /\ conn' = [conn EXCEPT ![c] = Closed]
    /\ UNCHANGED <<tokenAge, phase, since, fails>>

\* Mutant of Usable: max_lifetime is not set on the pool.
UsableForever(c) == conn[c].open

\* The pool hands out an open connection unless it is past its lifetime.
Usable(c) == conn[c].open /\ conn[c].age <= MaxLifetime

Refresher == StartRefresher \/ IntervalTick \/ RefreshOk \/ RefreshFailed

Next ==
    \/ Tick
    \/ Refresher
    \/ \E c \in Conns : Open(c) \/ Close(c)

Spec == Init /\ [][Next]_vars

\* Time goes on and the task is scheduled when its time has come.
FairSpec == Spec /\ WF_vars(Tick) /\ WF_vars(Refresher)

-----------------------------------------------------------------------------
(* Properties *)

\* db.rs:135-169: k refreshes that fail in a row make the token at most k
\* intervals older, on top of the one between ticks and of what the calls take.
TokenAgeBounded ==
    tokenAge <= (fails + 1) * RefreshInterval + MaxConnect + MaxMint

\* db.rs:5-8 "*new* connections always use a fresh token": while no refresh
\* has failed and calls are shorter than the margin the interval leaves, the
\* database accepts the token of the pool at every moment.
NewConnectionsAuthenticate ==
    fails = 0 /\ RefreshInterval + MaxConnect + MaxMint < TokenTtl => tokenAge < TokenTtl

\* db.rs:18-24, 74-82: what lifetime and login together guarantee of a
\* connection that is handed out.
UsableTokenBounded == \A c \in Conns : Usable(c) => conn[c].token < TokenTtl + MaxLifetime

\* db.rs:160-167 "keeping previous token, will retry": a token that has run out
\* is replaced, so an outage of new connections ends.
OutageEnds == tokenAge >= TokenTtl ~> tokenAge < TokenTtl

\* db.rs:79-81 "connections rotate while their auth token is still valid - is
\* enforced in config validation", README.md:310-311 "forces connections to
\* rotate well inside the 15-minute RDS token TTL, even if a refresh tick is
\* missed": no connection is handed out whose own token has run out.
ConnectionsRotateWhileTokenValid ==
    \A c \in Conns : Usable(c) => conn[c].token < TokenTtl

=============================================================================
