---------------------------- MODULE LinkRegister ----------------------------
(***************************************************************************)
(* What resolving a path promises, without Redis.                          *)
(*                                                                         *)
(* Every path is a register with a memory.  known[p] holds the versions of *)
(* its row that an answer may still be based on; the current one is always *)
(* among them.  Only a write adds a version, only a look at a row that     *)
(* does not resolve adds the verdict "no link", and what has been          *)
(* forgotten never comes back.  A request is answered from one version     *)
(* known when it is answered, judged at the time the request began.        *)
(***************************************************************************)
EXTENDS Naturals

CONSTANTS Paths, Visitors, Rows, NoLink, MaxTime, IsResolvable(_, _)

VARIABLES
    clock,      \* the time
    db,         \* the current version of every path
    known,      \* the versions of every path an answer may be based on
    request     \* per visitor: the question asked, or the answer given

Requests ==
    [pc : {"asking", "idle", "found", "not_found", "server_error"},
     path : Paths, start : 0..MaxTime, row : Rows]

Init ==
    /\ clock = 0
    /\ db = [p \in Paths |-> NoLink]
    /\ known = [p \in Paths |-> {NoLink}]
    /\ \E p \in Paths :
          request = [v \in Visitors |-> [pc |-> "idle", path |-> p, start |-> 0, row |-> NoLink]]

-----------------------------------------------------------------------------

\* Each path q may forget versions and may gain those in gained(q).
Remember(gained(_)) ==
    \A q \in Paths : db'[q] \in known'[q] /\ known'[q] \subseteq known[q] \cup gained(q)

Nothing(q) == {}

\* Time passes.
Pass ==
    /\ clock' \in clock..MaxTime
    /\ UNCHANGED <<db, request>>
    /\ Remember(Nothing)

\* A row is created, replaced or deleted.
Write(p, row) ==
    /\ db' = [db EXCEPT ![p] = row]
    /\ UNCHANGED <<clock, request>>
    /\ Remember(LAMBDA q : IF q = p THEN {row} ELSE {})

\* Someone finds that the current row of p does not resolve.
FindUnresolvable(p) ==
    /\ ~IsResolvable(db[p], clock)
    /\ UNCHANGED <<clock, db, request>>
    /\ Remember(LAMBDA q : IF q = p THEN {NoLink} ELSE {})

Ask(v, p) ==
    /\ request[v].pc # "asking"
    /\ request' = [request EXCEPT ![v] =
                      [pc |-> "asking", path |-> p, start |-> clock, row |-> NoLink]]
    /\ UNCHANGED <<clock, db, known>>

Close(v, outcome, row) ==
    /\ request[v].pc = "asking"
    /\ request' = [request EXCEPT ![v] =
                      [pc |-> outcome, path |-> request[v].path, start |-> 0, row |-> row]]
    /\ UNCHANGED <<clock, db>>
    /\ Remember(Nothing)

\* The answer is a known version that was resolvable when the request began.
Serve(v, row) ==
    /\ IsResolvable(row, request[v].start)
    /\ Close(v, "found", row)
    /\ row \in known[request[v].path]

\* Some known version says that there is nothing to serve.
Refuse(v) ==
    /\ Close(v, "not_found", NoLink)
    /\ \E row \in known[request[v].path] : ~IsResolvable(row, request[v].start)

\* The table cannot be read, or nobody waits for the answer any more.
Fail(v) == Close(v, "server_error", NoLink) \/ Close(v, "idle", NoLink)

Next ==
    \/ Pass
    \/ \E p \in Paths : FindUnresolvable(p) \/ \E row \in Rows : Write(p, row)
    \/ \E v \in Visitors :
          \/ \E p \in Paths : Ask(v, p)
          \/ \E row \in Rows : Serve(v, row)
          \/ Refuse(v)
          \/ Fail(v)

Spec == Init /\ [][Next]_<<clock, db, known, request>>

=============================================================================
