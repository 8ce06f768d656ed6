--------------------------- MODULE LinkRefinement ---------------------------
(* LinkCache implements LinkRegister. *)
EXTENDS LinkCache

\* A version the next answer for p may be based on: the row itself, the cached
\* one, the verdict of the marker, and what the fills in flight carry.
Held(p, row) ==
    \/ row = db[p]
    \/ linkKey[p].ttl > 0 /\ row = linkKey[p].row
    \/ missKey[p] > 0 /\ row = NoLink
    \/ \E v \in Visitors :
          /\ visitor[v].path = p
          /\ \/ visitor[v].pc = "put_link" /\ row = visitor[v].row
             \/ visitor[v].pc = "put_miss" /\ row = NoLink

\* A request is asking from its first call to its answer.
Question(v) ==
    IF visitor[v].pc \in Calls
    THEN [pc |-> "asking", path |-> visitor[v].path, start |-> visitor[v].start, row |-> NoLink]
    ELSE visitor[v]

Register == INSTANCE LinkRegister WITH
    known <- [p \in Paths |-> {row \in Rows : Held(p, row)}],
    request <- [v \in Visitors |-> Question(v)]

\* resolver.rs:72-111 with cache.rs and admin.rs: whatever interleaves or fails,
\* an answer is based on the current row or on an older one that Redis or a
\* fill still holds, is judged at the start of its request, and a version that
\* neither holds any more is never served again.
ImplementsRegister == Register!Spec

=============================================================================
