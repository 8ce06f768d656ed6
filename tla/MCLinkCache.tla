---------------------------- MODULE MCLinkCache ----------------------------
(* LinkCache and its refinement on a small instance: values for their constants. *)
EXTENDS LinkRefinement

CONSTANTS v1, v2, a1, a2

\* A link that never expires, one that is switched off, and one that expires
\* when the clock reaches one: later bodies of the last kind are dead on arrival.
MCBodies == {[is_active |-> TRUE, expires_at |-> 3],
             [is_active |-> FALSE, expires_at |-> 3],
             [is_active |-> TRUE, expires_at |-> 1]}

=============================================================================
