----------------------------- MODULE MCClickLog -----------------------------
(* ClickLog on a small instance: values for its constants. *)
EXTENDS ClickLog

CONSTANTS r1, r2, r3, l1, l2

=============================================================================
