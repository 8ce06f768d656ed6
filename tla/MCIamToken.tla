----------------------------- MODULE MCIamToken -----------------------------
(* IamToken on a small instance: values for its constants. *)
EXTENDS IamToken

CONSTANTS c1, c2

=============================================================================
