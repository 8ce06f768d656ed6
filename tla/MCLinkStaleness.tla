--------------------------- MODULE MCLinkStaleness ---------------------------
(* The same instance with the clock of disturbances beside it. *)
EXTENDS MCLinkCache, LinkStaleness

=============================================================================
