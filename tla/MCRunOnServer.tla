--------------------------- MODULE MCRunOnServer ---------------------------
(***************************************************************************)
(* RunOnServer for TLC: two calls for one slot, and two deployments, each  *)
(* of which may list the script and may be the active one.                 *)
(***************************************************************************)
EXTENDS RunOnServer

CONSTANTS c1, c2, d1, d2

=============================================================================
