------------------------- MODULE MCDashboardSession -------------------------
(* Two logins, two callbacks, which may be of the same login, and two      *)
(* requests, which may be one that signs out and one in another window.    *)
EXTENDS DashboardSession, TLC

Symmetric == Permutations(Logins) \cup Permutations(Callbacks) \cup Permutations(Requests)
=============================================================================
