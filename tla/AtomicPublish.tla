--------------------------- MODULE AtomicPublish ----------------------------
(***************************************************************************)
(* What a deploy server promises for versioned deployments: each project   *)
(* serves nothing, or one complete build, and changes from one to the next *)
(* in a single step.                                                       *)
(***************************************************************************)
CONSTANTS
    Projects,   \* the projects
    Builds,     \* project -> the builds that are deployed for it
    Nothing     \* no deployment is active yet

VARIABLE served \* project -> the build it serves, or Nothing

Init == served = [p \in Projects |-> Nothing]

\* A deploy or a rollback.
Publish(p) == \E build \in Builds[p] : served' = [served EXCEPT ![p] = build]

Next == \E p \in Projects : Publish(p)

Spec == Init /\ [][Next]_served
=============================================================================
