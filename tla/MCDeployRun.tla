---------------------------- MODULE MCDeployRun -----------------------------
(* Small instances of DeployRun.                                           *)
EXTENDS DeployRun

CONSTANTS d1, d2, d3,   \* deployments
          a, b,         \* paths
          v1, v2,       \* contents
          app           \* a name fragment

ThisProject == <<app>>
MCProjects  == {ThisProject}
MCTokens    == {app}

Ships(files) ==
    [ project |-> ThisProject, inPlace |-> FALSE, files |-> files,
      keep |-> {}, prunable |-> {}, preview |-> FALSE ]

InPlace(plan) == [plan EXCEPT !.inPlace = TRUE]
Preview(plan) == [plan EXCEPT !.preview = TRUE]

OneFile(c)  == [p \in {a} |-> c]
TwoFiles(c) == [p \in {a, b} |-> c]

\* Two versioned deployments, of two files and of one.  The first protects b
\* from deletion as long as it is young, and ships it too.
VersionedPlan == [d \in {d1, d2} |->
    IF d = d1 THEN [Ships(TwoFiles(v1)) EXCEPT !.keep = {b}, !.prunable = {b}]
    ELSE Ships(OneFile(v1))]

\* Two update-in-place runs, the second of which drops file b and changes a, and
\* a preview of a set large enough to need a deployment.
InPlacePlan == [d \in {d1, d2, d3} |->
    CASE d = d1 -> InPlace(Ships(TwoFiles(v1)))
      [] d = d2 -> InPlace(Ships(OneFile(v2)))
      [] d = d3 -> Preview(InPlace(Ships(TwoFiles(v2))))]

\* A run with a batched manifest, and two previews of large sets.
RetentionPlan == [d \in {d1, d2, d3} |->
    IF d = d1 THEN Ships(TwoFiles(v1)) ELSE Preview(Ships(TwoFiles(v1)))]

\* Two runs of one file each, into two directories.
SmallPlan == [d \in {d1, d2} |-> Ships(OneFile(v1))]

\* Bounds: while the server lives, only the client that ships two files gives up or
\* meets an error, and a crash leaves one of the two its client;
OneGone == (crashes = 0 => ok[d2]) /\ \E d \in Deployments : ok[d]

\* hours pass, or the server dies.
HoursOrCrash == crashes = 0 \/ aged = {}
=============================================================================
