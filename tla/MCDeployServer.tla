--------------------------- MODULE MCDeployServer ---------------------------
(* A small instance of DeployServer with callers that follow no protocol.  *)
EXTENDS DeployServer, TLC

CONSTANTS d1, d2, d3, d4,   \* deployments
          a,                \* a path
          v,                \* a content
          app               \* a name fragment

MCTokens == {app}

\* "app" and "app-1", which is also how the first deployment of "app" is named.
MCProjects == {<<app>>, <<app, 1>>}

Ships(project, files, inPlace) ==
    [ project |-> project, inPlace |-> inPlace, files |-> files,
      keep |-> {}, prunable |-> {}, preview |-> FALSE ]

\* Two versioned deployments of one file, and one in place for each project.
MCPlan == [d \in {d1, d2, d3, d4} |->
    CASE d \in {d1, d2} -> Ships(<<app>>, [p \in {a} |-> v], FALSE)
      [] d = d3         -> Ships(<<app>>, <<>>, TRUE)
      [] d = d4         -> Ships(<<app, 1>>, <<>>, TRUE)]

MCSymmetry == Permutations({d1, d2})

\* Handlers that loop over files, and uploads under way.
Busy ==
    Cardinality({d \in Deployments : job[d] # Idle})
      + Cardinality({x \in Deployments \X Paths : uploading[x[1]][x[2]] # "no"})

\* The bounds: timestamps that tie or differ; one looping handler or upload at a
\* time, one file on disk; pointers, which nothing but activation reads, with one
\* deployment only; with three and four, calls that loop over no files.
Bounds ==
    /\ clock <= 1
    /\ Busy <= 1
    /\ Cardinality(DOMAIN disk) <= 1
    /\ Cardinality(Created) > 1 => active = [p \in Projects |-> NoDeployment]
    /\ Cardinality(Created) > 2 => Busy = 0 /\ disk = <<>> /\ needed = {} /\ aged = {}
=============================================================================
