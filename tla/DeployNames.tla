---------------------------- MODULE DeployNames ----------------------------
(***************************************************************************)
(* How the server names deployments and their directories.                 *)
(*                                                                         *)
(* A name is a sequence of fragments: text fragments are members of the    *)
(* constant Tokens, and the digits that follow a last "-" are a natural    *)
(* number.  format!("{}-{}", project, id) is then Append(project, id): the *)
(* id is printed in decimal without sign or separator, so the last "-" of  *)
(* a formatted name always splits it back into the project and the id, and *)
(* a project called "app-5" is the sequence <<app, 5>>.                    *)
(***************************************************************************)
EXTENDS Naturals, Sequences

CONSTANT Tokens       \* the text fragments project names are made of

Names == Seq(Tokens \cup Nat)

\* format!("{}-{}", project_name, deploy_id)
DeployName(project, id) == Append(project, id)

\* An update-in-place deploy writes into a directory named for the project,
\* any other one into a directory named for the deployment.
DeployDir(project, id, inPlace) ==
    IF inPlace THEN project ELSE DeployName(project, id)

\* What "app" (in place) and "app-5" must not do to each other: no project may
\* be named like a deployment of another one.
NoProjectNamedLikeADeployment(projects) ==
    \A p, q \in projects, i \in Nat : p # DeployName(q, i)
=============================================================================
