-------------------------- MODULE MCAuthorization ---------------------------
(* Small instances of Authorization.                                       *)
EXTENDS Authorization

CONSTANTS k,        \* a key
          p1, p2,   \* projects
          d1, d2,   \* their deployments
          r1, r2    \* resources

MCOwner == [d \in {d1, d2} |-> IF d = d1 THEN p1 ELSE p2]

Request(method, project, deploy, resource) ==
    [method |-> method, key |-> k, project |-> project, deploy |-> deploy,
     resource |-> resource, rebind |-> TRUE]

\* Binding p1 in two ways, acting for it under scopes of different actions, and
\* naming a deployment of p2.
MCRequests ==
    { Request("createProject", p1, d1, r1),
      [Request("createProject", p1, d1, r2) EXCEPT !.rebind = FALSE],
      Request("createProject", p1, d1, r2),
      Request("createDeployment", p1, d1, r1),
      Request("activateDeployment", p1, d1, r1),
      Request("rollback", p1, d2, r1),
      Request("rollback", p1, d1, r1),
      Request("finishUploads", p1, d1, r1) }

MCGrantable ==
    {<<k, AdminResource, "create-project">>, <<k, r1, "deploy">>, <<k, r1, "rollback">>}

MCFirstBindings ==
    {[p \in {p1, p2} |-> IF p = p1 THEN r ELSE r2] : r \in {Unbound, r1}}
=============================================================================
