----------------------------- MODULE RpcMethods -----------------------------
(***************************************************************************)
(* The method table: what action each JSON-RPC method requires, and how a  *)
(* call is resolved to the resource the action is required on.             *)
(***************************************************************************)

\* Methods gated by the project of the deployment they name.
DeploymentMethods ==
    {"addManifestFiles", "finalizeManifest", "getNeededFiles", "uploadOneFile",
     "startMultiPartUpload", "uploadFilePart", "finishMultiPartUpload",
     "finishUploads", "verifyDeployment", "activateDeployment",
     "previewByDeployName"}

\* Methods gated by the instance itself.
InstanceMethods == {"createProject", "listProjects", "getProject"}

\* Methods gated by the project they name.
ProjectMethods ==
    {"createDeployment", "listDeployments", "getDeploymentTags",
     "previewDeployment", "downloadFile", "listDatabases", "executeSql",
     "rollback", "runOnServer"}

Methods == DeploymentMethods \cup InstanceMethods \cup ProjectMethods

Actions == {"deploy", "read", "execute-sql", "rollback", "create-project",
            "admin-read", "run-on-server"}

Action(m) ==
    CASE m \in {"listDeployments", "getDeploymentTags", "previewDeployment",
                "previewByDeployName", "downloadFile", "listDatabases"} -> "read"
      [] m = "executeSql"                        -> "execute-sql"
      [] m = "rollback"                          -> "rollback"
      [] m = "runOnServer"                       -> "run-on-server"
      [] m = "createProject"                     -> "create-project"
      [] m \in {"listProjects", "getProject"}    -> "admin-read"
      [] OTHER                                   -> "deploy"
=============================================================================
