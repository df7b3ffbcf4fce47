--------------------------- MODULE DeploymentPaths ---------------------------
(***************************************************************************)
(* Paths in a deployment's directory (paths.rs, and lexically_normalize    *)
(* and setup_empty_directories of filelist.rs).  A path is a sequence of   *)
(* components as Rust's Path::components yields them: "/" can only come    *)
(* first, and there are no empty components.                               *)
(***************************************************************************)
EXTENDS Integers, Sequences

CONSTANTS Names,       \* components that are plain names
          TargetDir    \* a deployment's directory: "/" and plain names

Components == Names \cup {"/", ".", ".."}

ASSUME PathAssumption ==
    /\ Names \cap {"/", ".", ".."} = {}
    /\ TargetDir \in Seq(Components) /\ Len(TargetDir) > 1 /\ TargetDir[1] = "/"
    /\ \A i \in 2 .. Len(TargetDir) : TargetDir[i] \in Names

\* Path::join: an absolute path replaces the directory.
JoinedPath(dir, path) == IF path # <<>> /\ path[1] = "/" THEN path ELSE dir \o path

\* Variant: `..` is kept as it is.
PushKeepingUp(path, c) ==
    IF c = "." THEN path ELSE IF c = "/" THEN <<"/">> ELSE Append(path, c)

\* One round of normalize.  PathBuf::pop takes nothing from an empty path or
\* the root, and pushing "/" replaces the path.
Push(path, c) ==
    IF c = "." THEN path
    ELSE IF c = "/" THEN <<"/">>
    ELSE IF c = ".." /\ path \notin {<<>>, <<"/">>} THEN SubSeq(path, 1, Len(path) - 1)
    ELSE Append(path, c)

\* Path::starts_with compares whole components.
Inside(path) ==
    Len(TargetDir) <= Len(path) /\ SubSeq(path, 1, Len(TargetDir)) = TargetDir

\* Variant: only the directory a file is in is made, and not those above.
EmptyDirectoriesNearest(path) ==
    IF Inside(path) /\ Len(path) > Len(TargetDir) + 1
    THEN {SubSeq(path, 1, Len(path) - 1)} ELSE {}

\* setup_empty_directories, for one entry of the manifest: the directories
\* between the target and the file.
EmptyDirectories(path) ==
    IF Inside(path)
    THEN {SubSeq(path, 1, n) : n \in Len(TargetDir) + 1 .. Len(path) - 1} ELSE {}
=============================================================================
