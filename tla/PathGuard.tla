------------------------------ MODULE PathGuard ------------------------------
(***************************************************************************)
(* The path guard of paths.rs, component by component: which relPath a     *)
(* client sends leads to a file of the deployment's directory.             *)
(***************************************************************************)
EXTENDS DeploymentPaths

CONSTANT RelPaths      \* the relPaths clients send

ASSUME RelPathAssumption ==
    /\ RelPaths \subseteq Seq(Components)
    /\ \A p \in RelPaths : \A i \in 2 .. Len(p) : p[i] # "/"

VARIABLES relPath,     \* what the client sent
          rest,        \* components of the joined path not yet normalized
          out,         \* the normalized path so far
          verdict      \* "open", "accepted" or "refused"

guardVars == <<relPath, rest, out, verdict>>

GuardInit ==
    /\ relPath \in RelPaths
    /\ rest = JoinedPath(TargetDir, relPath)
    /\ out = <<>>
    /\ verdict = "open"

\* normalize takes the next component.
Normalize ==
    /\ verdict = "open" /\ rest # <<>>
    /\ out' = Push(out, Head(rest))
    /\ rest' = Tail(rest)
    /\ UNCHANGED <<relPath, verdict>>

\* get_safe_path_in_dir answers.
Decide ==
    /\ verdict = "open" /\ rest = <<>>
    /\ verdict' = IF Inside(out) THEN "accepted" ELSE "refused"
    /\ UNCHANGED <<relPath, rest, out>>

GuardNext == Normalize \/ Decide
GuardSpec == GuardInit /\ [][GuardNext]_guardVars

-----------------------------------------------------------------------------
GuardTypeOK ==
    /\ relPath \in RelPaths
    /\ rest \in Seq(Components) /\ out \in Seq(Components)
    /\ verdict \in {"open", "accepted", "refused"}

(* An accepted path is the directory followed by plain names: no sequence of *)
(* `..`, `.` and absolute parts gets a `..` past the guard, where the         *)
(* operating system would follow it out again.                                *)
Contained ==
    verdict = "accepted" =>
        /\ Inside(out)
        /\ \A i \in Len(TargetDir) + 1 .. Len(out) : out[i] \in Names

\* Where POSIX resolution ends: `..` at the root stays there.
Resolved(path) ==
    LET at[i \in 0 .. Len(path)] ==
            IF i = 0 THEN <<"/">>
            ELSE CASE path[i] = "/" -> <<"/">>
                   [] path[i] = "." -> at[i - 1]
                   [] path[i] = ".." ->
                        IF Len(at[i - 1]) = 1 THEN at[i - 1]
                        ELSE SubSeq(at[i - 1], 1, Len(at[i - 1]) - 1)
                   [] OTHER -> Append(at[i - 1], path[i])
    IN  at[Len(path)]

\* The path asks for the parent of the root.
ClimbsAboveRoot(path) ==
    \E n \in 1 .. Len(path) :
        path[n] = ".." /\ Resolved(SubSeq(path, 1, n - 1)) = <<"/">>

(* The guard is no stricter and no laxer than the file system: unless a path *)
(* climbs above the root, it is accepted exactly when it resolves to the      *)
(* directory or below, and to the same file.                                  *)
GuardIsExact ==
    LET path == JoinedPath(TargetDir, relPath)
    IN  verdict # "open" /\ ~ClimbsAboveRoot(path) =>
            /\ out = Resolved(path)
            /\ verdict = "accepted" <=> Inside(Resolved(path))

(* Whatever the manifest says, the skeleton of directories stays inside the   *)
(* target, and every accepted file finds its directory and all those above it *)
(* in place: the parent of each is the target or made too.                    *)
SkeletonIsClosed ==
    verdict # "open" =>
        LET made == EmptyDirectories(out)
        IN  /\ \A d \in made : Inside(d) /\ SubSeq(d, 1, Len(d) - 1) \in made \cup {TargetDir}
            /\ verdict = "accepted" /\ Len(out) > Len(TargetDir) =>
                  SubSeq(out, 1, Len(out) - 1) \in made \cup {TargetDir}

(* What the guard accepts is where the file system would put it, and has a    *)
(* directory to go to.                                                        *)
FilesFindTheirPlace == GuardIsExact /\ SkeletonIsClosed

=============================================================================
