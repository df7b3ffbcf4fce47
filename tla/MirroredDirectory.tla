-------------------------- MODULE MirroredDirectory --------------------------
(***************************************************************************)
(* The directory of a project that deploys in place: each deploy uploads   *)
(* what changed (run.rs), then finishUploads scans for leftovers, deletes  *)
(* them, and prunes preserved files that are old (uploads.rs, preserve.rs),*)
(* while the project's own programs write files there, deletions fail and  *)
(* the server dies.                                                        *)
(***************************************************************************)
EXTENDS FileRules

CONSTANTS Deploys,        \* deploys: what there is locally, the rules, what to preserve
          ServerFiles,    \* paths the project's own programs write
          Oldest          \* bound on the age of a file

\* The tree a deploy resolves, its rules, and preserve rules with an age in a set
\* that is empty when none is given.
DeployType(d) ==
    /\ DOMAIN d = {"tree", "rules", "preserve"}
    /\ d.preserve.maxAge \subseteq Int
    /\ \A m, n \in d.preserve.maxAge : m = n

ASSUME MirrorAssumption == Oldest \in Nat /\ \A d \in Deploys : DeployType(d)

Paths == ServerFiles \cup UNION {d.tree.files \cup d.tree.links : d \in Deploys}
Idle  == [tree |-> [files |-> {}, links |-> {}], rules |-> {},
          preserve |-> [patterns |-> {}, maxAge |-> {}]]

VARIABLES dest,       \* the files in the directory
          age,        \* how long ago each was written
          deploy,     \* the deploy under way
          phase,      \* "idle", "uploading", "deleting", "done"
          owed,       \* files still to upload
          scan,       \* LeftoverScan.leftovers
          pending,    \* leftovers still to delete
          written,    \* files the programs wrote since the scan
          failed      \* leftovers that could not be deleted

mirrorVars == <<dest, age, deploy, phase, owed, scan, pending, written, failed>>

Shipped == FileList(deploy.tree, deploy.rules)

MirrorInit ==
    /\ dest = {} /\ age = [p \in Paths |-> 0]
    /\ deploy = Idle /\ phase = "idle"
    /\ owed = {} /\ scan = {} /\ pending = {} /\ written = {} /\ failed = {}

\* `deploy run` resolves its files and learns which the server needs: those it
\* lacks and those that changed.
StartDeploy(d) ==
    /\ phase \in {"idle", "done"}
    /\ ~Refuses(d.tree, d.rules)
    /\ deploy' = d /\ phase' = "uploading"
    /\ \E changed \in SUBSET (FileList(d.tree, d.rules) \cap dest) :
          owed' = (FileList(d.tree, d.rules) \ dest) \cup changed
    /\ UNCHANGED <<dest, age, scan, pending, written, failed>>

Upload(p) ==
    /\ phase = "uploading" /\ p \in owed
    /\ dest' = dest \cup {p} /\ age' = [age EXCEPT ![p] = 0]
    /\ owed' = owed \ {p}
    /\ UNCHANGED <<deploy, phase, scan, pending, written, failed>>

\* finishUploads: the scan.
Scan ==
    /\ phase = "uploading" /\ owed = {}
    /\ scan' = Leftovers(dest, Shipped, WithPreserved(deploy.rules, deploy.preserve))
    /\ pending' = scan' /\ phase' = "deleting"
    /\ written' = {} /\ failed' = {}
    /\ UNCHANGED <<dest, age, deploy, owed>>

\* A file that cannot be deleted is only logged.
Delete(p) ==
    /\ phase = "deleting" /\ p \in pending
    /\ pending' = pending \ {p}
    /\ \/ dest' = dest \ {p} /\ UNCHANGED failed
       \/ failed' = failed \cup {p} /\ UNCHANGED dest
    /\ UNCHANGED <<age, deploy, phase, owed, scan, written>>

\* Variant: a negative age, which a product that wrapped is, is taken as it is.
OldAsGiven(limit) == {p \in dest : age[p] > limit}

\* Files modified before the cut-off; a negative age counts as none.
Old(limit) == {p \in dest : age[p] > (IF limit < 0 THEN 0 ELSE limit)}

\* The prune, when an age is given: any part of it may fail.
Prune ==
    /\ phase = "deleting" /\ pending = {}
    /\ phase' = "done"
    /\ IF deploy.preserve.patterns # {} /\ deploy.preserve.maxAge # {}
       THEN \E limit \in deploy.preserve.maxAge :
               LET stale == Stale(dest, Shipped, deploy.rules, scan, Old(limit))
               IN  \E kept \in SUBSET stale :
                      dest' = dest \ (stale \ kept) /\ failed' = failed \cup kept
       ELSE UNCHANGED <<dest, failed>>
    /\ UNCHANGED <<age, deploy, owed, scan, pending, written>>

\* The project's programs run all the while.
ServerWrites(p) ==
    /\ dest' = dest \cup {p} /\ age' = [age EXCEPT ![p] = 0]
    /\ written' = written \cup {p}
    /\ phase # "done"
    /\ UNCHANGED <<deploy, phase, owed, scan, pending, failed>>

\* "done" is the moment finishUploads answers: time passes before or after it.
TimePasses ==
    /\ phase # "done" /\ \E p \in dest : age[p] < Oldest
    /\ age' = [p \in Paths |-> IF p \in dest /\ age[p] < Oldest THEN age[p] + 1 ELSE age[p]]
    /\ UNCHANGED <<dest, deploy, phase, owed, scan, pending, written, failed>>

\* The run is over, or was cut short: the client gave up or the server died.
DeployEnds ==
    /\ phase # "idle"
    /\ phase' = "idle" /\ deploy' = Idle
    /\ owed' = {} /\ scan' = {} /\ pending' = {} /\ written' = {} /\ failed' = {}
    /\ UNCHANGED <<dest, age>>

MirrorNext ==
    \/ \E d \in Deploys : StartDeploy(d)
    \/ \E p \in Paths : Upload(p) \/ Delete(p)
    \/ Scan \/ Prune \/ TimePasses \/ DeployEnds
    \/ \E p \in ServerFiles : ServerWrites(p)

MirrorSpec == MirrorInit /\ [][MirrorNext]_mirrorVars

-----------------------------------------------------------------------------
MirrorTypeOK ==
    /\ dest \subseteq Paths /\ age \in [Paths -> 0 .. Oldest]
    /\ deploy \in Deploys \cup {Idle}
    /\ phase \in {"idle", "uploading", "deleting", "done"}
    /\ owed \subseteq Paths /\ scan \subseteq Paths /\ pending \subseteq scan
    /\ written \subseteq ServerFiles /\ failed \subseteq Paths

\* A preserve rule keeps the path, and an age, if given, was not reached.
Kept(p) ==
    /\ Owned({[type |-> "ignore-destination", pattern |-> q] : q \in deploy.preserve.patterns}, p)
    /\ \A limit \in deploy.preserve.maxAge : age[p] <= limit \/ age[p] = 0

(* A step that takes a file from the directory takes none that an ignore or   *)
(* ignore-destination rule of the deploy keeps, itself or a directory it is   *)
(* in, none the deploy ships, changed or not, and no file that a preserve     *)
(* rule keeps and that is not older than promised.                            *)
NothingKeptIsDeleted ==
    \A p \in dest \ dest' :
        /\ ~Owned(deploy.rules, p)
        /\ p \notin Shipped
        /\ ~Kept(p)

OnlyLeftoversGo == [][NothingKeptIsDeleted]_mirrorVars

(* When finishUploads answers, the directory is what the deploy ships and     *)
(* what its rules keep, but for files that could not be deleted and those     *)
(* written since the scan: nothing of earlier deploys, or of runs that were   *)
(* cut short, is left, and a shipped file is there even if an earlier         *)
(* deploy's cut-off made it old.                                              *)
DirectoryMirrorsSource ==
    phase = "done" =>
        /\ Shipped \subseteq dest
        /\ \A p \in dest \ Shipped :
              Owned(deploy.rules, p) \/ Kept(p) \/ p \in written \cup failed
=============================================================================
