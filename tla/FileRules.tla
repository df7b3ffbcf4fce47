----------------------------- MODULE FileRules -----------------------------
(***************************************************************************)
(* What ships and what is deleted (filelist.rs, glob.rs, preserve.rs).     *)
(*                                                                         *)
(* A path is a sequence of segments and a segment a sequence of symbols.   *)
(* A rule is a type and a pattern, which is a path with wildcards.  A tree *)
(* is a set of files and a set of links: symlinks to directories, which    *)
(* the walks take for files.  Directories are what files and links are in. *)
(***************************************************************************)
EXTENDS Integers, Sequences, FiniteSets

Globstar == <<"*", "*">>

SelfAndParents(path)  == {SubSeq(path, 1, n) : n \in 1 .. Len(path)}
Ancestors(path) == SelfAndParents(path) \ {path}
Parent(path)    == SubSeq(path, 1, Len(path) - 1)

Hidden(segment) == segment # <<>> /\ segment[1] = "."

\* One pattern segment against one path segment: how many of its symbols the
\* first i of the pattern stand for.  `*` is any run of symbols.
SegmentMatches(pattern, segment) ==
    LET reach[i \in 0 .. Len(pattern)] ==
            IF i = 0 THEN {0}
            ELSE IF pattern[i] = "*"
            THEN UNION {n .. Len(segment) : n \in reach[i - 1]}
            ELSE {n + 1 : n \in {n \in reach[i - 1] :
                                    n < Len(segment) /\ segment[n + 1] = pattern[i]}}
    IN  Len(segment) \in reach[Len(pattern)]

\* globset with literal_separator, likewise: `*` stays in its segment, `**`
\* crosses segments, and at the end of a pattern stands for one at least.
GlobMatches(pattern, path) ==
    LET reach[i \in 0 .. Len(pattern)] ==
            IF i = 0 THEN {0}
            ELSE IF pattern[i] = Globstar
            THEN UNION {(IF i = Len(pattern) THEN n + 1 ELSE n) .. Len(path) : n \in reach[i - 1]}
            ELSE {n + 1 : n \in {n \in reach[i - 1] :
                                    n < Len(path) /\ SegmentMatches(pattern[i], path[n + 1])}}
    IN  Len(path) \in reach[Len(pattern)]

HasGlobstar(pattern) ==
    \E i \in DOMAIN pattern : \E j \in 1 .. Len(pattern[i]) - 1 :
        SubSeq(pattern[i], j, j + 1) = Globstar

\* Pattern::is_match: a wildcard does not match a leading dot, unless the
\* pattern has a globstar somewhere.
Matches(pattern, path) ==
    /\ GlobMatches(pattern, path)
    /\ \/ HasGlobstar(pattern)
       \/ Len(path) # Len(pattern)
       \/ \A i \in DOMAIN path : Hidden(path[i]) => Hidden(pattern[i])

AnyMatches(rules, types, path) ==
    \E r \in rules : r.type \in types /\ Matches(r.pattern, path)

-----------------------------------------------------------------------------
(* The source side *)

Excluding  == {"exclude", "ignore"}
Protecting == {"ignore", "ignore-destination"}

\* should_include: exclude and ignore rules come first.
ShouldInclude(rules, path, assumed) ==
    /\ ~AnyMatches(rules, Excluding, path)
    /\ assumed \/ AnyMatches(rules, {"include"}, path)

\* The first n segments of a directory are what the pattern says.
Agrees(pattern, dir, n) ==
    \A i \in 1 .. n : i <= Len(pattern) /\ Matches(<<pattern[i]>>, <<dir[i]>>)

\* The directory is in what a globstar stands for.
IsBelowGlobstar(pattern, dir) ==
    \E i \in DOMAIN dir \cap DOMAIN pattern :
        pattern[i] = Globstar /\ Agrees(pattern, dir, i - 1)

\* Variant: the directory must be shorter than the pattern by a segment or more
\* of its parent.
CouldContainMatchShort(pattern, dir) ==
    \/ IsBelowGlobstar(pattern, dir)
    \/ Agrees(pattern, dir, Len(dir)) /\ Len(dir) + 1 < Len(pattern)

\* could_contain_match: the directory leads to something the pattern names.
CouldContainMatch(pattern, dir) ==
    \/ IsBelowGlobstar(pattern, dir)
    \/ Agrees(pattern, dir, Len(dir)) /\ Len(dir) < Len(pattern)

IsAncestorOfInclude(rules, dir) ==
    \E r \in rules : r.type = "include" /\ CouldContainMatch(r.pattern, dir)

\* How the walk enters a directory: "all" of it is assumed included, "named"
\* files only, or "not" at all.
Entered(rules, path) ==
    LET way[n \in 0 .. Len(path)] ==
            LET dir == SubSeq(path, 1, n)
            IN  IF n = 0 THEN "named"
                ELSE IF way[n - 1] = "not" THEN "not"
                ELSE IF ShouldInclude(rules, dir, way[n - 1] = "all") THEN "all"
                ELSE IF IsAncestorOfInclude(rules, dir) THEN "named"
                ELSE "not"
    IN  way[Len(path)]

GlobSymbols == {"*", "?", "[", "]", "{", "}", "(", ")", "!", "+", "@"}

\* literal_prefix_passes_through
PassesThrough(pattern, path) ==
    /\ Len(path) <= Len(pattern)
    /\ \A i \in DOMAIN path :
          /\ pattern[i] = path[i]
          /\ \A j \in DOMAIN pattern[i] : pattern[i][j] \notin GlobSymbols

\* check_symlinked_directory, for a link the walk comes to.
LinkRefused(rules, link) ==
    /\ ~AnyMatches(rules, Excluding, link)
    /\ \E r \in rules : r.type = "include" /\ PassesThrough(r.pattern, link)

\* resolve_file_list: what ships, unless the walk meets a link it refuses.
Walked(tree, rules) ==
    {p \in tree.files \cup tree.links : Entered(rules, Parent(p)) # "not"}

Refuses(tree, rules) == \E l \in Walked(tree, rules) \cap tree.links : LinkRefused(rules, l)

FileList(tree, rules) ==
    {p \in Walked(tree, rules) :
        ShouldInclude(rules, p, Entered(rules, Parent(p)) = "all")}

-----------------------------------------------------------------------------
(* The destination side *)

\* scan_directory comes to a path unless it, or a directory it is in, is ignored.
Scanned(rules, path) == \A p \in SelfAndParents(path) : ~AnyMatches(rules, Protecting, p)

\* find_leftover_files
Leftovers(files, incoming, rules) == {p \in files : p \notin incoming /\ Scanned(rules, p)}

\* find_leftovers_respecting_preserve: preserve patterns are taken for
\* ignore-destination rules.
WithPreserved(rules, preserve) ==
    rules \cup {[type |-> "ignore-destination", pattern |-> p] : p \in preserve.patterns}

\* Variant: every preserved file that is old goes, shipped or not.
StaleWithShipped(files, incoming, rules, leftovers, old) ==
    (Leftovers(files, {}, rules) \ leftovers) \cap old

\* prune_stale_preserved_files: what the plain rules leave over and the earlier
\* scan did not report, when it is old.
Stale(files, incoming, rules, leftovers, old) ==
    (Leftovers(files, incoming, rules) \ leftovers) \cap old

-----------------------------------------------------------------------------
(* What the rules promise, said of whole paths instead of steps of a walk *)

\* A rule of the server's keeps the path, or a directory it is in.
Owned(rules, path) ==
    \E r \in rules : r.type \in Protecting /\ \E p \in SelfAndParents(path) : Matches(r.pattern, p)

\* An include rule names the path or a directory it is in, and nothing from
\* there on is excluded.
Named(rules, path) ==
    \E p \in SelfAndParents(path) :
        /\ AnyMatches(rules, {"include"}, p)
        /\ \A q \in SelfAndParents(path) : Len(q) >= Len(p) => ~AnyMatches(rules, Excluding, q)

\* The path is behind a link, which is not walked.
BehindLink(tree, path) == tree.links \cap Ancestors(path) # {}

\* No segment begins with a dot.
Plain(path) == \A i \in DOMAIN path : ~Hidden(path[i])

\* A pattern without wildcards is the path it names.
Literal(pattern) == \A i \in DOMAIN pattern : \A j \in DOMAIN pattern[i] :
                        pattern[i][j] \notin GlobSymbols
=============================================================================
