---------------------------- MODULE SecurityScan ----------------------------
(***************************************************************************)
(* The scan of a file list before it is uploaded (security.rs).  A path is *)
(* a sequence of segments, and a segment a sequence of symbols.            *)
(***************************************************************************)
EXTENDS Integers, Sequences

CONSTANTS DisallowedFiles,    \* DISALLOWED_FILES: segments
          Infix,              \* ".env.", as symbols
          Endings,           \* the endings of DISALLOWED_PATH_PATTERNS
          TopDirectories,     \* ".git" and the like, of the beginnings
          Keywords            \* symbols that contain a keyword, in any case

HasSuffix(text, suffix) ==
    Len(suffix) <= Len(text) /\ SubSeq(text, Len(text) - Len(suffix) + 1, Len(text)) = suffix

HasInfix(text, infix) ==
    \E i \in 1 .. Len(text) - Len(infix) + 1 : SubSeq(text, i, i + Len(infix) - 1) = infix

Basename(path) == path[Len(path)]

\* is_dangerous_path.  What a path ends with its basename ends with; only the
\* infix is looked for in every segment.
IsDangerousPath(path) ==
    \/ Basename(path) \in DisallowedFiles
    \/ \E i \in DOMAIN path : HasInfix(path[i], Infix)
    \/ \E s \in Endings : HasSuffix(Basename(path), s)
    \/ Len(path) > 1 /\ path[1] \in TopDirectories
    \/ \E i \in DOMAIN Basename(path) : Basename(path)[i] \in Keywords

\* A path as it is written.
Written(path) ==
    LET text[i \in 0 .. Len(path)] ==
            IF i = 0 THEN <<>> ELSE IF i = 1 THEN path[1] ELSE text[i - 1] \o <<"/">> \o path[i]
    IN  text[Len(path)]

BeginsWith(text, start) == Len(start) <= Len(text) /\ SubSeq(text, 1, Len(start)) = start

\* Variant: everything that begins like an allowlisted path is let through.
IsAllowedByStart(path, ignorePaths) ==
    \E ignored \in ignorePaths : BeginsWith(Written(path), ignored)

\* is_ignored, by a list of texts.
IsAllowed(path, ignorePaths) ==
    \E ignored \in ignorePaths :
        Written(path) = ignored \/ BeginsWith(Written(path), ignored \o <<"/">>)

\* scan_file_list; validate_file_list fails when it finds any.
ScanFileList(files, ignorePaths) ==
    {f \in files : ~IsAllowed(f, ignorePaths) /\ IsDangerousPath(f)}
=============================================================================
