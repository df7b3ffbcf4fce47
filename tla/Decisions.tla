------------------------------ MODULE Decisions ------------------------------
(***************************************************************************)
(* What the functions of filelist.rs, security.rs, sqlnames.rs, sql.rs,    *)
(* qc/ and config.rs promise of a single decision: of a tree and           *)
(* its rules, of a file and an allowlist, of a statement and the databases *)
(* of a config, of the text of a config file and of the queries in it, of  *)
(* the path of a script.                                                   *)
(***************************************************************************)
EXTENDS FileRules, SecurityScan, SqlRouting, DeployConfig, QcTokens

VARIABLE input    \* what is decided upon: a record whose "kind" says what it is

-----------------------------------------------------------------------------
(* Files *)

(* What ships is what the rules say of whole paths, though the walk decides   *)
(* directory by directory: a file an include rule names, itself or through a  *)
(* directory, with nothing excluded from there on, and no other.  In          *)
(* particular no directory is left out that leads to a file a rule names.     *)
ShipsWhatIsNamed ==
    input.kind = "walk" =>
        LET tree == input.tree
            rules == input.rules
        IN  \A p \in tree.files : Plain(p) => (p \in FileList(tree, rules) <=> Named(rules, p))

(* A deploy that goes ahead lost nothing behind a symlink that a rule names   *)
(* letter by letter, unless another rule excludes the link.                   *)
NothingNamedIsBehindALink ==
    input.kind = "walk" /\ ~Refuses(input.tree, input.rules) =>
        \A l \in input.tree.links, r \in input.rules :
            r.type = "include" /\ Literal(r.pattern) /\ l \in SelfAndParents(r.pattern) =>
                AnyMatches(input.rules, Excluding, l)

(* What a rule names ships, or the deploy is refused.                         *)
NothingNamedIsLost == ShipsWhatIsNamed /\ NothingNamedIsBehindALink

(* The allowlist lets through the path it names and what is below it, and no  *)
(* file that only begins like it.                                             *)
AllowlistIsNarrow ==
    input.kind = "scan" /\ IsDangerousPath(input.file) =>
        \/ ScanFileList({input.file}, {input.ignored}) = {input.file}
        \/ \E p \in SelfAndParents(input.file) : Written(p) = input.ignored

-----------------------------------------------------------------------------
(* Statements *)

\* Places where the tokenizer goes on in s, from its beginning to its last symbol.
Stops(s, stops) ==
    /\ stops \subseteq 1 .. Len(s) /\ 1 \in stops
    /\ \A i \in stops : i < Len(s) => Onward(s, i) \in stops

\* Text that a comment may follow: it does not end within a string or a comment,
\* so that the tokenizer comes to the blank behind it.
StandsFree(before) ==
    LET text == before \o <<Blank>>
    IN  \E stops \in SUBSET (1 .. Len(text)) : Stops(text, stops)

\* A whole comment, and nothing after it.
IsComment(comment) ==
    LET text == comment \o <<Blank>>
    IN  \/ OpensLine(text, 1) /\ LineEnd(text, 1) = Len(comment)
        \/ OpensBlock(text, 1) /\ BlockEnd(text, 1) = Len(comment) + 1

(* A comment, wherever it is and whatever keywords and quotes are in it, does *)
(* not change the tables a statement is routed by, nor whether it is a query. *)
CommentsDoNotRoute ==
    input.kind = "comment" =>
        LET with == input.before \o <<Blank>> \o input.comment \o <<Blank>> \o input.after
            bare == input.before \o <<Blank>> \o input.after
        IN  TableNames(with) = TableNames(bare) /\ IsQuery(with) = IsQuery(bare)

(* A statement that names no database runs on the only configured file that   *)
(* has its tables, and, if an agent sends it, on no file marked blocked,      *)
(* under whatever path and however often the config lists it.                 *)
CallsAreRoutedSafely ==
    input.kind = "call" =>
        \E opened \in {ExecutedOn(input.call, input.dbs, input.files)} :
            /\ RunsOnTheOne(input.call, input.dbs, input.files, opened)
            /\ AgentSparesBlocked(input.call, input.dbs, opened)

(* A statement runs on the file its tables are in, or on none.                *)
RoutingIsSafe == CommentsDoNotRoute /\ CallsAreRoutedSafely

-----------------------------------------------------------------------------
(* Texts *)

\* An escape hides a character of its own line.
EscapesInLine(text) ==
    \A i \in DOMAIN text :
        text[i] = Escape => i < Len(text) /\ text[i + 1] # Newline

\* Line breaks before a position, where its line starts, and the spaces the line
\* begins with.
LineOf(text, i) == 1 + Cardinality({j \in 1 .. i - 1 : text[j] = Newline})
StartsLine(text, j, i) ==
    (j = 1 \/ text[j - 1] = Newline) /\ \A k \in j .. i - 1 : text[k] # Newline
LineStart(text, i) == CHOOSE j \in 1 .. i : StartsLine(text, j, i)
Indented(text, start) == FirstFrom(text, start, {j \in DOMAIN text : text[j] # Blank}) - start
IndentOf(text, i) == Indented(text, LineStart(text, i))

\* Tokens follow on each other, on the lines and with the indentation of the text.
Tiles(text, toks) ==
    \A i \in DOMAIN toks :
        /\ toks[i].start = IF i = 1 THEN 1 ELSE toks[i - 1].stop
        /\ toks[i].start < toks[i].stop
        /\ toks[i].line = LineOf(text, toks[i].start)
        /\ (/\ toks[i].tok \notin {"Space", "Newline"}
            /\ \A j \in 1 .. i - 1 : toks[j].tok # "QuotedString")
              => toks[i].indent = IndentOf(text, toks[i].start)

(* The lexer loses no character and mistakes no place: tokens follow on each  *)
(* other from the first to the last character, and each knows its line, and   *)
(* how far that line is indented, which decides to which block it belongs;    *)
(* the indentation only up to the first quoted string.                        *)
TokensTileTheText ==
    input.kind = "lex" =>
        LET toks == Lex(input.text)
        IN  /\ Tiles(input.text, toks)
            /\ input.text # <<>> => toks # <<>> /\ toks[Len(toks)].stop = Len(input.text) + 1

\* A text between quotes, with those in it escaped.
Quoted(text, quote) ==
    LET from[i \in 1 .. Len(text) + 1] ==
            IF i > Len(text) THEN <<quote>>
            ELSE IF text[i] = quote THEN <<Escape, quote>> \o from[i + 1]
            ELSE <<text[i]>> \o from[i + 1]
    IN  <<quote>> \o from[1]

(* Whatever is written between quotes, its own quotes escaped, is one token   *)
(* and is read back as it was.                                                *)
QuotingIsInert ==
    input.kind = "quote" =>
        \A quote \in Quotes :
            LET text == Quoted(input.text, quote)
                toks == Lex(text)
            IN  Len(toks) = 1 /\ UnquotedText(text, toks[1]) = input.text

(* The lexer keeps what is written and where it was.                          *)
LexerKeepsTheText == TokensTileTheText /\ QuotingIsInert

(* The parser glues attributes and values from tokens.  Unless it begins with *)
(* a quoted string, what it glues is a piece of the text, letter by letter,   *)
(* and it goes on for as long as tokens follow that may belong to it.         *)
GluedAsWritten ==
    input.kind = "lex" =>
        LET lexed == Lex(input.text)
            toks  == Tokens(input.text)
        IN  \A p \in DOMAIN lexed, kinds \in {AttrParts, ValueParts} :
                LET glued == Glued(toks, p, kinds)
                IN  lexed[p].tok # "QuotedString" =>
                        /\ glued.pos \in p + 1 .. Len(lexed) + 1
                        /\ glued.text = SubSeq(input.text, lexed[p].start, lexed[glued.pos - 1].stop - 1)
                        /\ Tok(toks, glued.pos) \notin kinds

-----------------------------------------------------------------------------
(* Settings *)

(* The client, which decides what to upload and how to report it, and the     *)
(* server, which decides where it goes, read the same settings out of one     *)
(* file, in however many blocks and however often they are set.               *)
SidesAgree ==
    input.kind = "agree" =>
        LET sent    == ClientSettings(input.queries)
            created == CreateSettings(input.queries)
            active  == ActivationConfig(input.queries)
        IN  /\ sent.inPlace = created.inPlace
            /\ sent.webStaticDir = created.webStaticDir
            /\ sent.candle = active.candle
            /\ sent.project # NoText => sent.project = active.project

-----------------------------------------------------------------------------
(* Scripts *)

(* A script is known by the segments of its path, however the config and the  *)
(* caller spell it; and the server, which normalizes once more what the       *)
(* client has normalized, reads the same path or, if it now begins with `~`,  *)
(* refuses it.                                                                *)
ScriptsMatchBySegments ==
    input.kind = "script" =>
        LET listed == NormalizeScriptPath(input.text)
            sent   == NormalizeScriptPath(input.asked)
        IN  listed # Refused /\ sent # Refused =>
                /\ sent = listed <=> Significant(Split(input.asked)) = Significant(Split(input.text))
                /\ NormalizeScriptPath(sent) = IF sent[1] = "~" THEN Refused ELSE sent
=============================================================================
