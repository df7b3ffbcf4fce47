--------------------------- MODULE MCConfigAndFiles ---------------------------
(***************************************************************************)
(* Config files, file rules, paths, parts and statements on small inputs.  *)
(* Every initial state is one input: a text, a tree with rules, a          *)
(* statement; or the start of one of the machines of PathGuard,            *)
(* MirroredDirectory and MultipartUpload.                                  *)
(***************************************************************************)
EXTENDS QcParser, QcRendering, PathGuard, MirroredDirectory, MultipartUpload, Decisions

Strings(alphabet, n) == UNION {[1 .. k -> alphabet] : k \in 0 .. n}
Line(words) == Joined(words, <<" ">>)
Nl == <<"\n">>

\* The operating state of the machines that are not looked at.
GuardAtRest  == relPath = <<>> /\ rest = <<>> /\ out = <<>> /\ verdict = "open"
PartsAtRest  == PartsInit /\ file = Absent

-----------------------------------------------------------------------------
(* Constants *)

MCWords  == {"a", "b", "d", "m", "s", "w", "x", "y", "include", "exclude", "ignore",
             "ignore-destination", "preserve-existing-files", "preserve-existing-files-max-age",
             "allowed-server-side-scripts", "local-root", "deploy-settings", "after-deploy", "shell", "project-name",
             "update-in-place", "web-static-dir", "candle-config", "-a"}
MCDigits == {"0", "1", "9"}
MCMillis == [d |-> 4, m |-> 1]

MCNames   == {"a", "b"}
MCTarget  == <<"/", "a", "b">>
MCRelPaths ==
    LET parts == MCNames \cup {".", ".."}
    IN  Strings(parts, 4) \cup {<<"/">> \o s : s \in Strings(parts, 4)}

Rule(type, pattern) == [type |-> type, pattern |-> pattern]
Seg(s)     == <<s>>
Path1(s)   == <<Seg(s)>>
Path2(s, t) == <<Seg(s), Seg(t)>>
Path3(s, t, u) == <<Seg(s), Seg(t), Seg(u)>>
Files(s)   == [files |-> s, links |-> {}]
Globs      == <<"*", "*">>

\* Hashed assets that outlive two deploys, and data the programs write; a deploy
\* whose preserve age does not fit its integer; and one that preserves nothing.
\* The config files they come from are WrittenDeploys.
MCDeploys == {
    [ tree  |-> Files({Path2("a", "x"), Path1("b")}),
      rules |-> {Rule("include", Path1("a")), Rule("include", Path1("b")), Rule("ignore", Path1("d"))},
      preserve |-> [patterns |-> {Path2("a", "*")}, maxAge |-> {1}] ],
    [ tree  |-> Files({Path2("a", "y"), Path2("d", "s")}),
      rules |-> {Rule("include", Path1("a")), Rule("ignore-destination", Path1("d"))},
      preserve |-> [patterns |-> {Path1("a")}, maxAge |-> {-28}] ],
    [ tree  |-> Files({Path2("a", "x"), Path1("b")}),
      rules |-> {Rule("include", Path1("*")), Rule("exclude", Path1("b"))},
      preserve |-> [patterns |-> {}, maxAge |-> {}] ] }

MCServerFiles == {Path2("d", "s"), Path2("a", "y")}

MCSqlWords  == {"a", "b", "A", "from", "join", "if", "x"}
MCLowerCase == [w \in {"A"} |-> "a"]

MCDisallowed == {<<".", "env">>}
MCInfix      == <<".", "env", ".">>
MCEndings   == {<<".", "key">>}
MCTop        == {<<".", "git">>}
MCKeywords   == {"secret"}

-----------------------------------------------------------------------------
(* Inputs *)

\* Texts with quotes, line breaks and indentation.
LexInputs == {[kind |-> "lex", text |-> t] :
                 t \in {u \in Strings({"a", "1", " ", "\n", "'", "\\", "(", "="}, 4) : EscapesInLine(u)}}

QuoteInputs == {[kind |-> "quote", text |-> t] :
                   t \in Strings({"a", "'", "\"", " ", "\n", "("}, 4)}

\* Blocks of a command and one or two arguments, on a line or on lines below.
Arguments == {<<"a">>, <<"a", "=", "b">>, <<"a", "(", "b", " ", "a", ")">>, <<"a", "/", "*">>,
              <<"'", " ", "'">>}
Below(argument) == Nl \o <<" ", " ">> \o argument
Block(arguments, layout) ==
    <<"include">> \o FlattenSeq([i \in DOMAIN arguments |->
        CASE layout[i] = "inline"  -> <<" ">> \o arguments[i]
          [] layout[i] = "below"   -> Below(arguments[i])
          [] layout[i] = "comment" -> Nl \o <<" ", "#", "a">> \o Nl \o Below(arguments[i])])
Arglists == {<<a>> : a \in Arguments} \cup {<<a, b>> : a, b \in Arguments}
Layouts(n) == [1 .. n -> {"inline", "below", "comment"}]
Shapes == UNION {{[arguments |-> l, layout |-> y] : y \in Layouts(Len(l))} : l \in Arglists}

BlockInputs == {[kind |-> "blocks", one |-> s, two |-> t] :
                   s \in Shapes, t \in {u \in Shapes : Len(u.arguments) = 1}}

PatternInputs == {[kind |-> "pattern", text |-> t] :
                     t \in {p \in Strings({"a", "*", "/", ".", "1"}, 4) :
                               p # <<>> /\ p[1] # "/"}}

ValueInputs == {[kind |-> "value", text |-> <<"w">> \o t] :
                   t \in Strings({"w", ".", "/", ":", "1"}, 4)}

SettingLines == {<<"project-name", "=", "a">>, <<"project-name", "=", "b">>, <<"update-in-place">>,
                 <<"update-in-place", "=", "a">>, <<"web-static-dir", "=", "a">>,
                 <<"web-static-dir", "=", "b", "/", "1">>, <<"candle-config", "=", "a">>}
Settings2 == {<<s>> : s \in SettingLines} \cup {<<s, t>> : s, t \in SettingLines}
SettingsText(lines) ==
    <<"deploy-settings">> \o FlattenSeq([i \in DOMAIN lines |-> Below(lines[i])])
AgreeInputs == {[kind |-> "agree", queries |-> ParseFile(SettingsText(s) \o Nl \o SettingsText(t))] :
                   s \in Settings2, t \in {u \in Settings2 : Len(u) = 1}}

ScriptInputs ==
    {[kind |-> "script", text |-> t, asked |-> t] : t \in Strings({"a", ".", "/"}, 7)}
    \cup {[kind |-> "script", text |-> t, asked |-> u] :
             t \in Strings({"a", ".", "/", "~"}, 4), u \in Strings({"a", ".", "/", "~"}, 3)}

HookInputs == {[kind |-> "hook", text |-> t] :
                  t \in {<<"a">>, <<"a", " ", "b", ".", "w">>, <<"a", " ", "b", ":", "w">>}}

Tree(links) ==
    [ files |-> {Path1("x"), Path2("d", "x"), Path2("d", "y"), Path3("d", "e", "x"),
                 <<Seg("d"), <<".", "h">>>>, <<<<".", "h">>, Seg("x")>>},
      links |-> links ]
Patterns == {Path1("d"), Path2("d", "x"), Path1("x"), Path1("*"), Path2("d", "*"), <<Globs>>,
             <<Seg("d"), Globs>>, <<Globs, Seg("x")>>, Path2("*", "x"), <<<<".", "h">>>>,
             Path2("d", "e"), Path1("l"), Path2("l", "x"), Path3("d", "l", "x")}
WalkInputs ==
    {[ kind |-> "walk", tree |-> Tree(links),
       rules |-> {Rule("include", p), Rule("include", q), Rule(t, r)} ] :
        links \in {{}, {Path1("l"), Path2("d", "l")}},
        p \in Patterns, q \in {<<Globs>>, Path1("d"), Path2("l", "x")},
        t \in {"exclude", "ignore"}, r \in Patterns}

Statements == Strings({<<"from">>, <<"join">>, <<"if">>, <<"a">>, <<"b">>}, 4)
Comments   == {<<"-", "-", " ", "from", " ", "x", "\n">>, <<"#", "from", " ", "x", "\n">>,
               <<"/", "/", "from", "'", "\n">>, <<"/", "*", " ", "from", " ", "x", " ", "*", "/">>}
Phrases    == {Line(u) : u \in {v \in Statements : Len(v) <= 2}}
              \cup {<<"'", "x", "'", " ", "from">>, <<"-", "-", "a">>, <<"'", "\\", "'">>}
CommentInputs == {[kind |-> "comment", before |-> s, after |-> t, comment |-> c] :
                     s \in {u \in Phrases : StandsFree(u)}, c \in {u \in Comments : IsComment(u)}, t \in Phrases}

DbPaths == {<<"a">>, <<".", "a">>, <<"b">>, <<"..", "x">>}
Entry   == [path : DbPaths, blocked : BOOLEAN]
CallInputs ==
    {[ kind |-> "call", dbs |-> dbs,
       files |-> [f \in {MCTarget \o <<n>> : n \in MCNames} |->
                     IF f = MCTarget \o <<"a">> THEN ta ELSE tb],
       call  |-> [agent |-> agent, database |-> d, sql |-> sql] ] :
        dbs \in {<<>>} \cup {<<e>> : e \in Entry} \cup {<<e, f>> : e, f \in Entry},
        ta \in SUBSET {<<"a">>, <<"b">>}, tb \in {{}, {<<"a">>}},
        agent \in BOOLEAN, d \in {Unnamed, <<"a">>},
        sql \in {Line(<<<<"from">>, <<"A">>>>), Line(<<<<"from">>, <<"a">>, <<"join">>, <<"b">>>>)}}

ScanPaths == {<<s>> \o t : s \in {<<"a">>, <<"a", "1">>, <<".", "git">>},
                           t \in {<<<<".", "env">>>>, <<<<"b", ".", "key">>>>, <<<<"secret">>>>}}
             \cup {<<<<".", "env">>>>, <<<<"a", ".", "key">>>>}
ScanInputs == {[kind |-> "scan", file |-> f, ignored |-> p] :
                  f \in ScanPaths,
                  p \in {<<"a">>, <<"a", "/">>, <<".", "git">>, <<"a", ".", "key">>, <<".", "env">>}}

Inputs == LexInputs \cup QuoteInputs \cup BlockInputs \cup PatternInputs \cup ValueInputs
          \cup AgreeInputs \cup ScriptInputs \cup HookInputs \cup WalkInputs \cup CommentInputs
          \cup CallInputs \cup ScanInputs \cup {[kind |-> "deploys"]}

-----------------------------------------------------------------------------
vars == <<input, guardVars, mirrorVars, partsVars>>

Init ==
    \/ input \in Inputs /\ GuardAtRest /\ MirrorInit /\ PartsAtRest
    \/ input = [kind |-> "path"] /\ GuardInit /\ MirrorInit /\ PartsAtRest
    \/ input = [kind |-> "directory"] /\ GuardAtRest /\ MirrorInit /\ PartsAtRest
    \/ input = [kind |-> "parts"] /\ GuardAtRest /\ MirrorInit /\ PartsInit

Next ==
    \/ input.kind = "path" /\ GuardNext /\ UNCHANGED <<input, mirrorVars, partsVars>>
    \/ input.kind = "directory" /\ MirrorNext /\ UNCHANGED <<input, guardVars, partsVars>>
    \/ input.kind = "parts" /\ PartsNext /\ UNCHANGED <<input, guardVars, mirrorVars>>

Spec == Init /\ [][Next]_vars

-----------------------------------------------------------------------------
(* Config files *)

(* A block ends where its lines are no longer indented, if none of them       *)
(* begins with `/`, `|`, `;` or `)`, which ends a block at once: files of two *)
(* blocks are read block by block, whatever the layout of each.               *)
BlocksAreIndependent ==
    input.kind = "blocks" =>
        LET one == Block(input.one.arguments, input.one.layout)
            two == Block(input.two.arguments, input.two.layout)
        IN  /\ ParseFile(one \o Nl \o two) = ParseFile(one) \o ParseFile(two)
            /\ Len(ParseFile(one)) = 1

(* Arguments mean the same on the command's line, below it, and below a       *)
(* comment or an empty line.                                                  *)
LayoutDoesNotMatter ==
    input.kind = "blocks" =>
        LET inline == [i \in DOMAIN input.one.layout |-> "inline"]
        IN  ParseFile(Block(input.one.arguments, input.one.layout))
                = ParseFile(Block(input.one.arguments, inline))

(* Of blank lines, comments and indentation, only indentation says where a    *)
(* block ends.                                                                *)
LayoutMakesBlocks == BlocksAreIndependent /\ LayoutDoesNotMatter

(* A rule's pattern is the one in the file, though the lexer takes it apart   *)
(* at every star, dot and slash.                                              *)
PatternsSurvive ==
    input.kind = "pattern" =>
        ParseRules(ParseFile(<<"include", " ">> \o input.text))
            = {[type |-> "include", pattern |-> Split(input.text)]}

(* A setting's value is what follows its `=`: a URL is not cut at a slash, a  *)
(* colon or a number.                                                         *)
ValuesSurvive ==
    input.kind = "value" =>
        Setting(ParseFile(SettingsText(<<<<"project-name", "=">> \o input.text>>)),
                "project-name") = input.text

Config(lines) ==
    FlattenSeq([i \in DOMAIN lines |-> <<lines[i][1], " ">> \o lines[i][2] \o <<"\n">>])
Deploy(files, queries) ==
    [tree |-> Files(files), rules |-> ParseRules(queries), preserve |-> PreserveConfig(queries)]

WrittenDeploys == {
    Deploy({Path2("a", "x"), Path1("b")}, ParseFile(Config(<<
        <<"include", <<"a">>>>, <<"include", <<"b">>>>, <<"ignore", <<"d">>>>,
        <<"preserve-existing-files", <<"a", "/", "*">>>>,
        <<"preserve-existing-files-max-age", <<"1", "m">>>> >>))),
    Deploy({Path2("a", "y"), Path2("d", "s")}, ParseFile(Config(<<
        <<"include", <<"a">>>>, <<"ignore-destination", <<"d">>>>,
        <<"preserve-existing-files", <<"a">>>>,
        <<"preserve-existing-files-max-age", <<"9", "d">>>> >>))),
    Deploy({Path2("a", "x"), Path1("b")}, ParseFile(Config(<<
        <<"include", <<"*">>>>, <<"exclude", <<"b">>>> >>))) }

(* A config file of rules, patterns and ages says what MirroredDirectory is   *)
(* given.                                                                     *)
DeploysAreWritten == input.kind = "deploys" => MCDeploys = WrittenDeploys

(* Patterns, values and whole configs arrive as they are written, though they *)
(* are glued from tokens.                                                     *)
TextsSurvive == GluedAsWritten /\ PatternsSurvive /\ ValuesSurvive /\ DeploysAreWritten

\* Components of a path as it is written.
ComponentsOf(text) ==
    LET kept == SelectSeq(Split(text), LAMBDA s : s # <<>>)
        name(s) == CASE s = <<".">> -> "." [] s = Up -> ".." [] s = <<"a">> -> "a" [] OTHER -> "b"
        parts == [i \in DOMAIN kept |-> name(kept[i])]
    IN  IF text # <<>> /\ text[1] = "/" THEN <<"/">> \o parts ELSE parts

\* The allowlist of a config that lists a path, or nothing when it is refused.
Entries(text) ==
    AllowedScripts(ParseFile(<<"allowed-server-side-scripts", " ", "'">> \o text \o <<"'">>))
        \ {Refused}

(* A listed script is a file below the deployment's directory, and the entry  *)
(* is its own normal form, unless it begins with `~`.                         *)
ListedScriptsStayInside ==
    input.kind = "script" =>
        \A entry \in Entries(input.text) :
            /\ SafePath(ComponentsOf(input.text)) # NoTarget
            /\ SafePath(ComponentsOf(input.text)) # TargetDir
            /\ entry[1] # "~" => Entries(entry) = {entry}
            /\ ComponentsOf(entry) = SelectSeq(ComponentsOf(input.text), LAMBDA c : c # ".")

(* However local-root is spelled, rules are resolved against the directory    *)
(* the path leads to if that is the one the user is in or below it, though    *)
(* the path may leave it and come back; and against no other.                 *)
LocalRootStaysBelow ==
    input.kind = "script" =>
        LET cwd      == <<<<"a">>, <<"a">>>>
            config   == <<"deploy-settings", " ", "local-root", "=", "'">> \o input.text \o <<"'">>
            root     == LocalRoot(<<<<"a">>>>, ClientSettings(ParseFile(config)), cwd)
            spelled  == ComponentsOf(input.text)
            resolved == Resolved(JoinedPath(<<"/", "a", "a", "a">>, spelled))
        IN  IF IsPrefix(<<"/", "a", "a">>, resolved)
            THEN Len(root) + 1 = Len(resolved) ELSE root = Refused

(* No path a config names leads where it must not, on either side.            *)
ConfiguredPathsStayInside ==
    ListedScriptsStayInside /\ LocalRootStaysBelow /\ ScriptsMatchBySegments

(* query.rs: "A tag written as `name(...)` renders back as just its inner     *)
(* contents", which is how the server gets the command of a hook.             *)
HookRunsAsWritten ==
    input.kind = "hook" =>
        ActivationConfig(ParseFile(<<"after-deploy", " ", "shell", "(">> \o input.text \o <<")">>)).actions
            = <<[kind |-> "shell", text |-> input.text]>>
=============================================================================
