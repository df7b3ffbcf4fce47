---------------------------- MODULE DeployConfig ---------------------------
(***************************************************************************)
(* What the server and the client read out of a config file (config.rs,    *)
(* and parse_rules_file of filelist.rs).  Operators take the parsed        *)
(* queries.  NoText is an absent setting; Refused is an error.             *)
(***************************************************************************)
EXTENDS QcLexer, QcQuery

CONSTANTS Millis,           \* the duration units and their milliseconds
          MaxInt,           \* the largest number the code's integers hold
          OriginalText(_)   \* to_original_string of a tag

ASSUME ConfigAssumption == MaxInt \in Nat /\ \A u \in DOMAIN Millis : Millis[u] \in Nat \ {0}

Refused == <<"refused">>

Blocks(queries, command) == SelectSeq(queries, LAMBDA q : q.command = <<command>>)

\* Where the deploy-settings blocks are that have a setting.
Settings(queries, attr) ==
    {i \in DOMAIN queries :
        queries[i].command = <<"deploy-settings">> /\ HasAttr(queries[i], <<attr>>)}

\* The value at the last of these places.
LastValue(queries, places, attr, none) ==
    IF places = {} THEN none
    ELSE StringValue(queries[CHOOSE i \in places : \A j \in places : j <= i], <<attr>>)

HasSetting(queries, attr) == Settings(queries, attr) # {}
Setting(queries, attr) == LastValue(queries, Settings(queries, attr), attr, NoText)

\* The tags of all blocks of a command, in order.
TagsOf(queries, command) ==
    FlattenSeq([i \in DOMAIN Blocks(queries, command) |-> Blocks(queries, command)[i].tags])

\* The hooks of a block: tags of these names, with what is in their parentheses.
Hooks(queries, command, names) ==
    LET hooks == SelectSeq(TagsOf(queries, command),
                           LAMBDA t : t.attr \in names /\ OriginalText(t) # <<>>)
    IN  [i \in DOMAIN hooks |-> [kind |-> hooks[i].attr[1], text |-> OriginalText(hooks[i])]]

\* parse_activation_config: a project name without a value changes nothing.
ActivationConfig(queries) ==
    LET named == {i \in Settings(queries, "project-name") :
                     StringValue(queries[i], <<"project-name">>) # NoText}
    IN  [ project |-> LastValue(queries, named, "project-name", <<>>),
          candle  |-> Setting(queries, "candle-config"),
          actions |-> Hooks(queries, "after-deploy", {<<"shell">>, <<"candle-restart">>}) ]

Number(digits) ==
    LET value[i \in 0 .. Len(digits)] ==
            IF i = 0 THEN 0
            ELSE 10 * value[i - 1] + (CHOOSE n \in 0 .. 9 : ToString(n) = digits[i])
    IN  value[Len(digits)]

IsNumber(text) ==
    /\ text # <<>>
    /\ \A i \in DOMAIN text : text[i] \in Digits
    /\ Number(text) <= MaxInt

\* One dynamic-route query.
Route(q) ==
    LET source == StringValue(q, <<"metadata-source">>)
        ttl    == StringValue(q, <<"metadata-cache-ttl">>)
    IN  [ pattern |-> StringValue(q, <<"from">>), file |-> StringValue(q, <<"to">>),
          source  |-> IF source = <<>> THEN NoText ELSE source,
          ttl     |-> IF IsNumber(ttl) THEN Number(ttl) ELSE 0 ]    \* 0: none

\* Variant: a setting without parentheses is looked for among the values.
CreateSettingsByValue(queries) ==
    [ webStaticDir |-> Setting(queries, "web-static-dir"),
      inPlace      |-> Setting(queries, "update-in-place") # NoText,
      routes       |-> <<>> ]

\* parse_create_settings
CreateSettings(queries) ==
    LET whole(q) == \A a \in {"from", "to"} : StringValue(q, <<a>>) \notin {NoText, <<>>}
        routes == SelectSeq(Blocks(queries, "dynamic-route"), whole)
    IN  [ webStaticDir |-> Setting(queries, "web-static-dir"),
          inPlace      |-> HasSetting(queries, "update-in-place"),
          routes       |-> [i \in DOMAIN routes |-> Route(routes[i])] ]

\* parse_deploy_database_configs: a query that is kept has tags.
Databases(queries) ==
    LET named == SelectSeq(Blocks(queries, "database"), LAMBDA q : q.tags[1].attr # <<>>)
    IN  [i \in DOMAIN named |->
            [ path |-> named[i].tags[1].attr,
              blocked |-> HasAttr(named[i], <<"agent-sql-access-blocked">>) ]]

-----------------------------------------------------------------------------
(* Paths and patterns *)

\* The segments between slashes, empty ones included.
Split(text) ==
    LET from[i \in 1 .. Len(text) + 1] ==
            IF i > Len(text) THEN <<<<>>>>
            ELSE IF text[i] = "/" THEN <<<<>>>> \o from[i + 1]
            ELSE <<<<text[i]>> \o Head(from[i + 1])>> \o Tail(from[i + 1])
    IN  from[1]

Up == <<".", ".">>

Forbidden == {"\t", "\n", Escape}    \* in the path of a script

\* Of these segments, those that lead to another place.
Significant(segments) ==
    LET from[i \in 1 .. Len(segments) + 1] ==
            IF i > Len(segments) THEN <<>>
            ELSE IF segments[i] \in {<<>>, <<".">>} THEN from[i + 1]
            ELSE <<segments[i]>> \o from[i + 1]
    IN  from[1]

\* Variant: a `..` that folds back inside is let through.
NormalizeScriptPathFolding(text) ==
    LET kept == Significant(Split(text))
    IN  IF \/ text = <<>>
           \/ \E i \in DOMAIN text : text[i] \in Forbidden
           \/ text[1] \in {"/", "~"} \/ kept = <<>> \/ kept[1] = Up
        THEN Refused ELSE Joined(kept, <<"/">>)

\* normalize_script_path
NormalizeScriptPath(text) ==
    LET kept == Significant(Split(text))
    IN  IF \/ text = <<>>
           \/ \E i \in DOMAIN text : text[i] \in Forbidden
           \/ text[1] \in {"/", "~"}
           \/ kept = <<>>
           \/ \E i \in DOMAIN kept : kept[i] = Up
        THEN Refused ELSE Joined(kept, <<"/">>)

\* parse_allowed_server_side_scripts: one bad entry refuses the list.
AllowedScripts(queries) ==
    LET tags  == TagsOf(queries, "allowed-server-side-scripts")
        paths == {NormalizeScriptPath(OriginalText(tags[i])) : i \in DOMAIN tags}
    IN  IF Refused \in paths THEN {Refused} ELSE paths

-----------------------------------------------------------------------------
\* What a product becomes in an integer of the code's width.
Wrapped(n) ==
    LET m == n % (2 * (MaxInt + 1))
    IN  IF m > MaxInt THEN m - 2 * (MaxInt + 1) ELSE m

\* trim
Trimmed(text) ==
    LET kept == {i \in DOMAIN text : text[i] \notin {" ", "\t", "\n"}}
    IN  IF kept = {} THEN <<>> ELSE SubSeq(text, Min(kept), Max(kept))

\* parse_duration: `7d`, or `7 d`.
Duration(text) ==
    LET whole  == Trimmed(text)
        digits == Trimmed(Front(whole))
    IN  IF /\ whole # <<>>
           /\ Last(whole) \in DOMAIN Millis
           /\ IsNumber(digits)
        THEN {Wrapped(Number(digits) * Millis[Last(whole)])}
        ELSE {}

\* parse_preserve_config.  An age that is not given is not there; the last counts.
PreserveConfig(queries) ==
    LET patterns == Blocks(queries, "preserve-existing-files")
        ages     == Blocks(queries, "preserve-existing-files-max-age")
        bad(q)   == JoinedTagAttrs(q) = <<>>
    IN  IF \/ \E i \in DOMAIN patterns : bad(patterns[i])
           \/ \E i \in DOMAIN ages : bad(ages[i]) \/ Duration(JoinedTagAttrs(ages[i])) = {}
        THEN Refused
        ELSE [ patterns |-> {Split(JoinedTagAttrs(patterns[i])) : i \in DOMAIN patterns},
               maxAge   |-> IF ages = <<>> THEN {} ELSE Duration(JoinedTagAttrs(Last(ages))) ]

\* parse_rules_file.  An unknown command is skipped, but not without a pattern.
ParseRules(queries) ==
    LET kinds == {<<"include">>, <<"exclude">>, <<"ignore">>, <<"ignore-destination">>}
        rules == SelectSeq(queries, LAMBDA q : q.command \in kinds)
    IN  IF \E i \in DOMAIN queries : JoinedTagAttrs(queries[i]) = <<>>
        THEN Refused
        ELSE {[ type |-> rules[i].command[1],
                pattern |-> Split(JoinedTagAttrs(rules[i])) ] : i \in DOMAIN rules}

-----------------------------------------------------------------------------
\* parse_client_settings and read_deploy_settings.
ClientSettings(queries) ==
    [ project      |-> Setting(queries, "project-name"),
      dest         |-> Setting(queries, "dest-url"),
      localRoot    |-> Setting(queries, "local-root"),
      localDir     |-> Setting(queries, "local-dir"),
      secretsFile  |-> Setting(queries, "secrets-file"),
      webStaticDir |-> Setting(queries, "web-static-dir"),
      candle       |-> Setting(queries, "candle-config"),
      inPlace      |-> HasSetting(queries, "update-in-place"),
      trackCommit  |-> HasSetting(queries, "track-git-commit"),
      allowDirty   |-> HasSetting(queries, "allow-dirty-git-tree"),
      unscanned    |-> LET hooks == Hooks(queries, "deploy-settings", {<<"ignore-security-scan">>})
                       IN  {hooks[i].text : i \in DOMAIN hooks},
      before       |-> Hooks(queries, "before-deploy", {<<"shell">>}) ]

\* absolutize: `..` at the root stays there.
Absolute(path, cwd) ==
    LET step(out, s) ==
            CASE s \in {<<>>, <<".">>} -> out
              [] s = Up -> IF out = <<>> THEN out ELSE Front(out)
              [] OTHER -> Append(out, s)
    IN  FoldLeft(step, <<>>, IF path # <<>> /\ path[1] = <<>> THEN path ELSE cwd \o path)

\* resolve_local_root, without an override: a directory below cwd.  Directories
\* are lists of segments; a first segment that is empty makes one absolute.
LocalRoot(configDir, settings, cwd) ==
    LET setting == settings.localRoot
        under   == IF setting \in {NoText, <<>>} THEN configDir
                   ELSE IF setting[1] = "/" THEN Split(setting)
                   ELSE configDir \o Split(setting)
        root    == Absolute(under, cwd)
    IN  IF settings.localDir # NoText \/ ~IsPrefix(cwd, root) THEN Refused ELSE root
=============================================================================
