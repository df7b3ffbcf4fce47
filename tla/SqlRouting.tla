----------------------------- MODULE SqlRouting -----------------------------
(***************************************************************************)
(* Which database file a statement runs on (sqlnames.rs, sql.rs and        *)
(* sql_methods.rs).  A statement is a sequence of symbols, where a word    *)
(* stands for a run of letters; a database's path is relative to the       *)
(* active deployment's directory, TargetDir.                               *)
(***************************************************************************)
EXTENDS DeploymentPaths, FiniteSets, SequencesExt

CONSTANTS SqlWords,      \* symbols that are letters, or runs of letters
          SqlDigits,     \* digits
          LowerCase      \* words that have capitals, and what they are in lower case

ASSUME SqlAssumption ==
    (SqlWords \cup SqlDigits) \cap {" ", "\n", "\t", "'", "\"", "\\", "#", "-", "/", "*"} = {}

\* Least of the places from i on, or the one after the end.
FirstFrom(text, i, places) ==
    IF i > Len(text) THEN i
    ELSE CHOOSE j \in i .. Len(text) + 1 :
             (j > Len(text) \/ j \in places) /\ \A k \in i .. j - 1 : k \notin places

Pair(text, i, a, b) == i < Len(text) /\ text[i] = a /\ text[i + 1] = b

LineEnd(sql, i) == FirstFrom(sql, i, {j \in DOMAIN sql : sql[j] = "\n"})

BlockEnd(sql, i) == 2 + FirstFrom(sql, i + 2, {j \in DOMAIN sql : Pair(sql, j, "*", "/")})

\* is_ident_continue
WordEnd(sql, i) ==
    FirstFrom(sql, i, {j \in DOMAIN sql : sql[j] \notin SqlWords \cup SqlDigits \cup {"-"}})

\* A backslash takes the next character with it.
StringEnd(sql, i) ==
    LET end[j \in i .. Len(sql) + 2] ==
            IF j > Len(sql) THEN j
            ELSE IF sql[j] = sql[i] THEN j
            ELSE IF sql[j] = "\\" THEN end[j + 2] ELSE end[j + 1]
    IN  1 + end[i + 1]

Lower(word) ==
    [i \in DOMAIN word |-> IF word[i] \in DOMAIN LowerCase THEN LowerCase[word[i]] ELSE word[i]]

Other == <<>>    \* a token that is no identifier

IsSpace(sql, i)     == sql[i] \in {" ", "\n", "\t"}
OpensLine(sql, i)   == Pair(sql, i, "-", "-") \/ sql[i] = "#" \/ Pair(sql, i, "/", "/")
OpensBlock(sql, i)  == Pair(sql, i, "/", "*")
OpensString(sql, i) == sql[i] \in {"'", "\""}    \* or a backquote, which no TLA+ string holds

\* The loop of tokenize: where it goes on after what begins at i...
Onward(sql, i) ==
    IF IsSpace(sql, i) THEN i + 1
    ELSE IF OpensLine(sql, i) THEN LineEnd(sql, i)
    ELSE IF OpensBlock(sql, i) THEN BlockEnd(sql, i)
    ELSE IF OpensString(sql, i) THEN StringEnd(sql, i)
    ELSE IF sql[i] \in SqlWords THEN WordEnd(sql, i)
    ELSE i + 1

\* ... and the token it pushes: an identifier, in lower case, Other or none.
Pushed(sql, i) ==
    IF IsSpace(sql, i) \/ OpensLine(sql, i) \/ OpensBlock(sql, i) THEN <<>>
    ELSE IF sql[i] \in SqlWords THEN <<Lower(SubSeq(sql, i, WordEnd(sql, i) - 1))>>
    ELSE <<Other>>

\* tokenize
SqlTokens(sql) ==
    LET tokens[i \in 1 .. Len(sql) + 3] ==
            IF i > Len(sql) THEN <<>> ELSE Pushed(sql, i) \o tokens[Onward(sql, i)]
    IN  tokens[1]

TablePrecedingKeywords == {<<"from">>, <<"join">>, <<"into">>, <<"update">>, <<"table">>}

SqlKeywords == {<<w>> : w \in {
    "select", "from", "where", "join", "inner", "outer", "left", "right", "cross", "full",
    "on", "as", "and", "or", "not", "in", "is", "null", "like", "between", "case", "when",
    "then", "else", "end", "having", "group", "by", "order", "limit", "offset", "distinct",
    "all", "exists", "set", "values", "returning", "with", "recursive", "insert", "delete",
    "create", "drop", "alter", "if", "replace", "ignore", "rollback", "abort", "fail",
    "union", "intersect", "except"}}

\* What follows the keywords, past `if not exists`.
NamesIn(toks) ==
    LET past(i, word) == IF i <= Len(toks) /\ toks[i] = word THEN i + 1 ELSE i
        name(i) == IF i <= Len(toks) /\ toks[i] = <<"if">>
                   THEN past(past(i + 1, <<"not">>), <<"exists">>) ELSE i
        names[i \in 1 .. Len(toks) + 4] ==
            IF i > Len(toks) THEN {}
            ELSE IF toks[i] \notin TablePrecedingKeywords THEN names[i + 1]
            ELSE LET j == name(i + 1)
                 IN  IF j <= Len(toks) /\ toks[j] # Other
                     THEN ({toks[j]} \ SqlKeywords) \cup names[j + 1]
                     ELSE names[j]
    IN  names[1]

\* parse_sql_table_names
TableNames(sql) == NamesIn(SqlTokens(sql))

\* is_query_statement
IsQuery(sql) ==
    \E word \in {<<"select">>, <<"with">>, <<"explain">>, <<"values">>} :
        IsPrefix(<<word>>, SqlTokens(sql))

-----------------------------------------------------------------------------
NoTarget == <<"none">>
Unnamed  == <<"unnamed">>    \* the caller names no database

\* get_safe_path_in_dir
Guarded(file)  == IF Inside(file) THEN file ELSE NoTarget
SafePath(path) == Guarded(FoldLeft(Push, <<>>, JoinedPath(TargetDir, path)))

\* get_table_names_in_db; a file that is missing is an empty database.
Tables(files, path) == UNION {files[f] : f \in DOMAIN files \cap {SafePath(path)}}

\* Databases of the config that hold all these tables.
Holders(dbs, files, names) ==
    {i \in DOMAIN dbs : SafePath(dbs[i].path) # NoTarget /\ names \subseteq Tables(files, dbs[i].path)}

\* Variant: of several databases the first is taken.
TheOneOrFirst(dbs, matches) ==
    IF matches = {} THEN NoTarget
    ELSE dbs[CHOOSE i \in matches : \A j \in matches : i <= j].path

TheOne(dbs, matches) ==
    IF Cardinality(matches) # 1 THEN NoTarget ELSE dbs[CHOOSE i \in matches : TRUE].path

\* find_database_for_tables: none or several is an error.
FindDatabase(dbs, files, names) == TheOne(dbs, Holders(dbs, files, names))

RoutedBy(dbs, files, names) ==
    IF names = {} THEN NoTarget ELSE FindDatabase(dbs, files, names)

\* execute_sql: the database as the config or the caller writes it.
TargetRelPath(call, dbs, files) ==
    CASE dbs = <<>> -> NoTarget
      [] dbs # <<>> /\ call.database # Unnamed -> call.database
      [] call.database = Unnamed /\ Len(dbs) = 1 -> dbs[1].path
      [] call.database = Unnamed /\ Len(dbs) > 1 ->
           RoutedBy(dbs, files, TableNames(call.sql))

\* The first entry of that path decides.
Blocked(dbs, path) ==
    \E i \in DOMAIN dbs : /\ dbs[i].path = path /\ dbs[i].blocked
                          /\ \A j \in 1 .. i - 1 : dbs[j].path # path

Opened(call, dbs, target) ==
    IF target = NoTarget \/ (call.agent /\ Blocked(dbs, target)) THEN NoTarget
    ELSE SafePath(target)

\* The file a statement runs on, if it does.
ExecutedOn(call, dbs, files) == Opened(call, dbs, TargetRelPath(call, dbs, files))

\* list_databases
ListDatabases(dbs, files) ==
    [i \in DOMAIN dbs |-> [ path |-> dbs[i].path, absolutePath |-> SafePath(dbs[i].path),
                            tables |-> Tables(files, dbs[i].path) ]]

-----------------------------------------------------------------------------
(* What routing promises *)

\* A statement that names no database runs on the only file that holds its
\* tables; if there are several, nothing runs.
RunsOnTheOne(call, dbs, files, file) ==
    call.database = Unnamed /\ file # NoTarget /\ Len(dbs) > 1 =>
        \A i \in Holders(dbs, files, TableNames(call.sql)) : SafePath(dbs[i].path) = file

\* An agent's statement that names no database spares every blocked file, under
\* whatever path the config lists it, and however often.
AgentSparesBlocked(call, dbs, file) ==
    call.agent /\ call.database = Unnamed /\ file # NoTarget =>
        \A i \in DOMAIN dbs : dbs[i].blocked => SafePath(dbs[i].path) # file
=============================================================================
