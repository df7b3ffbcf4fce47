------------------------------ MODULE QcParser -----------------------------
(***************************************************************************)
(* The parser of config files (qc/parser.rs).  A parser takes the tokens   *)
(* and a position, and answers with what it found and where it stopped.    *)
(***************************************************************************)
EXTENDS QcTokens, QcQuery

NoQuery == [command |-> NoText, tags |-> <<>>]

-----------------------------------------------------------------------------
RECURSIVE ParseTag(_, _), ParseTags(_, _, _, _), ParseQuery(_, _, _, _)

\* What a parser answers: a tag, and where it stopped.
Parsed(p, tag) == [pos |-> p, tag |-> tag]

\* parse_tag_list_from_tokens: the query between parentheses is a list of tags,
\* the first of which keeps only its attribute.
AsTagList(toks, tag, q) ==
    Parsed(After(toks, q.pos, ")"),
           [tag EXCEPT !.value = List(
               IF q.query = NoQuery THEN <<>>
               ELSE <<NewTag(q.query.command)>> \o q.query.tags)])

ParseTagList(toks, p, tag) == AsTagList(toks, tag, ParseQuery(toks, p, TRUE, NoQuery))

\* One integer alone is a number.
TextValue(toks, p, v) ==
    IF v.pos = p + 1 /\ Tok(toks, p) = "Integer" THEN Num(v.text) ELSE Str(v.text)

TextTag(toks, p, tag, v) == Parsed(v.pos, [tag EXCEPT !.value = TextValue(toks, p, v)])

\* What follows `=` or `:`.
ParseValue(toks, p, tag) ==
    CASE Tok(toks, p) = "$" ->
           Parsed(p + 2, [tag EXCEPT !.param = Text(toks, p + 1)])
      [] Tok(toks, p) = "?" -> Parsed(p + 1, [tag EXCEPT !.valueOptional = TRUE])
      [] Tok(toks, p) = "*" -> Parsed(p + 1, [tag EXCEPT !.value.kind = "star"])
      [] Tok(toks, p) = "(" -> ParseTagList(toks, p + 1, tag)
      [] Tok(toks, p) \in {"end", ")"} -> Parsed(p, tag)
      [] OTHER -> TextTag(toks, p, tag, Glued(toks, p, ValueParts))

\* A tag of an attribute; param: it was written with a `$`.
NamedTag(attr, param, flag, optional) ==
    [NewTag(attr) EXCEPT
        !.param = IF param THEN attr ELSE NoText,
        !.flag  = flag,
        !.value.kind = IF flag THEN "bool" ELSE "none",
        !.attrOptional = optional]

\* A tag up to its value, which may be a list after a space.
ParseTagValue(toks, end, paren, tag) ==
    CASE Tok(toks, paren) = "(" -> ParseTagList(toks, paren + 1, tag)
      [] Tok(toks, paren) # "(" /\ Tok(toks, end) \in {"=", ":"} ->
           ParseValue(toks, Past(toks, end + 1, {"Space"}), tag)
      [] OTHER -> Parsed(end, tag)

\* An attribute, and what may follow it.
ParseAttr(toks, attr, param, flag) ==
    LET end == After(toks, attr.pos, "?")
    IN  ParseTagValue(toks, end, After(toks, end, "Space"),
            NamedTag(attr.text, param, flag, Tok(toks, attr.pos) = "?"))

\* parse_query_tag_from_tokens, after the `$`: a list may have no attribute.
ParseName(toks, p, param) ==
    CASE Tok(toks, p) = "(" -> ParseAttr(toks, [pos |-> p, text |-> <<>>], param, FALSE)
      [] Tok(toks, p) = "DoubleDash" ->
           ParseAttr(toks, Glued(toks, p + 1, AttrParts), param, TRUE)
      [] OTHER -> ParseAttr(toks, Glued(toks, p, AttrParts), param, FALSE)

\* parse_query_tag_from_tokens
ParseTag(toks, p) ==
    LET named == After(toks, p, "Space")
    IN  ParseName(toks, After(toks, named, "$"), Tok(toks, named) = "$")

\* Variant: a block goes on when the next line is indented like its first.
EndsBlockBelow(toks, p, place) ==
    /\ Place(toks, p)[1] # place[1]
    /\ Place(toks, p)[2] < place[2]

\* A query ends at the next line that is not indented further than its first.
EndsBlock(toks, p, place) ==
    /\ Place(toks, p)[1] # place[1]
    /\ Place(toks, p)[2] <= place[2]

\* parse_tags: tags so far, and where the query began (NoText: in parentheses).
WithTag(toks, t, place, tags) ==
    ParseTags(toks, After(toks, t.pos, ","), place, Append(tags, t.tag))

ParseTags(toks, p, place, tags) ==
    CASE Tok(toks, p) \in {"Space", "Newline", "LineComment"} ->
           ParseTags(toks, p + 1, place, tags)
      [] Tok(toks, p) \in {"end", "|", "/", ")", ";"} ->
           [pos |-> p, tags |-> tags]
      [] OTHER ->
           IF place # NoText /\ tags # <<>> /\ EndsBlock(toks, p, place)
           THEN [pos |-> p, tags |-> tags]
           ELSE WithTag(toks, ParseTag(toks, p), place, tags)

\* `limit 10`, `last 5`, `rename a -> b`, `wait 100`: the operands each verb
\* wants, and the names they are given.
Verbs == { [verb |-> <<"limit">>, wants |-> <<"Integer">>, names |-> <<"count">>],
           [verb |-> <<"last">>,  wants |-> <<"Integer">>, names |-> <<"count">>],
           [verb |-> <<"rename">>, wants |-> <<"PlainValue", "RightArrow", "PlainValue">>,
            names |-> <<"from", "", "to">>],
           [verb |-> <<"wait">>,  wants |-> <<"Integer">>, names |-> <<"duration">>] }

\* Where the operands of a verb at p are, up to the first that is not there.
Operands(toks, p, wants) ==
    LET at[i \in 0 .. Len(wants)] ==
            IF i = 0 THEN p ELSE PastBlank(toks, at[i - 1] + 1)
    IN  [i \in 1 .. Len(wants) |-> at[i]]

OperandTag(toks, p, name) ==
    IF name = "duration" THEN NewTag(<<name>>)
    ELSE [NewTag(<<name>>) EXCEPT !.value = Str(Text(toks, p))]

\* The verbs that the tokens at p are.
VerbsAt(toks, p) ==
    {v \in Verbs :
        /\ Tok(toks, p) # "QuotedString"
        /\ Text(toks, p) = v.verb
        /\ \A i \in DOMAIN v.wants : Tok(toks, Operands(toks, p, v.wants)[i]) = v.wants[i]}

\* A verb, with its operands that have names and the tags that follow.
VerbQuery(toks, v, at, rest) ==
    LET named == SelectSeq([i \in DOMAIN at |-> i], LAMBDA i : v.names[i] # "")
    IN  [ pos |-> rest.pos,
          query |-> Query(v.verb,
              [i \in DOMAIN named |-> OperandTag(toks, at[named[i]], v.names[named[i]])]
                  \o rest.tags) ]

\* The first of plain tags is the command.
PlainQuery(t) ==
    [ pos |-> t.pos,
      query |-> IF t.tags = <<>> THEN NoQuery ELSE Query(t.tags[1].attr, Tail(t.tags)) ]

\* parse_single_query_from_tokens, past blanks: a verb with its operands, or tags.
ParseSingleAt(toks, p, inParen) ==
    IF VerbsAt(toks, p) = {}
    THEN PlainQuery(ParseTags(toks, p, IF inParen THEN NoText ELSE Place(toks, p), <<>>))
    ELSE LET v  == CHOOSE x \in VerbsAt(toks, p) : TRUE
             at == Operands(toks, p, v.wants)
         IN  VerbQuery(toks, v, at, ParseTags(toks, at[Len(at)] + 1, Place(toks, p), <<>>))

ParseSingle(toks, p, inParen) == ParseSingleAt(toks, PastBlank(toks, p), inParen)

\* parse_query_from_tokens: of the steps that `|` and `/` separate, the first.
\* A step was parsed at p: nothing there may mean the end, or an empty step.
AfterStep(toks, p, inParen, first, step) ==
    LET kept == IF first = NoQuery THEN step.query ELSE first
    IN  CASE step.query = NoQuery /\ step.pos = p -> [pos |-> p, query |-> first]
          [] step.query = NoQuery /\ step.pos # p -> ParseQuery(toks, step.pos, inParen, first)
          [] step.query # NoQuery /\ Tok(toks, step.pos) \in {"|", "/"} ->
               ParseQuery(toks, step.pos + 1, inParen, kept)
          [] OTHER -> [pos |-> step.pos, query |-> kept]

ParseQuery(toks, p, inParen, first) ==
    CASE Tok(toks, p) = "end" -> [pos |-> p, query |-> first]
      [] Tok(toks, p) \in {"Space", "LineComment", "|", "/"} ->
           ParseQuery(toks, p + 1, inParen, first)
      [] OTHER -> AfterStep(toks, p, inParen, first, ParseSingle(toks, p, inParen))

\* parse_file: queries without arguments are dropped, and a token that nothing
\* can begin with ends the file.
RECURSIVE ParseFrom(_, _, _)
AfterQuery(toks, p, queries, q) ==
    IF q.query = NoQuery /\ q.pos = p THEN queries
    ELSE ParseFrom(toks, q.pos,
             IF q.query.tags = <<>> THEN queries ELSE Append(queries, q.query))

ParseFrom(toks, p, queries) ==
    CASE Tok(toks, p) = "end" -> queries
      [] Tok(toks, p) \in {";", "LineComment"} -> ParseFrom(toks, p + 1, queries)
      [] OTHER -> AfterQuery(toks, p, queries, ParseQuery(toks, p, FALSE, NoQuery))

ParseFile(text) == ParseFrom(Tokens(text), 1, <<>>)
=============================================================================
