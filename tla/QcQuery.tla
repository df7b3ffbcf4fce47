------------------------------ MODULE QcQuery ------------------------------
(***************************************************************************)
(* What a config file parses to (qc/query.rs).  A query is a command and   *)
(* tags; a tag is an attribute and perhaps a value.  Texts are sequences   *)
(* of symbols, as in QcLexer.                                              *)
(***************************************************************************)
EXTENDS Integers, Sequences, SequencesExt

NoText  == <<"no text">>    \* no parameter name, no string value
NoValue == [kind |-> "none", text |-> <<>>, tags |-> <<>>]
Str(text)  == [NoValue EXCEPT !.kind = "str", !.text = text]
Num(text)  == [NoValue EXCEPT !.kind = "int", !.text = text]
List(tags) == [NoValue EXCEPT !.kind = "list", !.tags = tags]

NewTag(attr) ==
    [ attr |-> attr, value |-> NoValue, param |-> NoText, flag |-> FALSE,
      attrOptional |-> FALSE, valueOptional |-> FALSE ]

Query(command, tags) == [command |-> command, tags |-> tags]

\* get_attr: the last of several tags of a name.
AttrAt(query, attr) ==
    {i \in DOMAIN query.tags :
        /\ query.tags[i].attr = attr
        /\ \A j \in i + 1 .. Len(query.tags) : query.tags[j].attr # attr}

HasAttr(query, attr) == AttrAt(query, attr) # {}

\* Integers are written without the zeros they were read with.
Decimal(digits) ==
    LET significant == {i \in DOMAIN digits : digits[i] # "0"} \cup {Len(digits)}
    IN  SubSeq(digits, CHOOSE i \in significant : \A j \in significant : i <= j,
               Len(digits))

\* get_string_value of a tag, and of the tag of a name.
TagString(tag) ==
    CASE tag.value.kind = "str" -> tag.value.text
      [] tag.value.kind = "int" -> Decimal(tag.value.text)
      [] OTHER -> NoText

StringValue(query, attr) ==
    IF HasAttr(query, attr)
    THEN TagString(query.tags[CHOOSE i \in AttrAt(query, attr) : TRUE])
    ELSE NoText

JoinedTagAttrs(query) == FlattenSeq([i \in DOMAIN query.tags |-> query.tags[i].attr])

\* join: the separator is between the texts.
Joined(texts, separator) ==
    LET from[i \in 1 .. Len(texts) + 1] ==
            IF i > Len(texts) THEN <<>>
            ELSE IF i = Len(texts) THEN texts[i]
            ELSE texts[i] \o separator \o from[i + 1]
    IN  from[1]
=============================================================================
