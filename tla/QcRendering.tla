----------------------------- MODULE QcRendering ----------------------------
(***************************************************************************)
(* How a parsed tag is written out again (qc/query.rs).                    *)
(***************************************************************************)
EXTENDS QcQuery

NeedsQuoting(text) == \E i \in DOMAIN text : text[i] \in {" ", "\t", "\n", "\"", "'"}

\* to_query_string of a tag and of a tag list.
RECURSIVE Rendered(_)
Rendered(tag) ==
    LET v     == tag.value
        same  == tag.param = tag.attr
        attr  == (IF tag.param # NoText /\ same THEN <<"$">> ELSE <<>>)
                    \o tag.attr \o (IF tag.attrOptional THEN <<"?">> ELSE <<>>)
        list  == Joined([i \in DOMAIN v.tags |-> Rendered(v.tags[i])], <<" ">>)
    IN  CASE tag.attr = <<"*">> -> <<"*">>
          [] tag.attr # <<"*">> /\ tag.param # NoText /\ ~same ->
               attr \o <<"=", "$">> \o tag.param
          [] tag.attr # <<"*">> /\ (tag.param = NoText \/ same) ->
               CASE tag.flag -> <<"-", "-">> \o attr
                 [] ~tag.flag /\ v.kind = "list" -> attr \o <<"(">> \o list \o <<")">>
                 [] ~tag.flag /\ v.kind = "star" -> attr \o <<"=", "*">>
                 [] ~tag.flag /\ v.kind = "str" ->
                      attr \o <<"=">> \o (IF NeedsQuoting(v.text)
                                          THEN <<"\"">> \o v.text \o <<"\"">> ELSE v.text)
                 [] ~tag.flag /\ v.kind = "int" -> attr \o <<"=">> \o Decimal(v.text)
                 [] ~tag.flag /\ v.kind = "none" -> attr

RenderedList(tags) == Joined([i \in DOMAIN tags |-> Rendered(tags[i])], <<" ">>)

\* to_original_string: what is between the parentheses of `name(...)`.
Original(tag) ==
    IF tag.value.kind = "list" THEN RenderedList(tag.value.tags) ELSE Rendered(tag)
=============================================================================
