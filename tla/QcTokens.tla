------------------------------ MODULE QcTokens -----------------------------
(***************************************************************************)
(* The token iterator of the parser (qc/parser.rs): tokens are looked at,  *)
(* passed over, and glued together to attributes and values.               *)
(***************************************************************************)
EXTENDS QcLexer, SequencesExt

\* What the parser sees of the lexed text.
Tokens(text) ==
    LET lexed == Lex(text)
    IN  [i \in DOMAIN lexed |->
            [ tok |-> lexed[i].tok, text |-> UnquotedText(text, lexed[i]),
              line |-> lexed[i].line, indent |-> lexed[i].indent ]]

-----------------------------------------------------------------------------
(* TokenIterator *)

Tok(toks, p)  == IF p <= Len(toks) THEN toks[p].tok ELSE "end"
Text(toks, p) == IF p <= Len(toks) THEN toks[p].text ELSE <<>>

\* peek: past the end, the last token's place.
Place(toks, p) ==
    LET at == IF p <= Len(toks) THEN p ELSE Len(toks)
    IN  IF toks = <<>> THEN <<0, 0>> ELSE <<toks[at].line, toks[at].indent>>

\* try_consume
After(toks, p, tok) == IF Tok(toks, p) = tok THEN p + 1 ELSE p

\* The first position from p on that holds none of these tokens.
Past(toks, p, kinds) ==
    LET past[q \in p .. Len(toks) + 1] ==
            IF Tok(toks, q) \in kinds THEN past[q + 1] ELSE q
    IN  IF p > Len(toks) THEN p ELSE past[p]

\* skip_newlines
PastBlank(toks, p) == Past(toks, p, {"Space", "Newline"})

\* The tokens from p to q, as one text.
Glue(toks, p, q) ==
    [pos |-> q, text |-> FlattenSeq([i \in 1 .. q - p |-> Text(toks, p + i - 1)])]

\* The token at p, whatever it is, and those of the given kinds after it.
Glued(toks, p, kinds) == Glue(toks, p, Past(toks, p + 1, kinds))

\* Variant: a tag ends at a slash.
AttrPartsToSlash == {"PlainValue", ".", "-", "DoubleDash", "Integer"}

AttrParts == {"PlainValue", ".", "-", "DoubleDash", "Integer", "/"}

ValueParts == {"PlainValue", ".", "/", ":", "Integer"}
=============================================================================
