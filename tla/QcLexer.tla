------------------------------ MODULE QcLexer ------------------------------
(***************************************************************************)
(* The lexer of config files (qc/lexer.rs) under the settings parse_file   *)
(* uses: `#` starts a comment, C-style comments are off.  A text is a      *)
(* sequence of symbols: single characters, and words, which stand for runs *)
(* of letters.  A token occupies start .. stop-1 of the text.              *)
(***************************************************************************)
EXTENDS Integers, Sequences

CONSTANTS Words,    \* symbols that are letters, or runs of letters
          Digits    \* digits, or runs of digits

Quotes  == {"'", "\""}    \* and the backquote, which a TLA+ string cannot hold
Escape  == "\\"
Newline == "\n"
Blank   == " "

\* What no operator, value, quote, space or line break begins with: a token of
\* the kind this character names.
Singles == {"(", ")", "[", "]", "{", "}", ">", "<", "/", ".", ",", ";", ":", "+", "-", "*",
            "=", "#", "%", "$", "~", "!", "|", "&", "?", "\t"}

\* Operators of several characters; the longest that fits is taken.
Operators == {
    <<<<"=", "=", "=">>, "TripleEquals">>, <<<<"!", "=", "=">>, "BangDoubleEquals">>,
    <<<<"=", "=">>, "DoubleEquals">>, <<<<"=", ">">>, "RightFatArrow">>,
    <<<<"!", "=">>, "BangEquals">>, <<<<"-", "-">>, "DoubleDash">>,
    <<<<"-", ">">>, "RightArrow">>, <<<<"|", "|">>, "DoubleBar">>,
    <<<<"&", "&">>, "DoubleAmp">>, <<<<">", "=">>, "GThanEq">>,
    <<<<"<", "=">>, "LThanEq">> }

\* Letters and digits are no other characters.
ASSUME LexAssumption ==
    (Words \cup Digits) \cap (Quotes \cup {Escape, Newline, Blank} \cup Singles) = {}

MayContinue(c) == c \in Words \cup Digits \cup {"-", "!"}
MayStart(c)    == c \in Words \cup Digits \cup {"-"}

Has(text, i, word) ==
    i + Len(word) - 1 <= Len(text) /\ SubSeq(text, i, i + Len(word) - 1) = word

\* How many positions from i on are among these places, one after the other.
While(text, i, places) ==
    CHOOSE n \in 0 .. Len(text) + 1 - i :
        i + n \notin places /\ \A j \in i .. i + n - 1 : j \in places

\* Variant: an escape hides nothing, so an escaped quote ends the string.
QuotedEndUnescaped(text, i) ==
    LET end[j \in i .. Len(text) + 2] ==
            IF j > Len(text) THEN j
            ELSE IF text[j] = text[i] /\ j > i THEN j + 1
            ELSE end[j + 1]
    IN  end[i + 1]

\* Where the quoted string that opens at i stops.  A backslash takes the next
\* character with it, even one past the end of the text.
QuotedEnd(text, i) ==
    LET end[j \in i .. Len(text) + 2] ==
            IF j > Len(text) THEN j
            ELSE IF text[j] = Escape THEN end[j + 2]
            ELSE IF text[j] = text[i] THEN j + 1
            ELSE end[j + 1]
    IN  end[i + 1]

\* Line breaks a quoted string is seen to contain: an escaped one is not.
QuotedBreaks(text, i) ==
    LET breaks[j \in i .. Len(text) + 2] ==
            IF j > Len(text) THEN <<>>
            ELSE IF text[j] = Escape THEN breaks[j + 2]
            ELSE IF text[j] = text[i] THEN <<>>
            ELSE IF text[j] = Newline THEN <<j>> \o breaks[j + 1]
            ELSE breaks[j + 1]
    IN  breaks[i + 1]

\* The kind and length of the token at i.
NextToken(text, i) ==
    LET c    == text[i]
        fits == {o \in Operators : Has(text, i, o[1])}
    IN  CASE fits # {} ->
               LET o == CHOOSE x \in fits : \A y \in fits : Len(x[1]) >= Len(y[1])
               IN  <<o[2], Len(o[1])>>
          [] fits = {} /\ MayStart(c) ->
               LET n == While(text, i, {j \in DOMAIN text : MayContinue(text[j])})
               IN  <<IF \A j \in i .. i + n - 1 : text[j] \in Digits
                     THEN "Integer" ELSE "PlainValue", n>>
          [] c = "#" -> <<"LineComment", While(text, i, {j \in DOMAIN text : text[j] # Newline})>>
          [] c \in Quotes -> <<"QuotedString", QuotedEnd(text, i) - i>>
          [] c = Blank -> <<"Space", While(text, i, {j \in DOMAIN text : text[j] = Blank})>>
          [] c = Newline -> <<"Newline", 1>>
          [] fits = {} /\ c \in Singles \ {"#", "-"} -> <<c, 1>>
          [] OTHER -> <<"Unrecognized", 1>>

\* A new line has no indentation until spaces at its start are seen.
IndentAfter(tok, indent) == IF tok = "Newline" THEN 0 ELSE indent

\* LexContext::consume, with what consume_quoted_string does to the position.
Consume(at, tok, len, breaks) ==
    LET indent == IF tok = "Space" /\ at.column = 1 THEN len ELSE at.indent
    IN  [ index  |-> at.index + len,
          line   |-> IF tok = "Newline" THEN at.line + 1 ELSE at.line + Len(breaks),
          column |-> CASE tok = "Newline" -> 1
                       [] breaks # <<>> -> at.index + len - breaks[Len(breaks)]
                       [] OTHER -> at.column + len,
          indent |-> IndentAfter(tok, indent),
          tokens |-> Append(at.tokens, [ tok |-> tok, start |-> at.index,
                                         stop |-> at.index + len,
                                         line |-> at.line, indent |-> indent ]) ]

Start == [index |-> 1, line |-> 1, column |-> 1, indent |-> 0, tokens |-> <<>>]

\* consume_next, unless the input is at its end.
ConsumeNext(text, at) ==
    IF at.index > Len(text) THEN at
    ELSE LET t == NextToken(text, at.index)
         IN  Consume(at, t[1], t[2],
                 IF t[1] = "QuotedString" THEN QuotedBreaks(text, at.index) ELSE <<>>)

\* Every token takes a character at least: this many are enough.
Lex(text) ==
    LET at[n \in 0 .. Len(text)] == IF n = 0 THEN Start ELSE ConsumeNext(text, at[n - 1])
    IN  at[Len(text)].tokens

\* token_text; Rust stops the thread when the token reaches past the text.
TokenText(text, t) == SubSeq(text, t.start, t.stop - 1)

\* unescape, of the characters from i to j: they lose every backslash.
Unescaped(text, i, j) ==
    LET from[k \in i .. j + 1] ==
            IF k > j THEN <<>>
            ELSE IF text[k] = Escape THEN from[k + 1]
            ELSE <<text[k]>> \o from[k + 1]
    IN  IF i > j THEN <<>> ELSE from[i]

\* token_unquoted_text: without the first and the last character, which need
\* not be quotes, and without any backslash.
UnquotedText(text, t) ==
    IF t.tok = "QuotedString" THEN Unescaped(text, t.start + 1, t.stop - 2)
    ELSE TokenText(text, t)
=============================================================================
