---------------------------- MODULE Highlighter -----------------------------
(***************************************************************************)
(* How the documentation site colours a block of C++ (highlight in         *)
(* Code.tsx): one pass after another replaces what it matches by a token,  *)
(* and in the end each token is replaced by the text it stands for.        *)
(*                                                                         *)
(* Code is a sequence of symbols, told apart as far as the passes tell     *)
(* them apart: //, the two ends of a block comment, a quote, the end of a  *)
(* line, a #directive, and a word (a number, a keyword or a type: three    *)
(* passes that take what no other takes).  A token carries its text.       *)
(***************************************************************************)
EXTENDS SequencesExt, Naturals

Symbol(kind) == [kind |-> kind, text |-> <<>>]
Kinds == {"slashes", "open", "close", "quote", "newline", "directive", "word"}
Symbols == {Symbol(kind) : kind \in Kinds}

Token(pass, text) == [kind |-> pass, text |-> text]

\* The first place behind i with such a symbol, or the place behind the end.
NextOf(kind, code, i) ==
    CHOOSE j \in i + 1..Len(code) + 1 :
        /\ j <= Len(code) => code[j].kind = kind
        /\ \A m \in i + 1..j - 1 : code[m].kind # kind

Ends(kind, code, i) == NextOf(kind, code, i) <= Len(code)

BeginsLine(code, i) == i = 1 \/ code[i - 1].kind = "newline"

\* How many symbols, from the i-th on, a pass takes for one token: a comment up to
\* the end of its line, a block to its end, a directive at the beginning of a line
\* to the end of it, a string up to the next quote on whatever line.
Matched(pass, code, i) ==
    LET upTo(kind) == IF Ends(kind, code, i) THEN NextOf(kind, code, i) - i + 1 ELSE 0 IN
    CASE pass = "comment" /\ code[i].kind = "slashes" -> NextOf("newline", code, i) - i
      [] pass = "block" /\ code[i].kind = "open" -> upTo("close")
      [] pass = "preprocessor" /\ code[i].kind = "directive" /\ BeginsLine(code, i) ->
            NextOf("newline", code, i) - i
      [] pass = "string" /\ code[i].kind = "quote" -> upTo("quote")
      [] pass = "literal" /\ code[i].kind = "word" -> 1
      [] OTHER -> 0

\* One pass: src.replace(regex, mark(pass)).
Replaced(pass, code) ==
    LET from[i \in 1..Len(code) + 1] ==
            IF i > Len(code) THEN <<>>
            ELSE LET n == Matched(pass, code, i) IN
                 IF n = 0 THEN <<code[i]>> \o from[i + 1]
                 ELSE <<Token(pass, SubSeq(code, i, i + n - 1))>> \o from[i + n]
    IN from[1]

\* Mutant: the strings are marked before the comments.
StringsFirst(code) ==
    LET strings == Replaced("string", code)
        comments == Replaced("comment", strings)
        blocks == Replaced("block", comments)
        lines == Replaced("preprocessor", blocks)
    IN Replaced("literal", lines)

Tokenized(code) ==
    LET comments == Replaced("comment", code)
        blocks == Replaced("block", comments)
        lines == Replaced("preprocessor", blocks)
        strings == Replaced("string", lines)
    IN Replaced("literal", strings)

\* Every token in the code gives way to its text; a token inside that text stays,
\* because what has been put in is not looked at again.
Restored(marked) ==
    FlattenSeq([i \in DOMAIN marked |->
                   IF marked[i] \in Symbols THEN <<marked[i]>> ELSE marked[i].text])

\* Empty lines at the end are cut off first.
Trimmed(code) ==
    SubSeq(code, 1, Max({0} \union {i \in DOMAIN code : code[i].kind # "newline"}))

Shown(code) == Restored(Tokenized(Trimmed(code)))

-----------------------------------------------------------------------------
\* Where the symbol behind the i-th stands if the i-th stands in a context.
Behind(code, i, context) ==
    LET kind == code[i].kind IN
    CASE context = "code" /\ kind = "slashes" -> "comment"
      [] context = "code" /\ kind = "open" /\ Ends("close", code, i) -> "block"
      [] context = "code" /\ kind = "quote" /\ Ends("quote", code, i) -> "string"
      [] context = "code" /\ kind = "directive" /\ BeginsLine(code, i) -> "line"
      [] context = "string" /\ kind = "quote" -> "code"
      [] context = "block" /\ kind = "close" -> "code"
      [] context \in {"comment", "line"} /\ kind = "newline" -> "code"
      [] OTHER -> context

\* Where the i-th symbol stands for a reader of C++: in the code, in a string, in a
\* comment, in a block that ends, or on the line of a directive.
ContextAt(code, i) ==
    LET at[j \in 1..Len(code) + 1] ==
            IF j = 1 THEN "code" ELSE Behind(code, j - 1, at[j - 1])
    IN at[i]

\* What one pass marks stands inside what a later pass marks: a comment begins in a
\* string ("http://...") or on the line of a directive, or a // in a block, or a
\* line in a string with a directive.
OneInAnother(code) ==
    \E i \in DOMAIN code :
        \/ code[i].kind = "slashes" /\ ContextAt(code, i) \in {"string", "block", "line"}
        \/ code[i].kind = "open" /\ ContextAt(code, i) \in {"string", "line"}
        \/ code[i].kind = "directive" /\ ContextAt(code, i) = "string"
=============================================================================
