------------------------------- MODULE Lexer -------------------------------
(***************************************************************************)
(* src/lexer/tokenizer.ts.  A file is cut into tokens from left to right,  *)
(* one token a step.  The file is a sequence of characters; a run of       *)
(* letters (a word) and a run of digits (a numeral) are one character of   *)
(* the model.  Carriage returns, underscores and exponents in numbers and  *)
(* the %!numbl: directive are left out.                                    *)
(***************************************************************************)
EXTENDS Integers, SequencesExt

CONSTANTS Names,      \* the words that are not keywords
          Numerals    \* the runs of digits

\* No word and no numeral is empty: "" is what stands past the end of the file.
ASSUME LexerAssumption == "" \notin Names \cup Numerals

VARIABLES text,       \* the file
          pos,        \* the next character
          lineStart,  \* nothing but blanks since the line began
          out         \* the tokens so far

lexVars == <<text, pos, lineStart, out>>

Keywords == {"function", "if", "else", "elseif", "for", "while", "break", "continue",
  "return", "end", "classdef", "properties", "methods", "events", "enumeration",
  "arguments", "import", "switch", "case", "otherwise", "try", "catch", "global",
  "persistent", "true", "false"}

\* A token is named by its text; the tokens that have several texts, and the
\* transpose, by their kind.
TwoCharOps == [p \in {<<".", "*">>, <<".", "/">>, <<".", "\\">>, <<".", "^">>, <<"&", "&">>,
    <<"|", "|">>, <<"=", "=">>, <<"~", "=">>, <<"<", "=">>, <<">", "=">>} |->
  CASE p = <<".", "*">> -> ".*" [] p = <<".", "/">> -> "./" [] p = <<".", "\\">> -> ".\\"
    [] p = <<".", "^">> -> ".^" [] p = <<"&", "&">> -> "&&" [] p = <<"|", "|">> -> "||"
    [] p = <<"=", "=">> -> "==" [] p = <<"~", "=">> -> "~=" [] p = <<"<", "=">> -> "<="
    [] p = <<">", "=">> -> ">="]
SingleCharOps == {"+", "-", "*", "/", "\\", "^", "&", "|", "~", "@", "?", "<", ">", ".", ":",
  ",", "=", ";", "(", ")", "[", "]", "{", "}"}

At(i) == IF i \in DOMAIN text THEN text[i] ELSE ""

\* The first position from i on whose character is in chars, or the end of the file.
Seek(i, chars) ==
  LET hits == {j \in i .. Len(text) : text[j] \in chars}
  IN  IF hits = {} THEN Len(text) + 1 ELSE Min(hits)

\* The first position from i on whose character is not in chars.
Past(i, chars) ==
  LET hits == {j \in i .. Len(text) : text[j] \notin chars}
  IN  IF hits = {} THEN Len(text) + 1 ELSE Min(hits)

findLineTerminator(i) == Seek(i, {"\n"})
AfterLine(i) == LET eol == findLineTerminator(i) IN IF At(eol) = "\n" THEN eol + 1 ELSE eol
Follows(i, word) == \A k \in DOMAIN word : At(i + k - 1) = word[k]

\* Just past the quote that closes a literal whose inside begins at i, 0 when the
\* line ends first: a doubled quote is a quote inside, so the one that closes is
\* the last of its run and an odd one from i on.
Closing(i, quote) ==
  LET quotes == {j \in i .. findLineTerminator(i) - 1 : At(j) = quote}
      closing == {j \in quotes : j + 1 \notin quotes /\ Cardinality({k \in quotes : k <= j}) % 2 = 1}
  IN  IF closing = {} THEN 0 ELSE Min(closing) + 1

Token(t, from, to) == [t |-> t, lex |-> SubSeq(text, from, to - 1), s |-> from, e |-> to]
Emit(t, to) == /\ out' = Append(out, Token(t, pos, to))
               /\ pos' = to
Skip(to) == pos' = to /\ UNCHANGED out

isValueToken(t) == t \in {"Ident", "Integer", "Float", "true", "false", ")", "]", "}",
                          "Str", "Char", "Transpose"}
Previous == IF out # <<>> /\ Last(out).e = pos THEN Last(out).t ELSE "none"   \* adjacent only

isLeadingDotFloat == At(pos) = "." /\ At(pos + 1) \in Numerals /\ ~isValueToken(Previous)

-----------------------------------------------------------------------------
Blank == /\ At(pos) = " "
         /\ Skip(pos + 1)
         /\ UNCHANGED lineStart

Newline == /\ At(pos) = "\n"
           /\ Emit("\n", Past(pos, {"\n"}))
           /\ lineStart' = TRUE

Ellipsis == /\ Follows(pos, <<".", ".", ".">>)
            /\ out' = Append(out, Token("Ellipsis", pos, pos + 3))
            /\ pos' = AfterLine(pos + 3)
            /\ UNCHANGED lineStart

\* %{ with nothing else on its line, up to the first %} and the end of that line.
OpensBlock == Follows(pos, <<"%", "{">>) /\ At(Past(pos + 2, {" "})) \in {"\n", ""}
BlockEnd == LET ends == {j \in pos + 2 .. Len(text) : Follows(j, <<"%", "}">>)}
            IN  IF ends = {} THEN Len(text) + 1 ELSE Min(ends) + 2
BlockComment ==
  /\ OpensBlock
  /\ Skip(IF At(BlockEnd) = "\n" THEN BlockEnd + 1 ELSE BlockEnd)
  /\ lineStart' = (lineStart \/ At(BlockEnd) = "\n")

OpensSection == Follows(pos, <<"%", "%">>) /\ lineStart
Section == /\ OpensSection
           /\ out' = Append(out, Token("Section", pos, findLineTerminator(pos)))
           /\ pos' = AfterLine(pos)
           /\ lineStart' = TRUE

LineComment_EatsLineEnd == /\ At(pos) = "%" /\ ~OpensBlock /\ ~OpensSection  \* seeded
                           /\ Skip(AfterLine(pos))
                           /\ UNCHANGED lineStart
LineComment == /\ At(pos) = "%" /\ ~OpensBlock /\ ~OpensSection
               /\ Skip(findLineTerminator(pos))
               /\ UNCHANGED lineStart

isTranspose == At(pos) = "'" /\ (Previous = "." \/ isValueToken(Previous))
Transpose == /\ isTranspose
             /\ Emit("Transpose", pos + 1)
             /\ UNCHANGED lineStart

Literal == /\ At(pos) \in {"'", "\""} /\ ~isTranspose
           /\ LET close == Closing(pos + 1, At(pos))
              IN  IF close = 0
                  THEN Emit("Error", pos + 1) /\ UNCHANGED lineStart
                  ELSE /\ Emit(IF At(pos) = "'" THEN "Char" ELSE "Str", close)
                       /\ lineStart' = FALSE

isTwoChar == <<At(pos), At(pos + 1)>> \in DOMAIN TwoCharOps
TwoChar == /\ isTwoChar
           /\ Emit(TwoCharOps[<<At(pos), At(pos + 1)>>], pos + 2)
           /\ lineStart' = FALSE

\* Behind a semicolon a quote is looked for at once: there it opens a literal.
SingleChar ==
  /\ At(pos) \in SingleCharOps
  /\ ~isTwoChar /\ ~isLeadingDotFloat /\ ~Follows(pos, <<".", ".", ".">>)
  /\ LET quote == Past(pos + 1, {" "})
         close == IF At(pos) = ";" /\ At(quote) = "'" THEN Closing(quote + 1, "'") ELSE 0
     IN  IF close = 0 THEN Emit(At(pos), pos + 1)
         ELSE /\ out' = Append(Append(out, Token(";", pos, pos + 1)), Token("Char", quote, close))
              /\ pos' = close
  /\ lineStart' = FALSE

\* The point belongs to the number unless an elementwise operator begins with it.
Number ==
  /\ At(pos) \in Numerals \/ isLeadingDotFloat
  /\ LET point == IF At(pos) = "." THEN pos ELSE pos + 1
         float == At(point) = "." /\ At(point + 1) \notin {"*", "/", "\\", "^"}
     IN  IF float THEN Emit("Float", Past(point + 1, Numerals)) ELSE Emit("Integer", pos + 1)
  /\ lineStart' = FALSE

\* `end` before a parenthesis names a function or a method.
Word == /\ At(pos) \in Names \cup Keywords
        /\ Emit(IF \/ At(pos) \notin Keywords
                   \/ At(pos) = "end" /\ At(Past(pos + 1, {" "})) = "("
                THEN "Ident" ELSE At(pos), pos + 1)
        /\ lineStart' = FALSE

Unknown == /\ At(pos) \notin {"", " ", "\n", "%", "'", "\""} \cup SingleCharOps
                               \cup Numerals \cup Names \cup Keywords
           /\ Emit("Error", pos + 1)
           /\ lineStart' = FALSE

Lex == /\ \/ Blank \/ Newline \/ Ellipsis \/ BlockComment \/ Section \/ LineComment
          \/ Transpose \/ Literal \/ TwoChar \/ SingleChar \/ Number \/ Word \/ Unknown
       /\ UNCHANGED text

LexInit == pos = 1 /\ lineStart = TRUE /\ out = <<>>

\* The lexer by itself: a file is any sequence of characters, none of them empty.
IsFile == text \in Seq({text[i] : i \in DOMAIN text} \ {""})
LexSpec == IsFile /\ LexInit /\ [][Lex]_lexVars
-----------------------------------------------------------------------------
\* A character no token has.
Outside(i) == \A k \in DOMAIN out : i < out[k].s \/ i >= out[k].e
\* A comment ends with its line; one that stands alone on a line as %{ ends behind %}.
BlockStart(j) == \E l \in j + 2 .. Len(text) + 1 : /\ At(j) = "%" /\ At(j + 1) = "{" /\ At(l) \in {"\n", ""}
                                                  /\ \A n \in j + 2 .. l - 1 : text[n] = " "
InComment(i) ==
  \E j \in 1 .. i : /\ text[j] = "%" /\ Outside(j)
                   /\ \/ \A n \in j .. i : text[n] # "\n"
                      \/ BlockStart(j) /\ \A n \in j + 2 .. i - 3 : ~(text[n] = "%" /\ text[n + 1] = "}")
\* What follows an ellipsis or the title of a section is layout up to the end of the line.
InEllipsis(i) == \E k \in DOMAIN out : out[k].t \in {"Ellipsis", "Section"} /\ out[k].e <= i
                                         /\ \A j \in out[k].e .. i - 1 : text[j] # "\n"
\* Tokens come in the order of the file and do not overlap, and what lies between
\* two of them is layout: blanks, line ends behind an ellipsis, comments
\* (tokenizeDetailed).
TokensCoverText ==
  pos > Len(text) =>
    /\ \A k \in DOMAIN out : /\ out[k].s < out[k].e
                            /\ out[k].e <= (IF k < Len(out) THEN out[k + 1].s ELSE Len(text) + 1)
    /\ \A i \in DOMAIN text : Outside(i) => text[i] = " " \/ InComment(i) \/ InEllipsis(i)
=============================================================================
