------------------------------- MODULE FrontEnd -------------------------------
(***************************************************************************)
(* src/parser/index.ts.  A file is lexed, the layout tokens are dropped,   *)
(* and the parser tries twice: first as if every function had its `end`,   *)
(* then, when an `end` was missing, with the ends of the functions put in. *)
(* The author's tree is kept beside the file, and no step reads it.        *)
(***************************************************************************)
EXTENDS Parser

CONSTANTS Files,       \* the files, in families, each [text, tree]
          Rejected,    \* the tree of a file that must not be read
          Overlooked,  \* the tree of a file that is refused, though its language is right
          Unspecified  \* the tree of a file nothing is promised about

ASSUME FilesAssumption == \A family \in Files : \A f \in family : DOMAIN f = {"text", "tree"}

VARIABLES phase,       \* what is done next
          ast,         \* the tree that was read
          written      \* the tree of the file's author

vars == <<text, pos, lineStart, out, tokens, phase, ast, written>>

Final == {"read", "error"}

\* tokenizeInput: a token that is none is a SyntaxError, layout is dropped.
tokenizeInput ==
  /\ phase = "lex" /\ pos > Len(text)
  /\ IF \E k \in DOMAIN out : out[k].t = "Error"
     THEN phase' = "error" /\ UNCHANGED tokens
     ELSE /\ tokens' = SelectSeq(out, LAMBDA tok : tok.t \notin {"Ellipsis", "Section"})
          /\ phase' = "first"
  /\ UNCHANGED <<lexVars, ast, written>>

Lexing == /\ phase = "lex" /\ pos <= Len(text)
          /\ Lex
          /\ UNCHANGED <<tokens, phase, ast, written>>

BLOCK_OPENERS == {"if", "for", "while", "switch", "try", "classdef", "properties", "methods",
                  "events", "enumeration"}

\* A newline and an `end` behind token k.
SyntheticEnd(k) == LET at(t) == [t |-> t, lex |-> <<t>>, s |-> tokens[k].e, e |-> tokens[k].e]
                   IN  <<at("\n"), at("end")>>

\* One token of the scan for functions without an `end`: how many blocks are open,
\* how many brackets, whether a function is, and how each function so far ended.
Scan(st, k) ==
  LET t == tokens[k].t
      group == st.group + (CASE t \in {"(", "[", "{"} -> 1 [] t \in {")", "]", "}"} -> -1 [] OTHER -> 0)
      sibling == t = "function" /\ (st.depth = 0 \/ (st.depth = 1 /\ st.inFunction))
      depth == st.depth + (CASE t \in BLOCK_OPENERS -> 1 [] t = "end" /\ group = 0 -> -1 [] OTHER -> 0)
      closes == t = "end" /\ group = 0 /\ depth = 0 /\ st.inFunction
  IN  IF sibling
      THEN [result |-> st.result \o (IF st.inFunction THEN SyntheticEnd(Max({k - 1, 1})) ELSE <<>>) \o <<tokens[k]>>,
            group |-> group, depth |-> 1, inFunction |-> TRUE,
            ends |-> IF st.inFunction THEN st.ends \cup {FALSE} ELSE st.ends]
      ELSE [result |-> Append(st.result, tokens[k]), group |-> group, depth |-> depth,
            inFunction |-> st.inFunction /\ ~closes,
            ends |-> IF closes THEN st.ends \cup {TRUE} ELSE st.ends]

Scanned == FoldLeft(Scan, [result |-> <<>>, group |-> 0, depth |-> 0, inFunction |-> FALSE, ends |-> {}],
                    [k \in DOMAIN tokens |-> k])

insertFunctionEndTokens_Mixed ==  \* seeded
  LET st == Scanned
  IN  IF FALSE \notin st.ends /\ ~st.inFunction THEN <<>>
      ELSE st.result \o (IF st.inFunction THEN SyntheticEnd(Len(tokens)) ELSE <<>>)
\* <<>> when no function lacks its end, or when some do and some do not.
insertFunctionEndTokens ==
  LET st == Scanned
      ends == IF st.inFunction THEN st.ends \cup {FALSE} ELSE st.ends
  IN  IF ends # {FALSE} THEN <<>>
      ELSE st.result \o (IF st.inFunction THEN SyntheticEnd(Len(tokens)) ELSE <<>>)

Accept(p) == phase' = "read" /\ ast' = p.n /\ UNCHANGED tokens

FirstPass ==
  /\ phase = "first"
  /\ LET p == parseProgram
     IN  \/ p.i > 0 /\ Accept(p)
         \/ p.i = NoEnd /\ phase' = "insert" /\ UNCHANGED <<tokens, ast>>
         \/ p.i = Failed /\ phase' = "error" /\ UNCHANGED <<tokens, ast>>
  /\ UNCHANGED <<lexVars, written>>

Insert ==
  /\ phase = "insert"
  /\ IF insertFunctionEndTokens = <<>> THEN phase' = "error" /\ UNCHANGED tokens
     ELSE phase' = "second" /\ tokens' = insertFunctionEndTokens
  /\ UNCHANGED <<lexVars, ast, written>>

SecondPass ==
  /\ phase = "second"
  /\ LET p == parseProgram
     IN  IF p.i > 0 THEN Accept(p) ELSE phase' = "error" /\ UNCHANGED <<tokens, ast>>
  /\ UNCHANGED <<lexVars, written>>

Init == /\ LexInit
        /\ tokens = <<>> /\ phase = "lex" /\ ast = <<>>
        /\ \E family \in Files : \E f \in family : text = f.text /\ written = f.tree

\* Nothing else ends: a file the lexer or the parser is stuck in is a deadlock.
Done == phase \in Final /\ UNCHANGED vars

Next == Lexing \/ tokenizeInput \/ FirstPass \/ Insert \/ SecondPass \/ Done

Spec == Init /\ [][Next]_vars
-----------------------------------------------------------------------------
\* A file reads as its author wrote it: what the printer of the language made of a
\* tree, in any of its layouts, with or without the ends of its functions, is read
\* back as that tree (parseWithOptions and every rule below it).  The exception is
\* a file that has a function with an arguments block and no `end` of its own: the
\* count of blocks does not know "arguments" (BLOCK_OPENERS), takes the block's
\* `end` for the function's, and the file is refused, whatever else is in it.
ReadsAsWritten ==
  phase \in Final =>
    /\ written \notin {Rejected, Overlooked, Unspecified} => phase = "read" /\ ast = written
    /\ written = Overlooked => phase = "error"

\* A file in which some functions have their `end` and others do not is refused,
\* however its blocks and its indices use `end` (insertFunctionEndTokens).
RejectsMixedEnds == phase \in Final /\ written = Rejected => phase = "error"
=============================================================================
