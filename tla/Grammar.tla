------------------------------- MODULE Grammar -------------------------------
(***************************************************************************)
(* The language as its users write it (external: no code of the program).  *)
(* A printer that turns a tree into a file, with the parentheses the       *)
(* documented precedence asks for and no others, in several layouts.       *)
(***************************************************************************)
EXTENDS Integers, SequencesExt

\* before, after: the gaps around a binary operator; comma: what separates
\* arguments; elem, row: what separates the elements and the rows of a matrix;
\* open, line: what follows the head of a block and a statement; ends: whether
\* functions have an `end`.
Tight == [before |-> <<>>, after |-> <<>>, comma |-> <<",">>, elem |-> <<",">>, row |-> <<";">>,
          open |-> <<",">>, line |-> <<" ">>, ends |-> TRUE]
Airy == [before |-> <<" ">>, after |-> <<" ">>, comma |-> <<",", " ">>, elem |-> <<" ">>, row |-> <<"\n">>,
         open |-> <<"\n">>, line |-> <<"\n">>, ends |-> TRUE]
Lopsided == [Airy EXCEPT !.after = <<>>, !.elem = <<",", " ">>, !.row = <<";", "\n">>]
Wrapped == [Airy EXCEPT !.after = <<" ", ".", ".", ".", "\n", " ">>, !.elem = <<" ", ",", " ">>]
Commented == [Airy EXCEPT !.open = <<" ", "%", "'", "a", "\n">>, !.row = <<" ", "%", "]", "\n">>,
              !.line = <<"\n", "%", "{", "\n", "end", "\n", "%", "}", "\n", "%", "%", " ", "a", "\n">>]
NoEnds(st) == [st EXCEPT !.ends = FALSE]

\* How tightly an operator binds, from || to the postfix operators.
BinaryLevel(op) == CASE op = "||" -> 1 [] op = "&&" -> 2 [] op = "|" -> 3 [] op = "&" -> 4
  [] op \in {"==", "~=", "<", "<=", ">", ">="} -> 5 [] op \in {"+", "-"} -> 7
  [] op \in {"*", ".*", "/", "./", "\\", ".\\"} -> 8 [] op \in {"^", ".^"} -> 10
Whole == 0        \* a place where anything may stand
Range_ == 6
Sign == 9
Postfix == 11
Atomic == 12
LevelOf(e) ==
  CASE e.k \in {"AnonFunc", "FuncHandle"} -> Whole
    [] e.k = "Binary" -> BinaryLevel(e.op)
    [] e.k = "Range" -> Range_
    [] e.k = "Unary" /\ e.op \in {"+", "-", "~"} -> Sign
    [] e.k = "Unary" /\ e.op \notin {"+", "-", "~"} -> Postfix
    [] e.k = "Number" -> Postfix     \* a transpose or a field of it is parenthesised
    [] OTHER -> Atomic

OpChars(op) == CASE op = "||" -> <<"|", "|">> [] op = "&&" -> <<"&", "&">> [] op = "==" -> <<"=", "=">>
  [] op = "~=" -> <<"~", "=">> [] op = "<=" -> <<"<", "=">> [] op = ">=" -> <<">", "=">>
  [] op = ".*" -> <<".", "*">> [] op = "./" -> <<".", "/">> [] op = ".\\" -> <<".", "\\">>
  [] op = ".^" -> <<".", "^">> [] op = ".'" -> <<".", "'">> [] OTHER -> <<op>>

\* The strings of ss, with sep between them.
Joined_(ss, sep) == FoldLeft(LAMBDA acc, k : acc \o (IF k = 1 THEN <<>> ELSE sep) \o ss[k], <<>>,
                             [k \in DOMAIN ss |-> k])

RECURSIVE Expr(_, _, _, _), Exponent(_, _, _)

\* e where an operator of the level level holds it; m: among the elements of a
\* matrix, where a gap on one side only of an operator would separate elements.
Expr(e, level, st, m) ==
  LET inner == LevelOf(e) < level
      n == m /\ ~inner
      before == IF n /\ st.after = <<>> THEN <<>> ELSE st.before
      args(es) == Joined_([k \in DOMAIN es |-> Expr(es[k], Whole, st, FALSE)], st.comma)
      braced(es) == Joined_([k \in DOMAIN es |-> Expr(es[k], 1, st, n)], st.comma)
      rows(rs) == Joined_([r \in DOMAIN rs |->
                     Joined_([k \in DOMAIN rs[r] |-> Expr(rs[r][k], 1, st, TRUE)], st.elem)], st.row)
      chars ==
        CASE e.k = "Ident" -> <<e.name>>
          [] e.k \in {"Number", "Char", "String"} -> e.v
          [] e.k = "EndKeyword" -> <<"end">>
          [] e.k = "Colon" -> <<":">>
          [] e.k = "Binary" -> LET l == BinaryLevel(e.op)
                               IN  Expr(e.l, l, st, n) \o before \o OpChars(e.op) \o st.after
                                   \o (IF l = 10 THEN Exponent(e.r, st, n) ELSE Expr(e.r, l + 1, st, n))
          [] e.k = "Range" -> Joined_([k \in DOMAIN (<<e.start>> \o e.step \o <<e.end>>) |->
                                         Expr((<<e.start>> \o e.step \o <<e.end>>)[k], Range_ + 1, st, n)], <<":">>)
          [] e.k = "Unary" /\ e.op \in {"+", "-", "~"} -> <<e.op>> \o Expr(e.e, Sign, st, n)
          [] e.k = "Unary" /\ e.op \notin {"+", "-", "~"} ->
               Expr(e.e, IF e.e.k = "Unary" THEN Postfix ELSE Atomic, st, n) \o OpChars(e.op)
          [] e.k = "FuncCall" -> <<e.name, "(">> \o args(e.args) \o <<")">>
          [] e.k = "Index" -> Expr(e.base, Atomic, st, n) \o <<"(">> \o args(e.args) \o <<")">>
          [] e.k = "IndexCell" -> Expr(e.base, Atomic, st, n) \o <<"{">> \o braced(e.args) \o <<"}">>
          [] e.k = "Member" -> Expr(e.base, Atomic, st, n) \o <<".", e.name>>
          [] e.k = "MemberDynamic" -> Expr(e.base, Atomic, st, n) \o <<".", "(">> \o Expr(e.name, 1, st, n) \o <<")">>
          [] e.k = "MethodCall" -> Expr(e.base, Atomic, st, n) \o <<".", e.name, "(">> \o braced(e.args) \o <<")">>
          [] e.k = "AnonFunc" -> <<"@", "(">> \o Joined_([k \in DOMAIN e.params |-> <<e.params[k]>>], st.comma)
                                 \o <<")", " ">> \o Expr(e.body, Whole, st, n)
          [] e.k = "FuncHandle" -> <<"@">> \o Joined_([k \in DOMAIN e.name |-> <<e.name[k]>>], <<".">>)
          [] e.k = "Tensor" -> <<"[">> \o rows(e.rows) \o <<"]">>
          [] e.k = "Cell" -> <<"{">> \o rows(e.rows) \o <<"}">>
  IN  IF inner THEN <<"(">> \o chars \o <<")">> ELSE chars

\* An exponent may have signs of its own; a transposed one is parenthesised.
Exponent(e, st, m) == IF e.k = "Unary" /\ e.op \in {"+", "-", "~"} THEN <<e.op>> \o Exponent(e.e, st, m)
                      ELSE Expr(e, IF e.k = "Number" THEN Postfix ELSE Atomic, st, m)

Target_(t, st) == IF t.k = "Ignore" THEN <<"~">> ELSE Expr(t, Atomic, st, FALSE)

List(xs, st) == Joined_([k \in DOMAIN xs |-> <<xs[k]>>], st.comma)
ArgumentEntry(x, st) ==
  Joined_([k \in DOMAIN x.name |-> <<x.name[k]>>], <<".">>)
    \o (IF x.size = <<>> THEN <<>> ELSE <<" ", "(">> \o List(x.size, st) \o <<")">>)
    \o (IF x.class = <<>> THEN <<>> ELSE <<" ", x.class[1]>>)
    \o (IF x.validators = <<>> THEN <<>> ELSE <<" ", "{">> \o List(x.validators, st) \o <<"}">>)
    \o (IF x.default = <<>> THEN <<>> ELSE <<" ", "=", " ">> \o Expr(x.default[1], Whole, st, FALSE))
    \o <<"\n">>
ArgumentsBlock(b, st) ==
  LET attrs == SelectSeq(<<"output", "repeating">>, LAMBDA a : b.kind[a])
  IN  <<"arguments">> \o (IF attrs = <<>> THEN <<>> ELSE <<" ", "(">> \o List(attrs, st) \o <<")">>) \o <<"\n">>
      \o FlattenSeq([k \in DOMAIN b.entries |-> ArgumentEntry(b.entries[k], st)]) \o <<"end", "\n">>

DottedName(xs) == Joined_([k \in DOMAIN xs |-> <<xs[k]>>], <<".">>)
Header(outs, name, params, st) ==
  (CASE Len(outs) = 0 -> <<>>
     [] Len(outs) = 1 -> <<outs[1], " ", "=", " ">>
     [] OTHER -> <<"[">> \o List(outs, st) \o <<"]", "=">>)
  \o <<name>> \o (IF params = <<>> THEN <<>> ELSE <<"(">> \o List(params, st) \o <<")">>) \o <<"\n">>
AttrList(attrs, st) ==
  IF attrs = <<>> THEN <<>>
  ELSE <<" ", "(">> \o Joined_([k \in DOMAIN attrs |->
         <<attrs[k].name>> \o (IF attrs[k].value = <<>> THEN <<>> ELSE <<"=">> \o attrs[k].value)], st.comma) \o <<")">>

RECURSIVE Statement(_, _), Body(_, _), Member_(_, _)
Body(b, st) == FlattenSeq([k \in DOMAIN b |-> Statement(b[k], st)])
\* The layouts that cut off a gap or wrap a line do so to the right of an equals sign only.
Plain(st) == IF st.before # st.after THEN [st EXCEPT !.after = st.before] ELSE st
Close(s, st) == IF s.suppressed THEN <<";">> \o st.line ELSE IF st.line = <<" ">> THEN <<",", " ">> ELSE st.line
Statement(s, st) ==
  LET head(e) == Expr(e, Whole, Plain(st), FALSE) \o st.open
      stop == <<"end">> \o (IF st.line = <<" ">> THEN <<",", " ">> ELSE st.line)
      words(xs) == FlattenSeq([k \in DOMAIN xs |-> <<" ", xs[k]>>]) \o <<"\n">>
  IN  CASE s.k = "ExprStmt" -> Expr(s.e, Whole, Plain(st), FALSE) \o Close(s, st)
        [] s.k = "Assign" -> <<s.name, " ", "=", " ">> \o Expr(s.e, Whole, st, FALSE) \o Close(s, st)
        [] s.k = "AssignLValue" -> Target_(s.lvalue, Plain(st)) \o <<"=">> \o Expr(s.e, Whole, st, FALSE) \o Close(s, st)
        [] s.k = "MultiAssign" -> <<"[">> \o Joined_([k \in DOMAIN s.lvalues |-> Target_(s.lvalues[k], Plain(st))], st.elem)
                                  \o <<"]", "=">> \o Expr(s.e, Whole, st, FALSE) \o Close(s, st)
        [] s.k = "If" -> <<"if", " ">> \o head(s.cond) \o Body(s.then, st)
             \o FlattenSeq([k \in DOMAIN s.elseifs |-> <<"elseif", " ">> \o head(s.elseifs[k].cond) \o Body(s.elseifs[k].body, st)])
             \o (IF s.else = <<>> THEN <<>> ELSE <<"else">> \o st.line \o Body(s.else[1], st)) \o stop
        [] s.k = "While" -> <<"while", " ">> \o head(s.cond) \o Body(s.body, st) \o stop
        [] s.k = "For" -> <<"for", " ", s.var, "=">> \o head(s.expr) \o Body(s.body, st) \o stop
        [] s.k = "Switch" -> <<"switch", " ">> \o head(s.expr)
             \o FlattenSeq([k \in DOMAIN s.cases |-> <<"case", " ">> \o head(s.cases[k].value) \o Body(s.cases[k].body, st)])
             \o (IF s.otherwise = <<>> THEN <<>> ELSE <<"otherwise">> \o st.line \o Body(s.otherwise[1], st)) \o stop
        [] s.k = "TryCatch" -> <<"try">> \o st.open \o Body(s.body, st) \o <<"catch">>
             \o (IF s.var = "" THEN <<"\n">> ELSE <<" ", s.var, "\n">>) \o Body(s.catch, st) \o stop
        [] s.k \in {"global", "persistent"} -> <<s.k>> \o words(s.names)
        [] s.k \in {"break", "continue", "return"} -> <<s.k>> \o Close([suppressed |-> TRUE], st)
        [] s.k = "Function" -> <<"function", " ">> \o Header(s.outputs, s.name, s.params, st)
             \o FlattenSeq([k \in DOMAIN s.arguments |-> ArgumentsBlock(s.arguments[k], st)])
             \o Body(s.body, st) \o (IF st.ends THEN <<"end", "\n">> ELSE <<>>)
        [] s.k = "Import" -> <<"import", " ">> \o DottedName(s.path) \o (IF s.wildcard THEN <<".", "*", "\n">> ELSE <<"\n">>)
        [] s.k = "ClassDef" -> <<"classdef">> \o AttrList(s.attributes, st) \o <<" ">> \o DottedName(s.name)
             \o (IF s.super = <<>> THEN <<>> ELSE <<" ", "<", " ">> \o DottedName(s.super)) \o <<"\n">>
             \o FlattenSeq([k \in DOMAIN s.members |-> Member_(s.members[k], st)]) \o <<"end", "\n">>
Member_(m, st) ==
  LET property(x) == <<x.name>> \o (IF x.default = <<>> THEN <<>> ELSE <<" ", "=", " ">> \o Expr(x.default[1], Whole, st, FALSE))
                     \o <<";", "\n">>
      content == CASE m.k = "properties" -> FlattenSeq([j \in DOMAIN m.props |-> property(m.props[j])])
                   [] m.k = "methods" -> FlattenSeq([j \in DOMAIN m.signatures |->
                        Header(m.signatures[j].outputs, m.signatures[j].name, m.signatures[j].params, st)]) \o Body(m.body, st)
                   [] OTHER -> List(m.names, [st EXCEPT !.comma = <<"\n">>]) \o <<"\n">>
  IN  <<m.k>> \o AttrList(m.attributes, st) \o <<"\n">> \o content \o <<"end", "\n">>
=============================================================================
