------------------------------- MODULE Parser -------------------------------
(***************************************************************************)
(* src/parser: recursive descent over a sequence of tokens.  A rule takes  *)
(* the position it starts at and yields what it read and the position      *)
(* behind it.  An exception is a position that is not in the sequence: no  *)
(* rule reads on from there, so it reaches the top as an exception does.   *)
(* A rule that takes m reads with inMatrixExpr = m.                        *)
(***************************************************************************)
EXTENDS Lexer

VARIABLE tokens      \* what tokenizeInput left of the lexer's tokens

Failed == 0          \* the position of a SyntaxError ...
NoEnd == -1          \* ... and of the one that says "expected 'end'"
Stop(i, why) == IF i < 1 THEN i ELSE why

T(i) == IF i \in DOMAIN tokens THEN tokens[i].t ELSE "none"
Lexeme(i) == IF i \in DOMAIN tokens THEN tokens[i].lex[1] ELSE "none"
Text(i) == IF i \in DOMAIN tokens THEN tokens[i].lex ELSE <<>>
tokensAdjacent(i, j) == i \in DOMAIN tokens /\ j \in DOMAIN tokens /\ tokens[i].e = tokens[j].s

R(n, i) == [n |-> n, i |-> i]
Expect(t, i) == IF T(i) = t THEN i + 1 ELSE Stop(i, Failed)
ExpectEnd(i) == IF T(i) = "end" THEN i + 1 ELSE Stop(i, NoEnd)
ExpectIn(ts, i) == IF T(i) \in ts THEN i + 1 ELSE Stop(i, Failed)
expectIdent(i) == R(Lexeme(i), ExpectIn({"Ident", "import"}, i))
expectIdentOrTilde(i) == R(Lexeme(i), ExpectIn({"Ident", "~"}, i))
\* Any word may follow the point of a field.
expectMemberName(i) == R(Lexeme(i), IF T(i) = "Ident" \/ (T(i) = Lexeme(i) /\ Lexeme(i) \in Keywords)
                                    THEN i + 1 ELSE Stop(i, Failed))
AfterAny(ts, i) == LET on == {j \in i .. Len(tokens) + 1 : T(j) \notin ts}
                   IN  IF (i < 1) \/ (on = {}) THEN i ELSE Min(on)
skipNewlines(i) == AfterAny({"\n"}, i)
Separators == {";", ",", "\n"}

Ident(x) == [k |-> "Ident", name |-> x]
Binary(op, l, r) == [k |-> "Binary", op |-> op, l |-> l, r |-> r]
Unary(op, e) == [k |-> "Unary", op |-> op, e |-> e]
Chars(v) == [k |-> "Char", v |-> v]

Quoted(v) == Chars(<<"'">> \o v \o <<"'">>)

-----------------------------------------------------------------------------
(* Expressions.  parse (below) is the whole grammar, from the name of a rule *)
(* and a position; an operator that calls other rules takes it as p.       *)

RECURSIVE Level(_, _, _, _), Joined(_, _, _, _), AddSub(_, _, _), MulDiv(_, _, _), Power(_, _, _),
  PostfixWithBase(_, _, _), FuncArgs(_, _, _), Exprs(_, _, _, _), Row(_, _, _, _), Rows(_, _, _, _),
  Idents(_, _, _), Dotted(_, _)

\* || binds weakest, then &&, |, & and the comparisons; all group to the left.
LevelOps == <<{"||"}, {"&&"}, {"|"}, {"&"}, {"==", "~=", "<", "<=", ">", ">="}>>
Level(p, n, i, m) == IF n > Len(LevelOps) THEN p["range", i, m]
                     ELSE Joined(p, n, Level(p, n + 1, i, m), m)
Joined(p, n, l, m) ==
  IF T(l.i) \notin LevelOps[n] THEN l
  ELSE LET r == Level(p, n + 1, l.i + 1, m) IN Joined(p, n, R(Binary(T(l.i), l.n, r.n), r.i), m)
parseRange(p, i, m) ==
  LET from == p["sum", i, m]
      mid == p["sum", from.i + 1, m]
      end == p["sum", mid.i + 1, m]
  IN  CASE T(from.i) # ":" -> from
        [] T(mid.i) # ":" -> R([k |-> "Range", start |-> from.n, step |-> <<>>, end |-> mid.n], mid.i)
        [] OTHER -> R([k |-> "Range", start |-> from.n, step |-> <<mid.n>>, end |-> end.n], end.i)

StartsElement_AnyGap(i, m) == m /\ ~tokensAdjacent(i - 1, i)  \* seeded
\* In a matrix a sign with a gap before it and none behind begins an element.
StartsElement(i, m) == m /\ ~tokensAdjacent(i - 1, i) /\ tokensAdjacent(i, i + 1)
AddSub(p, l, m) ==
  LET sign == CASE T(l.i) \in {"+", "-"} -> l.i
                [] T(l.i) = "." /\ T(l.i + 1) \in {"+", "-"} -> l.i + 1
                [] OTHER -> 0
      r == p["product", sign + 1, m]
  IN  IF sign = 0 \/ (sign = l.i /\ StartsElement(sign, m)) THEN l
      ELSE AddSub(p, R(Binary(T(sign), l.n, r.n), r.i), m)
MulDiv(p, l, m) ==
  IF T(l.i) \notin {"*", ".*", "/", "./", "\\", ".\\"} THEN l
  ELSE LET r == p["signed", l.i + 1, m] IN MulDiv(p, R(Binary(T(l.i), l.n, r.n), r.i), m)

SignOps == {"+", "-", "~"}
parsePostfix(p, i, m) ==
  LET e == p["primary", i, m]
  IN  IF /\ e.n.k = "Number" /\ T(e.i) = "Ident" /\ Lexeme(e.i) \in {"i", "j"}
         /\ T(e.i - 1) \in {"Integer", "Float"} /\ tokensAdjacent(e.i - 1, e.i)
      THEN PostfixWithBase(p, R(Binary("*", e.n, [k |-> "ImagUnit"]), e.i + 1), m)
      ELSE PostfixWithBase(p, e, m)
Signed(p, i, m) == IF T(i) \notin SignOps THEN Power(p, p["postfix", i, m], m)
                   ELSE LET e == p["signed", i + 1, m] IN R(Unary(T(i), e.n), e.i)
Power(p, l, m) ==
  IF T(l.i) \notin {"^", ".^"} THEN l
  ELSE LET r == p["exponent", l.i + 1, m] IN Power(p, R(Binary(T(l.i), l.n, r.n), r.i), m)
PowRHS(p, i, m) == IF T(i) \notin SignOps THEN p["postfix", i, m]
                   ELSE LET e == p["exponent", i + 1, m] IN R(Unary(T(i), e.n), e.i)

-----------------------------------------------------------------------------
\* A list read by Items from i on, closed by close.
Closed(list, close) == R(list.n, Expect(close, list.i))
Exprs(p, i, m, es) == LET e == p["expr", i, m]
                   IN  IF T(e.i) = "," THEN Exprs(p, e.i + 1, m, Append(es, e.n))
                       ELSE R(Append(es, e.n), e.i)
\* name=value stands for the two arguments 'name', value.
FuncArgs(p, i, es) ==
  LET named == T(i) = "Ident" /\ T(i + 1) = "="
      e == p["expr", IF named THEN i + 2 ELSE i, FALSE]
      all == es \o (IF named THEN <<Quoted(Text(i))>> ELSE <<>>) \o <<e.n>>
  IN  IF T(e.i) = "," THEN FuncArgs(p, e.i + 1, all) ELSE R(all, e.i)
Maybe(close, i, list) == IF T(i) = close THEN R(<<>>, i + 1) ELSE Closed(list, close)

Index(base, args) == IF base.k = "Ident" THEN [k |-> "FuncCall", name |-> base.name, args |-> args]
                     ELSE [k |-> "Index", base |-> base, args |-> args]

\* What may follow an expression: calls and indices, fields, transposes.
PostfixWithBase(p, e, m) ==
  LET i == e.i
      more(n, j) == PostfixWithBase(p, R(n, j), m)
  IN  CASE T(i) = "(" /\ ~(m /\ ~tokensAdjacent(i - 1, i)) ->
             LET args == Maybe(")", i + 1, FuncArgs(p, i + 1, <<>>)) IN more(Index(e.n, args.n), args.i)
        [] T(i) = "[" /\ ~m ->
             LET args == Closed(Exprs(p, i + 1, m, <<>>), "]")
             IN  more([k |-> "Index", base |-> e.n, args |-> args.n], args.i)
        [] T(i) = "{" ->
             LET args == Closed(Exprs(p, i + 1, m, <<>>), "}")
             IN  more([k |-> "IndexCell", base |-> e.n, args |-> args.n], args.i)
        [] T(i) = "." /\ T(i + 1) = "Transpose" -> more(Unary(".'", e.n), i + 2)
        [] T(i) = "." /\ T(i + 1) \in {"+", "-"} -> e
        [] T(i) = "." /\ T(i + 1) = "(" ->
             LET name == p["expr", i + 2, m]
             IN  more([k |-> "MemberDynamic", base |-> e.n, name |-> name.n], Expect(")", name.i))
        [] T(i) = "." /\ T(i + 1) # "(" ->
             LET name == expectMemberName(i + 1)
                 args == Maybe(")", name.i + 1, Exprs(p, name.i + 1, m, <<>>))
             IN  IF T(name.i) # "(" THEN more([k |-> "Member", base |-> e.n, name |-> name.n], name.i)
                 ELSE more([k |-> "MethodCall", base |-> e.n, name |-> name.n, args |-> args.n], args.i)
        [] T(i) = "@" /\ e.n.k = "Ident" /\ T(i + 1) = "Ident" ->
             LET open == Expect("(", i + 2)
                 args == Maybe(")", open, Exprs(p, open, m, <<>>))
             IN  more([k |-> "SuperMethodCall", name |-> e.n.name, super |-> Lexeme(i + 1), args |-> args.n], args.i)
        [] T(i) = "Transpose" -> more(Unary("'", e.n), i + 1)
        [] OTHER -> e

Idents(i, Starts, xs) ==
  LET x == R(Lexeme(i), ExpectIn(Starts, i))
  IN  IF T(x.i) = "," THEN Idents(x.i + 1, Starts, Append(xs, x.n)) ELSE R(Append(xs, x.n), x.i)
Dotted(i, xs) == LET x == expectIdent(i)
                 IN  IF T(x.i) = "." THEN Dotted(x.i + 1, Append(xs, x.n)) ELSE R(Append(xs, x.n), x.i)

\* The end of a row of a matrix (closed by "]") or of a cell (closed by "}").
RowEnds(close) == {";", "\n", close}
CanStart == {"Ident", "Integer", "Float", "Char", "Str", "(", "[", "{", "@", "+", "-", ":",
             "true", "false", "end"}
Row(p, i, close, es) ==
  LET e == p["expr", i, TRUE]
      all == Append(es, e.n)
  IN  CASE T(e.i) = "," /\ T(e.i + 1) \in RowEnds(close) -> R(all, e.i + 1)
        [] T(e.i) = "," /\ T(e.i + 1) \notin RowEnds(close) -> Row(p, e.i + 1, close, all)
        [] T(e.i) \in CanStart -> Row(p, e.i, close, all)
        [] OTHER -> R(all, e.i)
Rows(p, i, close, rows) ==
  IF T(skipNewlines(i)) = close THEN R(rows, skipNewlines(i))
  ELSE LET row == Row(p, skipNewlines(i), close, <<>>)
           all == Append(rows, row.n)
       IN  IF T(row.i) \in {";", "\n"} THEN Rows(p, row.i + 1, close, all) ELSE R(all, skipNewlines(row.i))

Primary(p, i, m) ==
  CASE T(i) \in {"Integer", "Float"} -> R([k |-> "Number", v |-> Text(i)], i + 1)
    [] T(i) = "Char" -> R(Chars(Text(i)), i + 1)
    [] T(i) = "Str" -> R([k |-> "String", v |-> Text(i)], i + 1)
    [] T(i) \in {"Ident", "true", "false"} -> R(Ident(Lexeme(i)), i + 1)
    [] T(i) = "end" -> R([k |-> "EndKeyword"], i + 1)
    [] T(i) = ":" -> R([k |-> "Colon"], i + 1)
    [] T(i) = "@" /\ T(i + 1) = "(" ->
         LET params == Maybe(")", i + 2, Idents(i + 2, {"Ident", "import"}, <<>>))
             body == p["expr", params.i, m]
         IN  R([k |-> "AnonFunc", params |-> params.n, body |-> body.n], body.i)
    [] T(i) = "@" /\ T(i + 1) # "(" ->
         LET name == Dotted(i + 1, <<>>) IN R([k |-> "FuncHandle", name |-> name.n], name.i)
    [] T(i) = "(" -> Closed(p["expr", i + 1, FALSE], ")")
    [] T(i) = "[" -> LET rows == Closed(Rows(p, i + 1, "]", <<>>), "]")
                     IN  R([k |-> "Tensor", rows |-> rows.n], rows.i)
    [] T(i) = "{" -> LET rows == Closed(Rows(p, i + 1, "}", <<>>), "}")
                     IN  R([k |-> "Cell", rows |-> rows.n], rows.i)
    [] OTHER -> R([k |-> "none"], Stop(i, Failed))

-----------------------------------------------------------------------------
(* The command form, `hold on`: read from the raw text behind the verb.    *)

Letters == Names \cup Keywords
isCommandArgStart(p) ==
  \/ At(p) \in Letters \cup Numerals \cup {"'", "\""}
  \/ At(p) = "-" /\ At(p + 1) \in Letters
  \/ At(p) = "." /\ At(p + 1) \in Letters \cup {".", "/", "\\"}
  \/ At(p) = "~" /\ At(p + 1) \in {"/", "\\"}
canStartCommandForm(i) ==
  LET p == Past(tokens[i].e, {" "})
  IN  p > tokens[i].e /\ isCommandArgStart(p)

RECURSIVE CommandArgs(_, _)
CommandArgs(p, args) ==
  LET stops == {" ", "\n", ";", "%", ","}
      dots == {q \in p .. Len(text) : Follows(q, <<".", ".", ".">>)}
      close == Closing(p + 1, "'")
      past == Min({Seek(p, stops)} \cup dots)
  IN  CASE At(p) = " " -> CommandArgs(p + 1, args)
        [] At(p) \in {"", "\n", ";", "%", ","} -> R(args, p)
        [] p \in dots -> CommandArgs(AfterLine(p), args)
        [] At(p) = "'" -> CommandArgs(close, Append(args, Chars(SubSeq(text, p, close - 1))))
        [] OTHER -> CommandArgs(past, Append(args, Quoted(SubSeq(text, p, past - 1))))
parseCommand(i) ==
  LET args == CommandArgs(tokens[i].e, <<>>)
      later == {j \in i + 1 .. Len(tokens) : tokens[j].s >= args.i}
  IN  R([k |-> "ExprStmt", e |-> [k |-> "FuncCall", name |-> Lexeme(i), args |-> args.n]],
        IF later = {} THEN Len(tokens) + 1 ELSE Min(later))

-----------------------------------------------------------------------------
(* Assignments.                                                            *)

NotAnLValue == -2    \* the position of what is no target: the caller reads an expression
ExprStmt(p, i) == LET e == p["expr", i, FALSE] IN R([k |-> "ExprStmt", e |-> e.n], e.i)
Assigned(p, node, i) == LET e == p["expr", i, FALSE] IN R(("e" :> e.n) @@ node, e.i)

\* The indices and fields of a target.  When the arguments of a parenthesis are
\* not closed, an assignment gives up (soft) and a list of targets fails.
RECURSIVE Target(_, _, _), Targets(_, _, _)
Target(p, e, soft) ==
  LET i == e.i
      list == IF T(i) = "(" /\ T(i + 1) = ")" THEN R(<<>>, i + 1) ELSE Exprs(p, i + 1, FALSE, <<>>)
      index(kind, args) == R([k |-> kind, base |-> e.n, args |-> args.n], args.i)
      field == expectMemberName(i + 1)
      name == p["expr", i + 2, FALSE]
  IN  CASE T(i) = "(" /\ soft /\ list.i > 0 /\ T(list.i) # ")" -> R(e.n, NotAnLValue)
        [] T(i) = "(" /\ (soft => list.i < 1 \/ T(list.i) = ")") -> Target(p, index("Index", Closed(list, ")")), soft)
        [] T(i) = "[" -> Target(p, index("Index", Closed(list, "]")), soft)
        [] T(i) = "{" -> Target(p, index("IndexCell", Closed(list, "}")), soft)
        [] T(i) = "." /\ T(i + 1) = "(" ->
             Target(p, R([k |-> "MemberDynamic", base |-> e.n, name |-> name.n], Expect(")", name.i)), soft)
        [] T(i) = "." /\ T(i + 1) \notin {"(", "Transpose", "+", "-"} ->
             Target(p, R([k |-> "Member", base |-> e.n, name |-> field.n], field.i), soft)
        [] OTHER -> e
tryParseLValueAssign(p, i) ==
  LET target == Target(p, R(Ident(Lexeme(i)), i + 1), TRUE)
  IN  CASE T(target.i) = "=" -> Assigned(p, [k |-> "AssignLValue", lvalue |-> target.n], target.i + 1)
        [] target.i \in {Failed, NoEnd} -> target
        [] OTHER -> R(target.n, NotAnLValue)

MultiTarget(p, i) == CASE T(i) = "~" -> R([k |-> "Ignore"], i + 1)
                    [] T(i) = "Ident" -> Target(p, R(Ident(Lexeme(i)), i + 1), FALSE)
                    [] OTHER -> R([k |-> "none"], NotAnLValue)
Targets(p, i, ts) == LET t == MultiTarget(p, i)
                      all == Append(ts, t.n)
                  IN  CASE T(t.i) = "," -> Targets(p, t.i + 1, all)
                        [] T(t.i) \in {"Ident", "~"} -> Targets(p, t.i, all)
                        [] OTHER -> R(all, t.i)
tryParseMultiAssign(p, i) ==
  LET targets == Targets(p, i + 1, <<>>)
  IN  CASE T(targets.i) = "]" /\ T(targets.i + 1) = "=" ->
             Assigned(p, [k |-> "MultiAssign", lvalues |-> targets.n], targets.i + 2)
        [] targets.i \in {Failed, NoEnd} -> targets
        [] OTHER -> ExprStmt(p, i)

-----------------------------------------------------------------------------
(* Statements and blocks.                                                  *)

RECURSIVE Block(_, _, _, _), ElseIfs(_, _, _), Cases(_, _, _), NameList(_, _), Arguments(_, _, _),
  Entries(_, _, _)

Suppressible == {"ExprStmt", "Assign", "MultiAssign", "AssignLValue"}
Block(p, i, terms, body) ==
  IF i < 1 \/ T(i) \in terms \cup {"none"} THEN R(body, i)
  ELSE IF T(i) \in Separators THEN Block(p, i + 1, terms, body)
  ELSE LET s == p["statement", i, FALSE]
           n == IF s.n.k \in Suppressible THEN ("suppressed" :> (T(s.i) = ";")) @@ s.n ELSE s.n
       IN  Block(p, IF T(s.i) = ";" THEN s.i + 1 ELSE s.i, terms, Append(body, n))

ElseIfs(p, i, blocks) ==
  IF T(i) # "elseif" THEN R(blocks, i)
  ELSE LET c == p["expr", i + 1, FALSE]
           b == Block(p, c.i, {"else", "elseif", "end"}, <<>>)
       IN  ElseIfs(p, b.i, Append(blocks, [cond |-> c.n, body |-> b.n]))
parseIf(p, i) ==
  LET c == p["expr", i + 1, FALSE]
      then == Block(p, c.i, {"else", "elseif", "end"}, <<>>)
      blocks == ElseIfs(p, then.i, <<>>)
      else == Block(p, blocks.i + 1, {"end"}, <<>>)
      hasElse == T(blocks.i) = "else"
  IN  R([k |-> "If", cond |-> c.n, then |-> then.n, elseifs |-> blocks.n,
         else |-> IF hasElse THEN <<else.n>> ELSE <<>>],
        ExpectEnd(IF hasElse THEN else.i ELSE blocks.i))
parseWhile(p, i) ==
  LET c == p["expr", i + 1, FALSE]
      b == Block(p, c.i, {"end"}, <<>>)
  IN  R([k |-> "While", cond |-> c.n, body |-> b.n], ExpectEnd(b.i))
parseFor(p, i) ==
  LET paren == T(i + 1) = "("
      x == expectIdent(IF paren THEN i + 2 ELSE i + 1)
      e == p["expr", Expect("=", x.i), FALSE]
      b == Block(p, IF paren THEN Expect(")", e.i) ELSE e.i, {"end"}, <<>>)
  IN  R([k |-> "For", var |-> x.n, expr |-> e.n, body |-> b.n], ExpectEnd(b.i))

Cases(p, i, sw) ==
  LET v == p["expr", i + 1, FALSE]
      b == Block(p, v.i, {"case", "otherwise", "end"}, <<>>)
      other == Block(p, i + 1, {"end"}, <<>>)
  IN  CASE T(i) \in Separators -> Cases(p, i + 1, sw)
        [] T(i) = "case" -> Cases(p, b.i, [sw EXCEPT !.cases = Append(@, [value |-> v.n, body |-> b.n])])
        [] T(i) = "otherwise" -> Cases(p, other.i, [sw EXCEPT !.otherwise = <<other.n>>])
        [] OTHER -> R(sw, Expect("end", i))
parseSwitch(p, i) ==
  LET e == p["expr", i + 1, FALSE]
  IN  Cases(p, e.i, [k |-> "Switch", expr |-> e.n, cases |-> <<>>, otherwise |-> <<>>])

parseTryCatch(p, i) ==
  LET b == Block(p, i + 1, {"catch", "end"}, <<>>)
      named == T(b.i) = "catch" /\ T(b.i + 1) = "Ident"
      c == IF T(b.i) = "catch" THEN Block(p, IF named THEN b.i + 2 ELSE b.i + 1, {"end"}, <<>>)
           ELSE R(<<>>, b.i)
  IN  R([k |-> "TryCatch", body |-> b.n, var |-> IF named THEN Lexeme(b.i + 1) ELSE "",
         catch |-> c.n], Expect("end", c.i))

\* The names behind global and persistent, with or without commas.
NameList(i, xs) == CASE T(i) = "," -> LET x == expectIdent(i + 1) IN NameList(x.i, Append(xs, x.n))
                   [] T(i) = "Ident" -> NameList(i + 1, Append(xs, Lexeme(i)))
                   [] OTHER -> R(xs, i)
Declaration(kind, i) == LET xs == NameList(Expect("Ident", i + 1), <<Lexeme(i + 1)>>)
                        IN  R([k |-> kind, names |-> xs.n], xs.i)

\* The arguments blocks of a function: a name, maybe a size, a class, validators
\* and a default value on each line.  A bracket that is not closed is passed over.
Bracketed(open, close, among, i) ==
  LET j == AfterAny({","} \cup among, i + 1)
      words == SelectSeq(SubSeq(tokens, i + 1, j - 1), LAMBDA tok : tok.t # ",")
  IN  IF T(i) # open THEN R(<<>>, i)
      ELSE R([k \in DOMAIN words |-> words[k].lex[1]], IF T(j) = close THEN j + 1 ELSE j)
BlockKind(attrs) == [output |-> Contains(attrs, "output"), repeating |-> Contains(attrs, "repeating")]
EntryName(i) ==
  LET x == expectIdent(i)
      field == expectIdent(x.i + 1)
  IN  IF T(x.i) = "." THEN R(<<x.n, field.n>>, field.i) ELSE R(<<x.n>>, x.i)
EntryClass(i) == IF T(i) = "Ident" THEN R(<<Lexeme(i)>>, i + 1) ELSE R(<<>>, i)
EntryDefault(p, i) == IF T(i) = "=" THEN LET e == p["expr", i + 1, FALSE] IN R(<<e.n>>, e.i) ELSE R(<<>>, i)
ArgumentsEntry(p, i) ==
  LET name == EntryName(i)
      size == Bracketed("(", ")", {":", "Integer", "Float", "Ident"}, name.i)
      class == EntryClass(size.i)
      valid == Bracketed("{", "}", {"Ident"}, class.i)
      default == EntryDefault(p, valid.i)
  IN  R([name |-> name.n, size |-> size.n, class |-> class.n, validators |-> valid.n, default |-> default.n], default.i)
Entries(p, i, es) ==
  LET at == AfterAny(Separators, i)
      more(entry) == Entries(p, entry.i, Append(es, entry.n))
  IN  CASE T(at) = "none" -> R(es, i)
        [] T(at) = "end" -> R(es, at + 1)
        [] OTHER -> more(ArgumentsEntry(p, at))
Arguments(p, i, blocks) ==
  LET at == AfterAny(Separators, i)
      attrs == Bracketed("(", ")", {"Ident"}, at + 1)
      more(es) == Arguments(p, es.i, Append(blocks, [kind |-> BlockKind(attrs.n), entries |-> es.n]))
  IN  IF T(at) # "arguments" THEN R(blocks, at) ELSE more(Entries(p, attrs.i, <<>>))

\* [outputs] = name(parameters), for a function and for a method without a body.
Outputs(i, Starts) ==
  LET list == Closed(Idents(i + 1, Starts, <<>>), "]")
  IN  CASE T(i) = "[" -> R(list.n, Expect("=", list.i))
        [] T(i) = "Ident" /\ T(i + 1) = "=" -> R(<<Lexeme(i)>>, i + 2)
        [] OTHER -> R(<<>>, i)
Parameters(i, Starts) == IF T(i) = "(" THEN Maybe(")", i + 1, Idents(i + 1, Starts, <<>>)) ELSE R(<<>>, i)
FunctionHead(outputs, Starts) ==
  LET name == expectIdent(outputs.i)
      params == Parameters(name.i, Starts)
  IN  R([name |-> name.n, params |-> params.n, outputs |-> outputs.n], params.i)

FunctionBody(p, head, args) ==
  LET body == Block(p, args.i, {"end"}, <<>>)
  IN  R([k |-> "Function", arguments |-> args.n, body |-> body.n] @@ head.n, ExpectEnd(body.i))
\* varargin and varargout stand last.
Placed(xs, x) == \A k \in 1 .. Len(xs) - 1 : xs[k] # x
parseFunction(p, i) ==
  LET head == FunctionHead(Outputs(i + 1, {"Ident", "~"}), {"Ident", "~"})
      placed == Placed(head.n.params, "varargin") /\ Placed(head.n.outputs, "varargout")
      behind == IF placed THEN head.i ELSE Stop(head.i, Failed)
  IN  FunctionBody(p, head, Arguments(p, behind, <<>>))

-----------------------------------------------------------------------------
(* Classes and imports.                                                    *)

RECURSIVE Properties(_, _, _), Attributes(_, _), ImportPath(_, _), Members(_, _, _), Methods(_, _, _, _)

parseImport(i) == LET p == ImportPath(i + 1, <<>>)
                  IN  R([k |-> "Import", path |-> p.n, wildcard |-> T(p.i - 1) \in {"*", ".*"}], p.i)
ImportPath(i, path) ==
  LET x == expectIdent(i)
      to == Append(path, x.n)
  IN  CASE T(x.i) = ".*" -> R(to, x.i + 1)
        [] T(x.i) = "." /\ T(x.i + 1) = "*" -> R(to, x.i + 2)
        [] T(x.i) = "." /\ T(x.i + 1) # "*" -> ImportPath(x.i + 1, to)
        [] OTHER -> R(to, x.i)

\* The brace that closes the one at i, or the end of the file.
BraceEnd(i) ==
  LET depth(j) == Cardinality({l \in i .. j : T(l) = "{"}) - Cardinality({l \in i .. j : T(l) = "}"})
      closing == {j \in i .. Len(tokens) : depth(j) = 0}
  IN  IF closing = {} THEN Len(tokens) ELSE Min(closing)
\* (Name, Name=value, Name={...}): whatever is no name is passed over.
Attributes(i, attrs) ==
  LET valueEnd == IF T(i + 2) = "{" THEN BraceEnd(i + 2) ELSE Min({i + 2, Len(tokens)})
      value == FlattenSeq([j \in 1 .. valueEnd - i - 1 |-> Text(i + 1 + j)])
  IN  CASE T(i) = ")" -> R(attrs, i + 1)
        [] T(i) = "none" -> R(attrs, i)
        [] T(i) = "Ident" /\ T(i + 1) = "=" -> Attributes(valueEnd + 1, Append(attrs, [name |-> Lexeme(i), value |-> value]))
        [] T(i) = "Ident" /\ T(i + 1) # "=" -> Attributes(i + 1, Append(attrs, [name |-> Lexeme(i), value |-> <<>>]))
        [] OTHER -> Attributes(i + 1, attrs)
parseOptionalAttrList(i) == IF T(i) = "(" THEN Attributes(i + 1, <<>>) ELSE R(<<>>, i)

Properties(p, i, props) ==
  LET at == AfterAny(Separators, i)
      value == p["expr", at + 2, FALSE]
  IN  IF T(at) # "Ident" THEN R(props, at)
      ELSE IF T(at + 1) = "=" THEN Properties(p, value.i, Append(props, [name |-> Lexeme(at), default |-> <<value.n>>]))
      ELSE Properties(p, at + 1, Append(props, [name |-> Lexeme(at), default |-> <<>>]))
parseNameBlock(i) == LET j == AfterAny(Separators \cup {"Ident"}, i)
                         words == SelectSeq(SubSeq(tokens, i, j - 1), LAMBDA tok : tok.t = "Ident")
                     IN  R([n \in DOMAIN words |-> words[n].lex[1]], j)

\* A method without a body, or <<>> when no name follows the outputs, which are
\* passed over all the same.
SignatureFrom(outputs) ==
  IF outputs.i > 0 /\ T(outputs.i) \notin {"Ident", "import"} THEN R(<<>>, outputs.i)
  ELSE FunctionHead(outputs, {"Ident", "import"})
parseSingleMethodSignature(i) == SignatureFrom(Outputs(i, {"Ident", "import"}))

\* An abstract block holds signatures; any other holds functions as well.
isAbstract(attrs) == \E a \in Range(attrs) : a.name = "abstract" /\ a.value \in {<<>>, <<"true">>}
Methods(p, i, abstract, m) ==
  LET at == AfterAny(Separators, i)
      f == p["statement", at, FALSE]
      starts == IF abstract THEN T(at) # "end" ELSE T(at) \in {"Ident", "import", "["}
      signed(sig) == CASE sig.n # <<>> -> Methods(p, sig.i, abstract, [m EXCEPT !.signatures = Append(@, sig.n)])
                       [] sig.n = <<>> /\ abstract -> R(m, sig.i)
                       [] OTHER -> Methods(p, sig.i, abstract, m)
  IN  CASE T(at) = "function" /\ ~abstract -> Methods(p, f.i, abstract, [m EXCEPT !.body = Append(@, f.n)])
        [] starts /\ T(at) # "none" -> signed(parseSingleMethodSignature(at))
        [] OTHER -> R(m, at)

Content(p, node, i) ==
  LET props == Properties(p, i, <<>>)
      names == parseNameBlock(i)
  IN  CASE node.k = "properties" -> R([props |-> props.n] @@ node, props.i)
        [] node.k = "methods" -> Methods(p, i, isAbstract(node.attributes), [body |-> <<>>, signatures |-> <<>>] @@ node)
        [] OTHER -> R([names |-> names.n] @@ node, names.i)
Members(p, i, ms) ==
  LET at == AfterAny(Separators, i)
      attrs == parseOptionalAttrList(at + 1)
      more(content) == Members(p, Expect("end", content.i), Append(ms, content.n))
  IN  CASE T(at) \in {"properties", "methods", "events", "enumeration", "arguments"} ->
             more(Content(p, [k |-> T(at), attributes |-> attrs.n], attrs.i))
        [] T(at) = "end" -> R(ms, at + 1)
        [] OTHER -> R(ms, at)
parseClassDef(p, i) ==
  LET attrs == parseOptionalAttrList(i + 1)
      name == Dotted(attrs.i, <<>>)
      super == IF T(name.i) = "<" THEN Dotted(name.i + 1, <<>>) ELSE R(<<>>, name.i)
      class(ms) == R([k |-> "ClassDef", name |-> name.n, attributes |-> attrs.n, super |-> super.n, members |-> ms.n], ms.i)
  IN  class(Members(p, super.i, <<>>))

\* Not here: `import(...)`, which the code turns into a call of a function of
\* that name, and which is refused here.
Stmt(p, i) ==
  CASE T(i) = "if" -> parseIf(p, i)
    [] T(i) = "for" -> parseFor(p, i)
    [] T(i) = "while" -> parseWhile(p, i)
    [] T(i) = "switch" -> parseSwitch(p, i)
    [] T(i) = "try" -> parseTryCatch(p, i)
    [] T(i) \in {"global", "persistent"} -> Declaration(T(i), i)
    [] T(i) \in {"break", "continue", "return"} -> R([k |-> T(i)], i + 1)
    [] T(i) = "function" -> parseFunction(p, i)
    [] T(i) = "import" /\ T(i + 1) # "(" -> parseImport(i)
    [] T(i) = "classdef" -> parseClassDef(p, i)
    [] T(i) = "[" -> tryParseMultiAssign(p, i)
    [] T(i) = "Ident" /\ T(i + 1) = "=" -> Assigned(p, [k |-> "Assign", name |-> Lexeme(i)], i + 2)
    [] T(i) = "Ident" /\ T(i + 1) # "=" ->
         LET lv == tryParseLValueAssign(p, i)
         IN  CASE lv.i # NotAnLValue -> lv
               [] \/ canStartCommandForm(i)
                  \/ T(i + 1) = "Ident" /\ T(i + 2) \in {"(", ".", "[", "{", "Transpose"} -> parseCommand(i)
               [] OTHER -> ExprStmt(p, i)
    [] OTHER -> ExprStmt(p, i)

\* The grammar: what rule r reads from position i.
Rules == {"expr", "range", "sum", "product", "signed", "exponent", "postfix", "primary", "statement"}
parse[r \in Rules, i \in Int, m \in BOOLEAN] ==
  CASE r = "expr" -> Level(parse, 1, i, m)
    [] r = "range" -> parseRange(parse, i, m)
    [] r = "sum" -> AddSub(parse, parse["product", i, m], m)
    [] r = "product" -> MulDiv(parse, parse["signed", i, m], m)
    [] r = "signed" -> Signed(parse, i, m)
    [] r = "exponent" -> PowRHS(parse, i, m)
    [] r = "postfix" -> parsePostfix(parse, i, m)
    [] r = "primary" -> Primary(parse, i, m)
    [] r = "statement" -> Stmt(parse, i)

parseProgram == Block(parse, 1, {}, <<>>)
=============================================================================
