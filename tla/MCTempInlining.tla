--------------------------- MODULE MCTempInlining ---------------------------
(***************************************************************************)
(* Programs for TempInlining: every straight line of three statements from *)
(* a list that has each kind of producer and consumer, and an if, a while  *)
(* or a for, with such statements in it, between two others.               *)
(***************************************************************************)
EXTENDS TempInlining

T(x) == VarRead(x, "tensor")
S(x) == VarRead(x, "scalar")
Lit(n) == Node("lit", n, <<>>, "scalar")
Op(n, e, f) == Node("op", n, <<e, f>>, "tensor")
Call(f, e) == Node("call", f, <<e>>, "tensor")
Size(e) == Node("direct", "reshape", <<e>>, "tensor")
Total(e) == Node("reduce", "sum", <<e>>, "scalar")
Row(e) == Node("literal", "row", <<e, Lit("1")>>, "tensor")
UpTo(e) == Node("range", "colon", <<Lit("1"), Lit("1"), e>>, "tensor")
At(x, e) == Node("load", "at", <<T(x), e>>, "scalar")
Part(x, e) == Node("slice", "part", <<T(x), e>>, "tensor")
Field(x) == Node("member", "f", <<VarRead(x, "struct")>>, "tensor")
And(e, f) == Node("op", "and", <<e, f>>, "scalar")
Bad == Lit("9")

Disp(e) == Statement("print", <<>>, <<e>>, <<>>)
If(conds, bodies) == Statement("if", <<>>, conds, bodies)
While(c, b) == Statement("while", <<>>, <<c>>, <<b>>)
For(e, b) == Statement("for", <<"n">>, <<Lit("1"), Lit("1"), e>>, <<b>>)
Jump(k, outs) == Statement(k, outs, <<>>, <<>>)

Plus == Assign("x", Op("+", T("a"), Lit("1")))
Twice == Assign("y", Op("*", T("x"), Lit("2")))
Simple == {
  Plus, Twice, Disp(T("y")),
  Assign("x", Op("+", T("a"), At("y", S("k")))),
  Assign("x", Op("+", T("a"), At("a", Bad))),
  Assign("y", Op("+", T("x"), T("x"))),
  Assign("y", Call("f", Op("*", T("x"), Lit("2")))),
  Assign("y", Op("+", Part("x", S("k")), T("a"))),
  Assign("y", Op("*", T("a"), At("x", S("k")))),
  Assign("y", Op("*", T("a"), Total(Op("*", T("x"), Lit("2"))))),
  Assign("y", Row(Total(T("x")))),
  Assign("y", UpTo(Total(T("x")))),
  Assign("y", Op("+", UpTo(At("x", S("k"))), T("x"))),
  Assign("y", Size(Op("+", T("x"), Size(T("a"))))),
  Assign("k", Total(Op("*", T("x"), Lit("2")))),
  Assign("a", T("x")),
  Disp(Op("*", T("x"), Call("g", T("a")))),
  Statement("eval", <<>>, <<Call("g", T("x"))>>, <<>>),
  Statement("store", <<"a">>, <<S("k"), Lit("2")>>, <<>>),
  Statement("store", <<"x">>, <<S("k"), Total(Call("f", T("y")))>>, <<>>),
  Statement("multi", <<"a", "y">>, <<Op("+", T("x"), Lit("2"))>>, <<>>),
  Statement("mstore", <<"s">>, <<Op("+", T("x"), Field("s"))>>, <<>>),
  Assign("s", Node("struct", "lit", <<Op("+", T("x"), Lit("2"))>>, "struct"))}

Inner == {<<Plus>>, <<Twice>>, <<Plus, Twice>>, <<Plus, Twice, Disp(T("y"))>>, <<Plus, Jump("break", <<>>)>>}
Conds == {S("k"), Total(Op("*", T("x"), Lit("2"))), Total(Part("a", Bad)), Total(Call("g", T("a")))}
Nested ==
  {If(<<c>>, <<b, <<>>>>) : c \in Conds \union {And(S("k"), c) : c \in Conds}, b \in Inner \ {<<Plus, Jump("break", <<>>)>>}}
  \union {If(<<S("k"), c>>, <<<<Plus>>, b, <<Twice>>>>) : c \in Conds, b \in Inner \ {<<Plus, Jump("break", <<>>)>>}}
  \union {While(c, b) : c \in {S("k"), Total(T("x"))}, b \in Inner}
  \union {For(Total(Op("+", T("a"), Lit("1"))), b) : b \in Inner}
  \union {While(S("k"), <<Disp(T("x")), If(<<S("k")>>, <<<<Plus, Twice, Jump("continue", <<>>)>>, <<Twice>>>>)>>),
          If(<<S("k")>>, <<<<Plus, Jump("return", <<"y">>)>>, <<>>>>)}
Before == {Plus, Assign("z", Op("+", T("a"), Lit("1"))), Assign("x", Call("f", T("a")))}
After == {Disp(T("x")), Disp(T("y")), Twice}

Chain == <<Plus, Twice, Assign("z", Op("+", T("y"), T("a"))), Assign("w", Op("*", T("z"), T("z"))), Disp(T("w"))>>
Straight == {<<s, t, u>> : s \in Simple, t \in Simple, u \in Simple}
Around == {<<s, t, u>> : s \in Before, t \in Nested, u \in After}
MCPrograms == [outs : {<<>>, <<"y">>}, body : Straight \union Around \union {Chain}]

MCTruths == {<<a, b, c>> : a \in BOOLEAN, b \in BOOLEAN, c \in BOOLEAN}
=============================================================================
