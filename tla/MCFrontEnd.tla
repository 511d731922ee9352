----------------------------- MODULE MCFrontEnd -----------------------------
EXTENDS FrontEnd, Grammar

A == Ident("a")
B == Ident("b")
One == [k |-> "Number", v |-> <<"1">>]
Half == [k |-> "Number", v |-> <<"1", ".", "2">>]
X == [k |-> "String", v |-> <<"\"", "a", "\"", "\"", "\"">>]
C == [k |-> "Char", v |-> <<"'", "a", "'", "'", " ", "'">>]
Call(args) == [k |-> "FuncCall", name |-> "a", args |-> args]
Brace(x) == [k |-> "IndexCell", base |-> A, args |-> <<x>>]
Field(x) == [k |-> "Member", base |-> x, name |-> "b"]
Span(x, step, y) == [k |-> "Range", start |-> x, step |-> step, end |-> y]
Tensor(rows) == [k |-> "Tensor", rows |-> rows]
Cell(rows) == [k |-> "Cell", rows |-> rows]
Anon(e) == [k |-> "AnonFunc", params |-> <<"b">>, body |-> e]

Operators == {"||", "&&", "|", "&", "<=", "-", ".*", "^"}
Built(l, r) == {Binary(op, l, r) : op \in Operators} \cup {Span(l, <<>>, r)}
Applied(e) == {Unary("-", e), Unary("~", e), Unary("'", e), Unary(".'", e), Call(<<e>>)}
Small == {A, One} \cup Built(A, One) \cup Applied(B)

\* Every two operators, on the left and on the right of a third ...
Deep == UNION {Built(l, r) : l \in Small, r \in Small} \cup UNION {Applied(e) : e \in Small}
\* ... and what one operator cannot show.
Odd == {X, C, Half, Unary("'", X), Unary("-", Half), Span(A, <<Unary("-", One)>>, B),
        Brace(Binary("-", [k |-> "EndKeyword"], One)), Field(Field(A)), Field(Call(<<A>>)),
        Call(<<>>), Call(<<C, [k |-> "Colon"]>>), Unary("'", Field(A)), Unary("'", Unary(".'", A)),
        [k |-> "MethodCall", base |-> A, name |-> "end", args |-> <<One, B>>],
        [k |-> "MemberDynamic", base |-> A, name |-> C], [k |-> "Index", base |-> Brace(A), args |-> <<One>>],
        Anon(Binary("||", A, B)), [k |-> "FuncHandle", name |-> <<"a", "b">>], Call(<<Anon(A), One>>),
        Tensor(<<>>), Tensor(<<<<Tensor(<<<<A, B>>>>), Unary("'", A)>>, <<C>>>>), Cell(<<<<C, X>>, <<Cell(<<>>)>>>>),
        Unary("'", Tensor(<<<<A>>>>)), Binary("-", Unary("'", A), C), Binary("^", A, Binary("^", B, One)),
        Binary("*", Call(<<Binary("-", A, One)>>), Unary("-", Unary("-", B))), Binary(".^", Half, Half),
        Binary("./", One, One), Unary("~", Unary("~", A)), Binary("==", A, Unary("~", B))}
Elements == {e \in Small \cup {C, X, Brace(A), Unary("+", One), Call(<<Binary("-", A, One)>>)} :
               ~(e.k = "Unary" /\ e.op = "~")}
Matrices == {Tensor(<<<<d, e>>>>) : d, e \in Elements} \cup {Cell(<<<<A, e>>, <<e>>>>) : e \in Elements}

Assign(e) == [k |-> "Assign", name |-> "a", e |-> e, suppressed |-> TRUE]
Shown(e) == [k |-> "ExprStmt", e |-> e, suppressed |-> FALSE]
Layouts == {Tight, Airy, Lopsided, Wrapped}

Expressions == {[st |-> st, tree |-> <<Assign(e)>>] : st \in Layouts, e \in Odd \cup Matrices}
Trees == {[st |-> st, tree |-> <<Assign(e)>>] : st \in {Tight, Lopsided}, e \in Deep}

\* Assignments to a part: every two steps into a target.
Into(t) == {[k |-> "Index", base |-> t, args |-> <<>>], [k |-> "Index", base |-> t, args |-> <<One, [k |-> "Colon"]>>],
            [k |-> "IndexCell", base |-> t, args |-> <<B>>], [k |-> "Member", base |-> t, name |-> "b"],
            [k |-> "MemberDynamic", base |-> t, name |-> B]}
Parts == Into(A) \cup UNION {Into(t) : t \in Into(A)}
Stores == {<<[k |-> "AssignLValue", lvalue |-> t, e |-> One, suppressed |-> FALSE]>> : t \in Parts}
     \cup {<<[k |-> "MultiAssign", lvalues |-> <<t, u>>, e |-> Call(<<>>), suppressed |-> TRUE]>> :
             t \in Into(A) \cup {[k |-> "Ignore"]}, u \in Into(B) \cup {B, [k |-> "Ignore"]}}

\* Blocks in blocks, and several statements in a row.
Simple == {Assign(One), Shown(Unary("'", A)), Shown(Call(<<C>>)), [k |-> "break"]}
If(c, t, elseifs, else) == [k |-> "If", cond |-> c, then |-> t, elseifs |-> elseifs, else |-> else]
Blocks(body) ==
  {If(A, body, <<>>, <<>>), If(Binary("<=", A, One), <<>>, <<>>, <<body>>),
   If(A, body, <<[cond |-> B, body |-> body]>>, <<<<>>>>),
   [k |-> "While", cond |-> Unary("~", A), body |-> body],
   [k |-> "For", var |-> "b", expr |-> Span(One, <<>>, A), body |-> body],
   [k |-> "Switch", expr |-> A, cases |-> <<[value |-> C, body |-> body], [value |-> Cell(<<<<C>>>>), body |-> <<>>]>>,
    otherwise |-> <<body>>],
   [k |-> "Switch", expr |-> A, cases |-> <<>>, otherwise |-> <<>>],
   [k |-> "TryCatch", body |-> body, var |-> "b", catch |-> body],
   [k |-> "TryCatch", body |-> body, var |-> "", catch |-> <<>>]}
Bodies == {<<>>} \cup {<<s>> : s \in Simple} \cup {<<s, t>> : s, t \in Simple}
Inner == UNION {Blocks(b) : b \in {<<Assign(One)>>, <<Shown(A), Assign(A)>>}}
Nested == UNION {Blocks(b) : b \in Bodies} \cup UNION {Blocks(<<i, Assign(A)>>) : i \in Inner}
Scripts == {<<s>> : s \in Nested} \cup {<<Assign(A), s, Shown(B)>> : s \in Inner} \cup {<<s, t>> : s, t \in Simple}
      \cup {<<[k |-> "global", names |-> <<"a", "b">>], Assign(A)>>, <<[k |-> "persistent", names |-> <<"b">>]>>}

\* Functions, with a script before them or not.
Function(outs, params, body) == [k |-> "Function", name |-> "b", params |-> params, outputs |-> outs,
                                 arguments |-> <<>>, body |-> body]
FunctionBodies == {<<>>, <<Assign(One)>>, <<Assign(Call(<<Binary("-", [k |-> "EndKeyword"], One)>>)), [k |-> "return"]>>}
             \cup {<<b>> : b \in Inner}
Functions_ == {Function(o, p, b) : o \in {<<>>, <<"a">>, <<"a", "b">>}, p \in {<<>>, <<"~", "a">>}, b \in FunctionBodies}
OneBody == {Function(<<"a">>, <<>>, b) : b \in FunctionBodies}
FunctionFiles == {<<f>> : f \in Functions_} \cup {<<f, g>> : f, g \in OneBody} \cup {<<Assign(A), f>> : f \in OneBody}

\* Functions that declare their arguments.
Entry(name, size, class, validators, default) ==
  [name |-> name, size |-> size, class |-> class, validators |-> validators, default |-> default]
ArgumentsLists == {<<>>} \cup {<<Entry(n, s, c, v, d)>> : n \in {<<"a">>, <<"a", "b">>}, s \in {<<>>, <<"1", ":">>},
                                c \in {<<>>, <<"b">>}, v \in {<<>>, <<"a", "b">>}, d \in {<<>>, <<Tensor(<<<<One, B>>>>)>>}}
Declared(o, r, es) == [kind |-> [output |-> o, repeating |-> r], entries |-> es]
Typed(blocks) == [Function(<<>>, <<"a">>, <<Assign(One)>>) EXCEPT !.arguments = blocks]
ArgumentsFiles == {<<Typed(<<Declared(FALSE, FALSE, es)>>)>> : es \in ArgumentsLists}
             \cup {<<Typed(<<Declared(o, r, <<Entry(<<"a">>, <<>>, <<>>, <<>>, <<>>), Entry(<<"b">>, <<"b">>, <<>>, <<>>, <<A>>)>>),
                             Declared(TRUE, r, <<>>)>>)>> : o, r \in BOOLEAN}

\* ... some or all of the functions of a file.
SomeDeclared == LET d == Typed(<<Declared(FALSE, FALSE, <<Entry(<<"a">>, <<>>, <<>>, <<>>, <<>>)>>)>>)
                IN  {<<d, f>> : f \in OneBody} \cup {<<f, d>> : f \in OneBody} \cup {<<Assign(A), d, d>>}

\* Classes and imports.
Attr(v) == [name |-> "abstract", value |-> v]
AttrLists == {<<>>, <<Attr(<<>>)>>, <<Attr(<<"true">>)>>, <<Attr(<<"{", "a", ",", "{", "b", "}", "}">>), Attr(<<"1">>)>>}
Signature == [name |-> "b", params |-> <<"a">>, outputs |-> <<"a", "b">>]
ClassMembers ==
  {[k |-> "properties", attributes |-> at, props |-> ps] : at \in AttrLists,
     ps \in {<<>>, <<[name |-> "a", default |-> <<One>>], [name |-> "b", default |-> <<>>]>>}}
  \cup {[k |-> "methods", attributes |-> at, signatures |-> <<Signature>>,
          body |-> IF at \in {<<Attr(<<>>)>>, <<Attr(<<"true">>)>>} THEN <<>> ELSE fs] :
             at \in AttrLists, fs \in {<<>>, <<Function(<<"a">>, <<>>, <<Assign(One)>>), Function(<<>>, <<"a">>, <<>>)>>}}
  \cup {[k |-> kind, attributes |-> at, names |-> xs] : kind \in {"events", "enumeration", "arguments"},
                                                        at \in AttrLists, xs \in {<<"a">>, <<"a", "b">>}}
Class(at, super, ms) == [k |-> "ClassDef", name |-> <<"a">>, attributes |-> at, super |-> super, members |-> ms]
ClassFiles == {<<Class(at, s, <<m>>)>> : at \in AttrLists, s \in {<<>>, <<"b", "a">>}, m \in ClassMembers}
         \cup {<<Class(<<>>, <<>>, <<m, n>>)>> : m, n \in ClassMembers}
         \cup {<<[k |-> "Import", path |-> <<"a", "b">>, wildcard |-> w], Assign(One)>> : w \in BOOLEAN}

Laid(styles, trees) == {[st |-> st, tree |-> t] : st \in styles, t \in trees}
Printed == {Expressions, Trees, Laid({Tight, Airy}, Stores), Laid({Tight, Airy, Commented}, Scripts),
            Laid({Airy, NoEnds(Airy), Commented, NoEnds(Commented)}, FunctionFiles),
            Laid({Airy, Tight}, ArgumentsFiles), Laid({NoEnds(Airy)}, ArgumentsFiles \cup SomeDeclared),
            Laid({Airy}, ClassFiles)}
\* Two functions of which one has its end.
Mixed == {<<[st |-> a[1], tree |-> <<f>>], [st |-> a[2], tree |-> <<g>>]>> :
            a \in {<<Airy, NoEnds(Airy)>>, <<NoEnds(Airy), Airy>>}, f, g \in OneBody}
Families == {{<<f>> : f \in fs} : fs \in Printed} \cup {Mixed}
TextOf(parts) == FlattenSeq([k \in DOMAIN parts |-> Body(parts[k].tree, parts[k].st)])
\* No `end` of its own, and an arguments block.
Overlooks(part) == ~part.st.ends /\ \E s \in Range(part.tree) : s.k = "Function" /\ s.arguments # <<>>
WhatItSays(parts) == CASE Len(parts) > 1 -> Rejected
                       [] Overlooks(parts[1]) -> Overlooked
                       [] OTHER -> parts[1].tree
Written == {{[text |-> TextOf(parts), tree |-> WhatItSays(parts)] : parts \in family} : family \in Families}

\* Commands: the rest of the line is words, and quotes group.
Words == {<<"b">>, <<"-", "b">>, <<"b", ".", "a">>, <<"1">>, <<"'", "b", " ", "a", "'">>, <<"~", "/", "b">>}
WordArg(w) == IF w[1] = "'" THEN Chars(w) ELSE Quoted(w)
Command(ws, stop) ==
  [text |-> <<"a">> \o FlattenSeq([k \in DOMAIN ws |-> <<" ">> \o ws[k]]) \o stop,
   tree |-> <<[k |-> "ExprStmt", e |-> [k |-> "FuncCall", name |-> "a", args |-> [k \in DOMAIN ws |-> WordArg(ws[k])]],
               suppressed |-> stop = <<";">>]>>]
Commands == {Command(ws, stop) : ws \in {<<v, w>> : v, w \in Words} \cup {<<w>> : w \in Words},
                                 stop \in {<<";">>, <<"\n">>, <<" ", "%", "b">>}}

\* Files nobody wrote on purpose.
Alphabet == {"a", "1", "end", "'", "\"", ".", "\n", "%", "{", "}", ";", "(", "=", "#"}
Scraps == {[text |-> t, tree |-> Unspecified] : t \in UNION {[1 .. n -> Alphabet] : n \in 0 .. 3}}

MCFiles == Written \cup {Commands, Scraps}
=============================================================================
