------------------------------- MODULE MCCalls -------------------------------
EXTENDS CallMeaning

Var(n) == [k |-> "var", name |-> n]
Lit(i) == [k |-> "num", n |-> i]
Less(n) == [k |-> "less", name |-> n]

Put(t, v) == [k |-> "set", target |-> t, value |-> v]
Call_(form, ts, n, as) == [k |-> "call", form |-> form, targets |-> ts, name |-> n, args |-> as]
Give(t, n, as) == Call_("expr", <<t>>, n, as)
Fn(n, ps, os, body) == [name |-> n, params |-> ps, outputs |-> os, body |-> body]
File(dir, base, fns, classes) ==
  [dir |-> dir, base |-> base, functions |-> fns, classes |-> classes, imports |-> <<>>, script |-> <<>>]

-----------------------------------------------------------------------------
(* Programs in one file: two functions that may call each other, one that   *)
(* takes a handle, one with two outputs, and a script.                                   *)

Apply == Fn("apply", <<"h", "x">>, <<"y">>, <<Give("y", "h", <<Var("x")>>)>>)
FBodies == {<<Put("y", Var("x"))>>,
            <<Give("y", "g", <<Var("x"), Var("x")>>)>>,
            <<Put("y", Var("x")), [k |-> "stop", name |-> "x"], Give("y", "f", <<Less("x")>>)>>,
            <<Give("y", "f", <<Var("x")>>)>>,
            <<[k |-> "anon", target |-> "h", params |-> <<"p">>, name |-> "g", args |-> <<Var("p"), Var("x")>>],
              Give("y", "apply", <<Var("h"), Lit(3)>>)>>,
            <<[k |-> "anon", target |-> "h", params |-> <<"p">>, name |-> "sin", args |-> <<Var("p")>>],
              Give("y", "apply", <<Var("h"), Var("x")>>)>>}
GBodies == {<<Put("y", Var("c"))>>, <<Give("y", "f", <<Var("x")>>)>>, <<Give("y", "sin", <<Var("x")>>)>>}
Makers ==
  {Put("a", Lit(1)), Put("a", Lit(2)), Give("a", "sin", <<Lit(1)>>),
   [k |-> "handle", target |-> "h", name |-> "f"], [k |-> "handle", target |-> "h", name |-> "sin"],
   [k |-> "anon", target |-> "h", params |-> <<"p">>, name |-> "g", args |-> <<Var("p"), Var("a")>>],
   [k |-> "anon", target |-> "h", params |-> <<"a">>, name |-> "h", args |-> <<Var("a")>>]}
Users ==
  {Give("b", "h", <<Var("a")>>), Give("b", "apply", <<Var("h"), Var("a")>>),
   Give("b", "f", <<Var("a")>>), Give("b", "g", <<Lit(1), Var("a")>>),
   Call_("multi", <<"a", "b">>, "two", <<Var("a")>>), Call_("multi", <<"b">>, "f", <<Var("a")>>),
   Call_("bare", <<>>, "two", <<Var("a")>>), Call_("bare", <<>>, "disp", <<Var("a")>>), Call_("bare", <<>>, "f", <<Var("a")>>)}
Two == Fn("two", <<"x">>, <<"u", "v">>, <<Put("u", Var("x")), Give("v", "f", <<Var("x")>>)>>)

OneFile ==
  {<<[File(<<>>, "main", <<Fn("f", <<"x">>, <<"y">>, fb), Fn("g", <<"x", "c">>, <<"y">>, gb), Apply, Two>>, <<>>)
        EXCEPT !.script = <<Put("a", Lit(1)), s1, s2, s3>>]>> :
     fb \in FBodies, gb \in GBodies, s1 \in Makers, s2 \in Makers \cup Users, s3 \in Users}

-----------------------------------------------------------------------------
(* Projects: the places a function called "t" can be in, and those it can   *)
(* be called from.  Each place's function returns a number of its own.      *)

T(mark) == Fn("t", <<"x">>, <<"y">>, <<Put("y", Lit(mark))>>)
Caller(n) == Fn(n, <<"x">>, <<"y">>, <<Give("y", "t", <<Var("x")>>)>>)
Block(static, fns) == [static |-> static, body |-> fns, signatures |-> <<>>]
ClassDef(n, super, methods) ==
  [name |-> n, superClass |-> super, inferior |-> {}, methods |-> methods]
New(n) == Fn(n, <<>>, <<"o">>, <<>>)

\* Two classes; the methods called "t" are in D, in its parent C, or in neither.
Makes(inC, inD, inferior) ==
  <<ClassDef("C", NoName, <<Block(FALSE, <<New("C"), Caller("call")>> \o inC)>>),
    [ClassDef("D", <<"C">>, <<Block(FALSE, <<New("D")>>), Block(TRUE, <<Fn("make", <<"x">>, <<"y">>, <<Put("y", Lit(20))>>)>>),
                              Block(FALSE, inD)>>) EXCEPT !.inferior = inferior]>>

Few(x) == {<<>>, <<x>>}
Uses == {<<Give("r", "t", <<Var("o")>>)>>, <<Give("r", "t", <<Lit(1)>>)>>, <<Give("r", "t", <<Var("o"), Var("q")>>)>>,
         <<Give("r", "near", <<Var("o")>>)>>,
         <<[k |-> "method", base |-> "o", name |-> "t", args |-> <<>>, targets |-> <<"r">>]>>,
         <<[k |-> "method", base |-> "o", name |-> "call", args |-> <<>>, targets |-> <<"r">>]>>,
         <<[k |-> "method", base |-> "D", name |-> "make", args |-> <<Lit(1)>>, targets |-> <<"r">>]>>,
         <<[k |-> "method", base |-> "o", name |-> "make", args |-> <<Lit(1)>>, targets |-> <<"r">>]>>,
         <<[k |-> "super", name |-> "t", parent |-> <<"C">>, args |-> <<Var("o")>>, targets |-> <<"r">>]>>,
         <<[k |-> "super", name |-> "o", parent |-> <<"C">>, args |-> <<>>, targets |-> <<"r">>]>>}

Helped == {<<Give("r", "help", <<Var("o")>>)>>, <<Give("r", "help", <<Lit(1)>>)>>}

Imports == {<<>>, <<[path |-> <<"p", "t">>, wildcard |-> FALSE]>>, <<[path |-> <<"p">>, wildcard |-> TRUE]>>}

\* Where "t" is: a local function of the main file, of the helper's file, a
\* file of its own, of the package, a private file, a method.
Placed(main, helper, own, package, private, imports, inC, inD, inferior, use, object) ==
  <<[File(<<>>, "main", <<Caller("near")>> \o main, Makes(inC, inD, inferior))
       EXCEPT !.script = <<Give("o", object, <<>>), Give("q", "C", <<>>)>> \o use],
    [File(<<>>, "help", <<Caller("help")>> \o helper, <<>>) EXCEPT !.imports = imports]>>
  \o [i \in DOMAIN own |-> File(<<>>, "t", own, <<>>)]
  \o [i \in DOMAIN package |-> File(<<<<"+", "p">>>>, "t", package, <<>>)]
  \o [i \in DOMAIN private |-> File(<<PRIVATE>>, "t", private, <<>>)]

FromMain ==
  {Placed(m, <<>>, o, <<>>, <<>>, <<>>, c, d, inf, u, ob) :
     m \in Few(T(1)), o \in Few(T(3)), c \in Few(T(6)), d \in Few(T(7)), inf \in {{}, {<<"C">>}},
     u \in Uses, ob \in {"C", "D"}}
FromHelper ==
  {Placed(m, h, o, p, v, im, c, d, {}, u, ob) :
     m \in Few(T(1)), h \in Few(T(2)), o \in Few(T(3)), p \in Few(T(4)), v \in Few(T(5)), im \in Imports,
     c \in Few(T(6)), d \in Few(T(7)), u \in Helped, ob \in {"C", "D"}}

\* A function of two arguments for two objects; classes in files of their own.
Pair(mark) == Fn("t", <<"x", "z">>, <<"y">>, <<Put("y", Lit(mark))>>)
Pairs ==
  {Placed(<<>>, <<>>, o, <<>>, <<>>, <<>>, c, d, inf, <<Give("r", "t", as)>>, "D") :
     o \in Few(Pair(3)), c \in Few(Pair(6)), d \in Few(Pair(7)), inf \in {{}, {<<"C">>}},
     as \in {<<Var("o"), Var("q")>>, <<Var("q"), Var("o")>>, <<Var("q"), Lit(1)>>, <<Lit(1), Lit(2)>>}}

InOwnFiles(p) ==
  <<[p[1] EXCEPT !.classes = <<>>]>> \o Tail(p)
    \o [i \in DOMAIN p[1].classes |-> File(<<>>, p[1].classes[i].name, <<>>, <<p[1].classes[i]>>)]

\* The class in a folder of its own.
InFolders(p) ==
  <<[p[1] EXCEPT !.classes = <<>>]>> \o Tail(p)
    \o [i \in DOMAIN p[1].classes |->
          File(<<<<"@", p[1].classes[i].name>>>>, p[1].classes[i].name, <<>>, <<p[1].classes[i]>>)]

Projects == FromMain \cup FromHelper \cup Pairs

MCInit == project \in OneFile \cup Projects \cup {InOwnFiles(p) : p \in Projects} \cup {InFolders(p) : p \in Pairs \cup FromMain} /\ Init
MCSpec == MCInit /\ [][Next]_vars

-----------------------------------------------------------------------------
(* Two scripts in one file, each with a handle that loses what it captured. *)

Script_(steps) ==
  <<[File(<<>>, "main", <<Fn("g", <<"x", "c">>, <<"y">>, <<Put("y", Var("c"))>>)>>, <<>>) EXCEPT !.script = steps]>>
Capturing(n) == [k |-> "anon", target |-> "h", params |-> <<"p">>, name |-> "g", args |-> <<Var("p"), Var(n)>>]

\* a = 1; h = @(p) g(p, a); [b] = h(2, 3)
InMultiAssign == Script_(<<Put("a", Lit(1)), Capturing("a"), Call_("multi", <<"b">>, "h", <<Lit(2), Lit(3)>>)>>)
MultiSpec == project = InMultiAssign /\ Init /\ [][Next]_vars

\* pi = 3; h = @(p) g(p, pi); b = h(2)
NamedPi == Script_(<<Put("pi", Lit(3)), Capturing("pi"), Give("b", "h", <<Lit(2)>>)>>)
ShadowSpec == project = NamedPi /\ Init /\ [][Next]_vars
=============================================================================
