------------------------------- MODULE TempIR -------------------------------
(***************************************************************************)
(* The statements and expressions that A-normal form and temp inlining     *)
(* rewrite (src/src/lowering/ir.ts), the walks over them that              *)
(* src/src/lowering/walk.ts gives every pass, and what a program does when *)
(* it runs, which the passes are held against.                             *)
(*                                                                         *)
(* An expression has a kind k, a name n, its sub-expressions s and a type. *)
(* Kinds: "var"; "lit" (NumLit); "op" (Binary, Unary and elementwise       *)
(* builtins; && is the op "and"); "call" (a user function); "direct" (a    *)
(* builtin that returns a fresh tensor); "reduce" (a builtin that reads a  *)
(* whole tensor and returns a scalar); "literal" (TensorLit); "range"      *)
(* (MakeRange: start, step and end); "struct" (StructLit, CellLit); "load" *)
(* (IndexLoad), "slice" (IndexSlice) and "member" (MemberLoad), whose      *)
(* first sub-expression is the base.                                       *)
(* Types: "scalar", "tensor" (more than one real double) and "struct".     *)
(*                                                                         *)
(* A statement has a kind k, the variables it writes (outs), its own       *)
(* expressions (es) and the bodies it holds.                               *)
(***************************************************************************)
EXTENDS Naturals, Sequences, SequencesExt

CONSTANTS
  Loud,        \* the user functions that print when they are called
  OutOfRange   \* the literal no tensor can be indexed with

Control == {"if", "while", "for", "break", "continue", "return"}

Node(k, n, s, ty) == [k |-> k, n |-> n, s |-> s, ty |-> ty]
VarRead(n, ty) == Node("var", n, <<>>, ty)
Statement(k, outs, es, bodies) == [k |-> k, outs |-> outs, es |-> es, bodies |-> bodies]
Assign(n, e) == Statement("assign", <<n>>, <<e>>, <<>>)

(***************************************************************************)
(* Walks: the sub-expressions of an expression, with it; the statements of *)
(* a body, with those of the bodies in it; the bodies themselves.          *)
(***************************************************************************)
RECURSIVE SubExprs(_)
SubExprs(e) == {e} \union UNION {SubExprs(e.s[i]) : i \in DOMAIN e.s}

RECURSIVE StmtsIn(_)
StmtsIn(ss) == UNION {{ss[i]} \union UNION {StmtsIn(ss[i].bodies[b]) : b \in DOMAIN ss[i].bodies} : i \in DOMAIN ss}

RECURSIVE BodiesIn(_)
BodiesIn(ss) == UNION {UNION {{ss[i].bodies[b]} \union BodiesIn(ss[i].bodies[b]) : b \in DOMAIN ss[i].bodies} : i \in DOMAIN ss}

TopLevel(ss) == UNION {ToSet(s.es) : s \in StmtsIn(ss)}

(* How often a variable is read: a store reads its base, a return its outputs. *)
SumOf(n(_), list) == FoldLeft(LAMBDA total, a : total + n(a), 0, list)
RECURSIVE ReadsOf(_, _)
ReadsOf(e, x) == (IF e.k = "var" /\ e.n = x THEN 1 ELSE 0) + SumOf(LAMBDA a : ReadsOf(a, x), e.s)
OutsRead(s, x) == IF s.k \in {"store", "mstore", "return"} /\ Contains(s.outs, x) THEN 1 ELSE 0
RECURSIVE Uses(_, _)
Uses(ss, x) ==
  SumOf(LAMBDA s : OutsRead(s, x) + SumOf(LAMBDA e : ReadsOf(e, x), s.es) + SumOf(LAMBDA b : Uses(b, x), s.bodies), ss)

(***************************************************************************)
(* What a program does.  Values are terms over the parameters.  A run is   *)
(* the sequence of what can be seen of it: its prints, the calls that      *)
(* print, the conditions it tests and, at the end, its results; it stops   *)
(* at an index out of range.  Whether the n-th condition holds, or the     *)
(* n-th round of a loop comes, is given from outside (truth), so that      *)
(* every path of a program is run.                                         *)
(***************************************************************************)
Does(r, event) == [r EXCEPT !.seen = Append(@, event)]
Gives(r, term) == [r EXCEPT !.val = term]
Sets(r, x, term) == [r EXCEPT !.env = [y \in DOMAIN @ \union {x} |-> IF y = x THEN term ELSE @[y]]]
Value(r, x) == IF x \in DOMAIN r.env THEN r.env[x] ELSE <<"nothing">>
Test(r) == IF r.how = "go" THEN [Does(r, <<"test", r.val>>) EXCEPT !.tests = @ + 1] ELSE r
Held(r, truth) == r.how = "go" /\ r.tests <= Len(truth) /\ truth[r.tests]
Stuck(indices) == <<OutOfRange>> \in ToSet(indices)

Applied(e, r, args) ==
  CASE r.how # "go" -> r
    [] e.k \in {"load", "slice"} /\ Stuck(Tail(args)) -> [r EXCEPT !.how = "fail"]
    [] e.k = "call" /\ e.n \in Loud -> Gives(Does(r, <<e.n>> \o args), <<e.n>> \o args)
    [] OTHER -> Gives(r, <<e.n>> \o args)
Collected(r, vals) == [r |-> r, vals |-> Append(vals, r.val)]

RECURSIVE Eval(_, _, _)
EvalAll(es, r, truth) ==
  FoldLeft(LAMBDA got, e : Collected(Eval(e, got.r, truth), got.vals), [r |-> r, vals |-> <<>>], es)
AndThen(e, r, truth) == IF Held(r, truth) THEN Eval(e, r, truth) ELSE r
Combine(e, got) == Applied(e, got.r, got.vals)
Eval(e, r, truth) ==
  CASE r.how # "go" -> r
    [] e.k = "var" -> Gives(r, Value(r, e.n))
    [] e.k = "op" /\ e.n = "and" -> AndThen(e.s[2], Test(Eval(e.s[1], r, truth)), truth)
    [] OTHER -> Combine(e, EvalAll(e.s, r, truth))

\* A statement that holds no body, once its expressions have these values.
Effect(s, r, vals) ==
  CASE r.how # "go" -> r
    [] s.k = "assign" -> Sets(r, s.outs[1], vals[1])
    [] s.k = "print" -> Does(r, <<"print">> \o vals)
    [] s.k = "store" /\ Stuck(<<vals[1]>>) -> [r EXCEPT !.how = "fail"]
    [] s.k \in {"store", "mstore"} -> Sets(r, s.outs[1], <<s.k, Value(r, s.outs[1])>> \o vals)
    [] s.k = "multi" -> FoldLeft(LAMBDA q, x : Sets(q, x, <<x>> \o vals), r, s.outs)
    [] s.k \in {"break", "continue", "return"} -> [r EXCEPT !.how = s.k]
    [] OTHER -> r

RECURSIVE Do(_, _, _)
DoAll(ss, r, truth) == FoldLeft(LAMBDA q, s : IF q.how = "go" THEN Do(s, q, truth) ELSE q, r, ss)
RECURSIVE Branches(_, _, _, _)
Branch(s, i, r, truth) == IF Held(r, truth) THEN DoAll(s.bodies[i], r, truth) ELSE Branches(s, i + 1, r, truth)
Branches(s, i, r, truth) ==
  IF i > Len(s.es) THEN DoAll(s.bodies[i], r, truth)
  ELSE Branch(s, i, Test(Eval(s.es[i], r, truth)), truth)
RECURSIVE Rounds(_, _, _)
Resumed(r) == IF r.how = "continue" THEN [r EXCEPT !.how = "go"] ELSE r
Round(s, r, truth) == IF Held(r, truth) THEN Rounds(s, Resumed(DoAll(s.bodies[1], r, truth)), truth) ELSE r
Rounds(s, r, truth) == Round(s, Test(IF s.k = "while" THEN Eval(s.es[1], r, truth) ELSE Gives(r, <<"next">>)), truth)
LoopLeft(r) == IF r.how = "break" THEN [r EXCEPT !.how = "go"] ELSE r
FinishStmt(s, got) == Effect(s, got.r, got.vals)
Begin(s, got) == Sets(got.r, s.outs[1], <<"counter">> \o got.vals)
Do(s, r, truth) ==
  CASE s.k = "if" -> IF r.how = "go" THEN Branches(s, 1, r, truth) ELSE r
    [] s.k = "while" -> LoopLeft(Rounds(s, r, truth))
    [] s.k = "for" -> LoopLeft(Rounds(s, Begin(s, EvalAll(s.es, r, truth)), truth))
    [] OTHER -> FinishStmt(s, EvalAll(s.es, r, truth))

Ended(r, outs) ==
  IF r.how \in {"go", "return"} THEN [how |-> "done", seen |-> r.seen \o [i \in DOMAIN outs |-> Value(r, outs[i])]]
  ELSE [how |-> r.how, seen |-> r.seen]
RunOf(body, params, outs, truth) ==
  Ended(DoAll(body, [env |-> [p \in params |-> <<p>>], seen |-> <<>>, val |-> <<"nothing">>, tests |-> 0, how |-> "go"], truth), outs)
=============================================================================
