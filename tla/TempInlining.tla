---------------------------- MODULE TempInlining ----------------------------
(***************************************************************************)
(* What happens to a lowered program before C is emitted from it: A-normal *)
(* form (src/src/lowering/anf.ts) gives every value that owns a buffer a   *)
(* variable of its own, the validator (src/src/lowering/lower.ts) refuses  *)
(* what was missed, and temp inlining (src/src/codegen/inline/             *)
(* inlinePass.ts) undoes part of it: a tensor variable read once is        *)
(* replaced by its expression, so that one loop computes both.  The passes *)
(* were written apart and each relies on what the others leave: this       *)
(* module runs them in turn and compares what the program does.            *)
(***************************************************************************)
EXTENDS TempIR, FiniteSetsExt, TLC

CONSTANTS
  InlineTemps,   \* the values of emitC's enableTempInlining: TRUE in the default profile
  MaxPasses,     \* substitutions in one body before inlineInBody gives up
  Parameters,    \* the variables that have a value before the first statement
  Truths,        \* which of the conditions met in turn hold, one sequence for each run considered
  Programs       \* [outs |-> the outputs of a function or <<>> for main, body |-> its statements]

VARIABLES
  phase,     \* "lowered", "normal", "valid", "nested", "done" or "rejected"
  source,    \* the program as lowering made it
  normal,    \* its A-normal form
  body,      \* its body now
  passes     \* substitutions made at the top level

vars == <<phase, source, normal, body, passes>>

(***************************************************************************)
(* A-normal form.  A rewriting carries the temporaries made so far (c) and *)
(* the assignments to put before the statement (pre).                      *)
(***************************************************************************)
IsOwnedProducer(e) ==
  \/ e.k \in {"literal", "range", "struct", "slice"}
  \/ e.k \in {"call", "direct"} /\ e.ty # "scalar"
NeedsHandle(e) ==
  \/ e.ty = "struct" /\ e.k \notin {"var", "struct"}
  \/ e.ty = "tensor" /\ e.k \notin {"var", "literal", "range", "slice"}
TakesHandles(e) == e.k \in {"call", "direct", "reduce", "struct"}

Temp(c) == "_mtoc_anf_" \o ToString(c)
LiftToTemp_First(r) ==   \* seeded
  [e |-> VarRead(Temp(r.c), r.e.ty), c |-> r.c + 1, pre |-> <<Assign(Temp(r.c), r.e)>> \o r.pre]
LiftToTemp(r) ==
  [e |-> VarRead(Temp(r.c), r.e.ty), c |-> r.c + 1, pre |-> Append(r.pre, Assign(Temp(r.c), r.e))]
Lifted(needed(_), r) == IF needed(r.e) THEN LiftToTemp(r) ELSE r

RECURSIVE anfExpr(_, _)
anfRequireHandle(e, st) == Lifted(NeedsHandle, anfExpr(e, st))
Taken(got, r) == [es |-> Append(got.es, r.e), c |-> r.c, pre |-> r.pre]
anfList(es, handles, st) ==
  FoldLeft(LAMBDA got, e : Taken(got, IF handles THEN anfRequireHandle(e, got) ELSE anfExpr(e, got)),
           [es |-> <<>>, c |-> st.c, pre |-> st.pre], es)
WithChildren(e, got) == [e |-> [e EXCEPT !.s = got.es], c |-> got.c, pre |-> got.pre]
anfExprChildren(e, st) == WithChildren(e, anfList(e.s, TakesHandles(e), st))
anfExpr(e, st) == Lifted(IsOwnedProducer, anfExprChildren(e, st))

\* The expressions of a statement: every condition of an if before the if, a loop's condition not at all.
OwnExprs(s, st) ==
  CASE s.k = "while" -> [es |-> s.es, c |-> st.c, pre |-> st.pre]
    [] s.k = "assign" /\ IsOwnedProducer(s.es[1]) -> Taken([es |-> <<>>], anfExprChildren(s.es[1], st))
    [] OTHER -> anfList(s.es, s.k \in {"print", "mstore", "multi"}, st)

RECURSIVE anfStmts(_, _)
Bodies(bodies, c) ==
  FoldLeft(LAMBDA got, b : [bodies |-> Append(got.bodies, anfStmts(b, got.c).out), c |-> anfStmts(b, got.c).c],
           [bodies |-> <<>>, c |-> c], bodies)
Rewritten(s, own, inner, out) ==
  [out |-> out \o own.pre \o <<[s EXCEPT !.es = own.es, !.bodies = inner.bodies]>>, c |-> inner.c]
WithOwn(s, own, out) == Rewritten(s, own, Bodies(s.bodies, own.c), out)
anfStmts(ss, c) ==
  FoldLeft(LAMBDA got, s : WithOwn(s, OwnExprs(s, [c |-> got.c, pre |-> <<>>]), got.out), [out |-> <<>>, c |-> c], ss)

(***************************************************************************)
(* The validator: no owned producer inside another expression, and no call *)
(* that wants a whole tensor in an expression computed element by element. *)
(***************************************************************************)
NoOwned(e) == \A sub \in SubExprs(e) : ~IsOwnedProducer(sub)
Elementwise_Reductions(e) == \A sub \in SubExprs(e) : sub.k \notin {"call", "direct"}   \* seeded
Elementwise(e) == \A sub \in SubExprs(e) : sub.k \notin {"call", "direct", "reduce"}
validateStmt(s) ==
  CASE s.k = "assign" /\ IsOwnedProducer(s.es[1]) -> \A i \in DOMAIN s.es[1].s : NoOwned(s.es[1].s[i])
    [] s.k = "assign" -> NoOwned(s.es[1]) /\ (s.es[1].ty = "tensor" => Elementwise(s.es[1]))
    [] OTHER -> \A i \in DOMAIN s.es : NoOwned(s.es[i])
validateIR(ss) == \A s \in StmtsIn(ss) : validateStmt(s)

(***************************************************************************)
(* Temp inlining.                                                          *)
(***************************************************************************)
Purest == {"var", "lit", "op", "reduce", "load"}
RECURSIVE isPureElementwiseExpr(_)
isPureElementwiseExpr(e) == e.k \in Purest /\ \A i \in DOMAIN e.s : isPureElementwiseExpr(e.s[i])
isInlinableProducer(s) == s.k = "assign" /\ s.es[1].ty = "tensor" /\ isPureElementwiseExpr(s.es[1])
\* A range is not among what is refused, and substituteVar leaves it as it is.
isInlinableConsumer(s) ==
  /\ s.k = "assign"
  /\ s.es[1].ty = "tensor"
  /\ s.es[1].k \notin {"literal", "var", "slice", "call", "direct"}

stmtWritesAny_Stores(s, names) == s.k \in {"assign", "multi"} /\ ToSet(s.outs) \cap names # {}   \* seeded
stmtWritesAny(s, names) == s.k \in {"assign", "store", "multi"} /\ ToSet(s.outs) \cap names # {}
ReadsTensor(e, x) == VarRead(x, "tensor") \in SubExprs(e)
stmtReadsAsMultiElemVar(s, x) ==
  /\ s.k \notin Control \union {"mstore"}
  /\ \/ s.k = "store" /\ s.outs[1] = x
     \/ \E i \in DOMAIN s.es : ReadsTensor(s.es[i], x)
freeVars(e) == {sub.n : sub \in {v \in SubExprs(e) : v.k = "var"}}
Ends(s, producer) == s.k \in Control \/ stmtWritesAny(s, {producer.outs[1]} \union freeVars(producer.es[1]))

RECURSIVE appearsInNonSlotPosition(_, _)
appearsInNonSlotPosition(e, x) ==
  \/ e.k \in {"load", "slice"} /\ e.s[1].n = x
  \/ e.k \in {"literal", "struct"} /\ \E i \in DOMAIN e.s : e.s[i].k = "var" /\ e.s[i].n = x
  \/ \E i \in DOMAIN e.s : appearsInNonSlotPosition(e.s[i], x)

RECURSIVE substituteVar(_, _, _)
substituteVar(e, x, by) ==
  CASE e.k = "var" -> IF e.n = x THEN by ELSE e
    [] e.k \in {"op", "call", "direct", "reduce"} -> [e EXCEPT !.s = [i \in DOMAIN @ |-> substituteVar(@[i], x, by)]]
    [] e.k = "load" -> [e EXCEPT !.s = [i \in DOMAIN @ |-> IF i = 1 THEN @[i] ELSE substituteVar(@[i], x, by)]]
    [] OTHER -> e

computeUseCount(ss, protected, x) == Uses(ss, x) + (IF x \in protected THEN 1 ELSE 0)

\* The statement that reads what statement i assigns, when nothing that matters comes between them.
Readers(ss, i) ==
  {j \in i + 1 .. Len(ss) : /\ stmtReadsAsMultiElemVar(ss[j], ss[i].outs[1])
                            /\ \A between \in i + 1 .. j : ~Ends(ss[between], ss[i])}
Joins(ss, i, j) ==
  isInlinableConsumer(ss[j]) /\ ~appearsInNonSlotPosition(ss[j].es[1], ss[i].outs[1])
InlinablePairs(ss, protected) ==
  {<<i, j>> \in (DOMAIN ss) \X (DOMAIN ss) :
     /\ i < j
     /\ isInlinableProducer(ss[i])
     /\ ss[i].outs[1] \notin protected
     /\ computeUseCount(ss, protected, ss[i].outs[1]) = 1
     /\ j \in Readers(ss, i) /\ j = Min(Readers(ss, i))
     /\ Joins(ss, i, j)}
Earliest(pairs) == CHOOSE p \in pairs : \A q \in pairs : p[1] <= q[1]
Substituted(ss, i, j) ==
  RemoveAt([ss EXCEPT ![j].es[1] = substituteVar(@, ss[i].outs[1], ss[i].es[1])], i)
inlineOnePass(ss, pair) == Substituted(ss, pair[1], pair[2])

\* The bodies inside a statement are done first, each counting only its own uses and protecting no name.
RECURSIVE inlineInBody(_, _, _)
FixPoint(ss, protected, left) ==
  IF left = 0 \/ InlinablePairs(ss, protected) = {} THEN ss
  ELSE inlineInBody(inlineOnePass(ss, Earliest(InlinablePairs(ss, protected))), protected, left - 1)
RECURSIVE recurseInlineNested(_)
InNested(b) == inlineInBody(recurseInlineNested(b), {}, MaxPasses)
recurseInlineNested(ss) == [i \in DOMAIN ss |-> [ss[i] EXCEPT !.bodies = [b \in DOMAIN @ |-> InNested(@[b])]]]
inlineInBody(ss, protected, left) == FixPoint(ss, protected, left)

(***************************************************************************)
(* The passes in turn.                                                     *)
(***************************************************************************)
Init ==
  /\ phase = "lowered"
  /\ source \in Programs
  /\ body = source.body
  /\ normal = source.body
  /\ passes = 0

anfNormalize ==
  /\ phase = "lowered"
  /\ phase' = "normal"
  /\ \E out \in {anfStmts(body, 0).out} : body' = out /\ normal' = out
  /\ UNCHANGED <<source, passes>>

Validate ==
  /\ phase = "normal"
  /\ phase' = IF validateIR(body) THEN "valid" ELSE "rejected"
  /\ UNCHANGED <<source, normal, body, passes>>

\* emitC without inlining.
KeepTemps ==
  /\ phase = "valid" /\ FALSE \in InlineTemps
  /\ phase' = "done"
  /\ UNCHANGED <<source, normal, body, passes>>

InlineNested ==
  /\ phase = "valid" /\ TRUE \in InlineTemps
  /\ phase' = "nested"
  /\ body' = recurseInlineNested(body)
  /\ UNCHANGED <<source, normal, passes>>

Protected == ToSet(source.outs)
InlinePass ==
  /\ phase = "nested" /\ passes < MaxPasses
  /\ \E pairs \in {InlinablePairs(body, Protected)} :
       /\ pairs # {}
       /\ body' = inlineOnePass(body, Earliest(pairs))
  /\ passes' = passes + 1
  /\ UNCHANGED <<phase, source, normal>>

Settle ==
  /\ phase = "nested"
  /\ passes = MaxPasses \/ InlinablePairs(body, Protected) = {}
  /\ phase' = "done"
  /\ UNCHANGED <<source, normal, body, passes>>

Next == anfNormalize \/ Validate \/ KeepTemps \/ InlineNested \/ InlinePass \/ Settle
Spec == Init /\ [][Next]_vars

-----------------------------------------------------------------------------
(***************************************************************************)
(* Properties.                                                             *)
(***************************************************************************)
Conditional(ss) == \E s \in StmtsIn(ss) : s.k \in {"if", "while", "for"}
Paths(ss) == IF Conditional(ss) THEN Truths ELSE {<<>>}
Runs(ss, truth) == RunOf(ss, Parameters, source.outs, truth)

\* How often an expression prints, or stops the program at an index out of range.
RECURSIVE Acts(_)
Acts(e) ==
  SumOf(LAMBDA a : Acts(a), e.s)
  + (IF \/ e.k = "call" /\ e.n \in Loud
        \/ e.k \in {"load", "slice"} /\ \E i \in DOMAIN e.s : e.s[i].n = OutOfRange
     THEN 1 ELSE 0)

\* No statement does two things that can be seen, and none under a condition that may not be reached.
Orderly(ss) ==
  \A s \in StmtsIn(ss) : s.k # "while" =>
    /\ SumOf(LAMBDA e : Acts(e), s.es) <= 1
    /\ s.k = "if" => \A i \in DOMAIN s.es : i > 1 => Acts(s.es[i]) = 0
    /\ \A i \in DOMAIN s.es : \A sub \in SubExprs(s.es[i]) : sub.n = "and" => Acts(sub.s[2]) = 0

\* Giving values variables of their own changes nothing that can be seen of
\* a program whose statements are orderly: the temporaries are computed
\* before their statement, in the order in which it would have computed
\* them, and nothing they read is written in between (anf.ts:186-340).
HoistingKeepsMeaning ==
  phase = "normal" /\ Orderly(source.body) =>
    \A truth \in Paths(normal) : Runs(source.body, truth) = Runs(normal, truth)

\* What is left between the passes and the emitter is what the emitter
\* relies on, except in the condition of a while, which is left as it was.
\* A value that owns a buffer is the whole right-hand side of an assignment
\* (or the validator raises its own alarm, "internal: ... ANF pass should
\* have hoisted it", anf.ts:120-166); what prints, calls, reduces or stores
\* a whole tensor finds it in a variable, whose handle C is given
\* (anf.ts:485-519); and inlining, which takes variables away, leaves it so
\* (inlinePass.ts:94-97): a reduction keeps its variable only because the
\* validator has refused it where the inliner would look for it.
WholeRightHandSides(s) ==
  \A i \in DOMAIN s.es : \A sub \in SubExprs(s.es[i]) :
    IsOwnedProducer(sub) => s.k = "assign" /\ sub = s.es[1]
InVariables(e) == TakesHandles(e) => \A i \in DOMAIN e.s : ~NeedsHandle(e.s[i])
ArgumentsInVariables(s) ==
  \A i \in DOMAIN s.es :
    /\ s.k \in {"print", "mstore", "multi"} => ~NeedsHandle(s.es[i])
    /\ \A sub \in SubExprs(s.es[i]) : InVariables(sub)
ReadyForC ==
  phase # "lowered" => \A s \in StmtsIn(body) : s.k # "while" =>
    WholeRightHandSides(s) /\ ArgumentsInVariables(s)

\* No tensor assigned inside an if or a loop is read outside it, or returned.
LocalInBodies(ss, outs) ==
  \A b \in BodiesIn(ss) : \A s \in StmtsIn(b) :
    isInlinableProducer(s) => s.outs[1] \notin ToSet(outs) /\ Uses(ss, s.outs[1]) = Uses(b, s.outs[1])

\* What is seen of one run and of another that may stop later at the same index.
Agree(r, q) == r.how = q.how /\ (IF r.how = "fail" THEN IsPrefix(r.seen, q.seen) ELSE r.seen = q.seen)

\* No tensor is computed for the bounds of a range alone.
NotForRangesAlone(ss, outs) ==
  \A p \in StmtsIn(ss), s \in StmtsIn(ss) :
    isInlinableProducer(p) /\ s.k = "assign" /\ s.es[1].k = "range" /\ ReadsTensor(s.es[1], p.outs[1]) =>
      p.outs[1] \in ToSet(outs) \/ Uses(ss, p.outs[1]) > 1

\* "Numerically equivalent to the un-inlined build" (src/src/cli.ts:77), of
\* a program of which two things are asked, because the code breaks it
\* otherwise (see InlinedBuildIsEquivalent): the tensors of nested bodies
\* stay there, and none is computed for the bounds of a range alone.  Every
\* path prints and returns the same, unless it stops at an index out of
\* range, which an inlined expression does later.
InliningKeepsMeaning ==
  /\ phase \in {"nested", "done"}
  /\ LocalInBodies(normal, source.outs)
  /\ NotForRangesAlone(normal, source.outs)
  => \A truth \in Paths(normal) : Agree(Runs(normal, truth), Runs(body, truth))

\* The same for every program, as src/src/cli.ts:77 has it.  Two kinds break
\* it: a tensor that is assigned and read once in an if or a loop, and read
\* outside (inlinePass.ts:210), and `x = a + 1; y = 1:sum(x)`, where the
\* range counts as the reader of x, is left as it is (754-759), and x goes.
InlinedBuildIsEquivalent ==
  phase = "done" => \A truth \in Paths(normal) : Agree(Runs(normal, truth), Runs(body, truth))

=============================================================================
