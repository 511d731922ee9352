--------------------------- MODULE ScalarLowering ---------------------------
(***************************************************************************)
(* Lowering of a function body to typed IR (src/lowering/lower.ts and the  *)
(* lower*.ts files): types flow through the statements in one pass, known  *)
(* values replace variables and fold conditions, branches are merged,      *)
(* loops are lowered once, and a variable whose type no longer fits its C  *)
(* variable gets another one.                                              *)
(*                                                                         *)
(* One function of Programs is lowered for one argument type, statement by *)
(* statement, as specialize does; the IR is then run as the generated C    *)
(* does.  Meaning is what the MATLAB program does.                         *)
(*                                                                         *)
(* A value is a row of integers: a scalar is a row of one, a tensor        *)
(* literal a longer one, an empty row what an unassigned tensor holds.     *)
(***************************************************************************)
EXTENDS TypeLattice, SequencesExt

CONSTANTS
    Programs,   \* the functions y = f(a): sequences of statements
    Inputs,     \* the integers f is called with
    MaxTurns    \* loop iterations after which a run is given up

(***************************************************************************)
(* Expressions: [k |-> "num", v], v a row of numbers, [k |-> "var", x],    *)
(*   [k |-> "bin", op, l, r] with op one of Add, Sub, Mul, Less.           *)
(* Statements: [k |-> "assign", x, e], [k |-> "show", e] (disp),           *)
(*   [k |-> "if", arms, els] with arms a sequence of [cond, body],         *)
(*   [k |-> "while", cond, body], [k |-> "for", x, start, step, end, body],*)
(*   [k |-> "break"], [k |-> "continue"], [k |-> "return"].                *)
(***************************************************************************)
Param == "a"
Output == "y"

Truth(v) == \A i \in DOMAIN v : v[i] # 0

Compute(op, i, j) ==
    CASE op = "Add" -> i + j
      [] op = "Sub" -> i - j
      [] op = "Mul" -> i * j
      [] op = "Less" -> IF i < j THEN 1 ELSE 0

\* Elementwise, with a scalar repeated to the other operand's length.
Apply(op, v, w) ==
    LET n == IF Len(v) = 1 THEN Len(w) ELSE Len(v)
        at(u, i) == IF Len(u) = 1 THEN u[1] ELSE u[i]
    IN  [i \in 1..n |-> Compute(op, at(v, i), at(w, i))]

-----------------------------------------------------------------------------
(* What the program means: env holds the values of the variables assigned   *)
(* so far, how is the way control leaves the statements.                    *)

RECURSIVE Reads(_), Value(_, _)

Reads(e) == CASE e.k = "var" -> {e.x}
              [] e.k = "bin" -> Reads(e.l) \cup Reads(e.r)
              [] OTHER -> {}

Value(e, env) == CASE e.k = "num" -> e.v
                   [] e.k = "var" -> env[e.x]
                   [] e.k = "bin" -> Apply(e.op, Value(e.l, env), Value(e.r, env))

Defined(e, m) == Reads(e) \subseteq DOMAIN m.env

Bind(m, x, v) == [m EXCEPT !.env = (x :> v) @@ @]

RECURSIVE RunSeq(_, _), RunStmt(_, _), RunArms(_, _, _), RunFor(_, _, _, _)

RunSeq(ss, m) ==
    IF ss = <<>> \/ m.how # "next" THEN m ELSE RunSeq(Tail(ss), RunStmt(Head(ss), m))

RunArms(arms, els, m) ==
    IF arms = <<>> THEN RunSeq(els, m)
    ELSE IF ~Defined(arms[1].cond, m) THEN [m EXCEPT !.how = "error"]
    ELSE IF Truth(Value(arms[1].cond, m.env)) THEN RunSeq(arms[1].body, m)
    ELSE RunArms(Tail(arms), els, m)

\* After one turn of a loop's body: go on, leave, or leave the function.
AfterTurn(m, again) ==
    CASE m.how \in {"next", "continue"} -> again
      [] m.how = "break" -> [m EXCEPT !.how = "next"]
      [] OTHER -> m

Turn(body, m) == RunSeq(body, [m EXCEPT !.turns = @ + 1])

RunFor(s, i, end, m) ==
    IF (s.step > 0 /\ i > end) \/ (s.step < 0 /\ i < end) THEN m
    ELSE LET t == Turn(s.body, Bind(m, s.x, <<i>>))
         IN  AfterTurn(t, RunFor(s, i + s.step, end, [t EXCEPT !.how = "next"]))

RunStmt(s, m) ==
    CASE s.k \in {"assign", "show"} /\ ~Defined(s.e, m) -> [m EXCEPT !.how = "error"]
      [] s.k = "assign" /\ Defined(s.e, m) -> Bind(m, s.x, Value(s.e, m.env))
      [] s.k = "show" /\ Defined(s.e, m) ->
            [m EXCEPT !.shown = Append(@, Value(s.e, m.env))]
      [] s.k = "if" -> RunArms(s.arms, s.els, m)
      [] s.k = "while" ->
            IF ~Defined(s.cond, m) THEN [m EXCEPT !.how = "error"]
            ELSE IF ~Truth(Value(s.cond, m.env)) THEN m
            ELSE IF m.turns = MaxTurns THEN [m EXCEPT !.how = "endless"]
            ELSE LET t == Turn(s.body, m)
                 IN  AfterTurn(t, RunStmt(s, [t EXCEPT !.how = "next"]))
      [] s.k = "for" ->
            IF ~Defined(s.start, m) \/ ~Defined(s.end, m) THEN [m EXCEPT !.how = "error"]
            ELSE RunFor(s, Value(s.start, m.env)[1], Value(s.end, m.env)[1], m)
      [] s.k \in {"break", "continue", "return"} -> [m EXCEPT !.how = s.k]

\* The values shown, ending with the result, and the loop turns they took;
\* "error" when the program reads what it has not assigned.
Meaning(p, input) ==
    LET m == RunSeq(p, [how |-> "next", env |-> Param :> <<input>>, shown |-> <<>>, turns |-> 0])
    IN  IF m.how \in {"error", "endless"} THEN m
        ELSE IF Output \notin DOMAIN m.env THEN [m EXCEPT !.how = "error"]
        ELSE [m EXCEPT !.how = "ok", !.shown = Append(@, m.env[Output])]

-----------------------------------------------------------------------------
(* Lowering.  Its state st: env, the type of each variable at this point;   *)
(* bound, the C variable each has now; slots (assignedVars), the type each  *)
(* C variable is declared with; the nesting of control flow; and the count  *)
(* of splits.  A C variable is <<x, n>>: n = 0 is x's own name, n > 0 the   *)
(* name of its nth split.                                                   *)

Rejected == [k |-> "rejected", ty |-> Unknown]

Literal(v, ty) == [k |-> "lit", v |-> v, ty |-> ty]

\* A number, or a row literal: only a number's value is kept in the type.
LiteralType(v) ==
    IF Len(v) = 1 THEN scalarDouble(signFromValue(v[1]), v)
    ELSE numericTypeND([i \in Axes |-> IF i = 2 THEN "notOne" ELSE "one"], FALSE,
                       FoldLeft(joinSign, signFromValue(v[1]), [i \in DOMAIN v |-> signFromValue(v[i])]),
                       "double")

\* tryFoldBinaryLit, on operands that are literals.
Fold(op, l, r) == LET v == Apply(op, l.v, r.v) IN Literal(v, LiteralType(v))

\* lowerComparison and lowerArith: the type of an operation left to run time.
BinaryType(e, l, r) ==
    CASE e.op = "Less" -> [arithResult("Sub", l.ty, r.ty) EXCEPT !.sign = "nonnegative"]
      [] e.op = "Mul" /\ isMultiElement(l.ty) /\ isMultiElement(r.ty) -> Unknown
      [] e.op = "Mul" /\ l.k = "var" /\ l = r ->
            [arithResult("Mul", l.ty, r.ty) EXCEPT !.sign = "nonnegative"]
      [] OTHER -> arithResult(e.op, l.ty, r.ty)

RECURSIVE LowerExpr(_, _)

\* A variable whose value is known is replaced by it.
LowerExpr(e, st) ==
    CASE e.k = "num" -> Literal(e.v, LiteralType(e.v))
      [] e.k = "var" /\ e.x \notin DOMAIN st.env -> Rejected
      [] e.k = "var" /\ e.x \in DOMAIN st.env ->
            IF st.env[e.x].exact # <<>> THEN Literal(st.env[e.x].exact, st.env[e.x])
            ELSE [k |-> "var", c |-> st.bound[e.x], ty |-> st.env[e.x]]
      [] e.k = "bin" ->
            LET l == LowerExpr(e.l, st)
                r == LowerExpr(e.r, st)
            IN  IF Rejected \in {l, r} THEN Rejected
                ELSE IF l.ty.exact # <<>> /\ r.ty.exact # <<>> THEN Fold(e.op, l, r)
                ELSE IF BinaryType(e, l, r) = Unknown THEN Rejected
                ELSE [k |-> "bin", op |-> e.op, l |-> l, r |-> r, ty |-> BinaryType(e, l, r)]

\* A condition must be a scalar.
LowerCond(e, st) == LET c == LowerExpr(e, st) IN IF isScalar(c.ty) THEN c ELSE Rejected

\* tryFoldCondToBool.
Folds(cond, to) == cond.k = "lit" /\ Truth(cond.v) = to

Start(argType) ==
    [env |-> Param :> argType, bound |-> Param :> <<Param, 0>>,
     slots |-> [c \in {} |-> argType], depth |-> 0, splits |-> 0]

Deeper(m) == [m EXCEPT !.depth = @ + 1]

WithSlot(m, x, c, ty) == [m EXCEPT !.slots = (c :> ty) @@ @, !.bound = (x :> c) @@ @]

\* The C variable of x can take a value of type ty.
Fits(m, x, ty) ==
    LET prev == m.slots[m.bound[x]]
    IN  canShareStorage(prev, ty) /\ unify(prev, ty) # Unknown

\* A type that does not fit is an error inside control flow.
CanRecord(m, x, ty) == x = Param \/ x \notin DOMAIN m.bound \/ Fits(m, x, ty) \/ m.depth = 0

recordAssignment_NoSplit(m, x, ty) ==      \* seeded: the variable is declared anew
    LET now == [m EXCEPT !.env = (x :> ty) @@ @]
    IN  IF x = Param THEN now ELSE WithSlot(now, x, <<x, 0>>, ty)

\* The assignment's C variable is bound[x] afterwards: a parameter's own, x's
\* present one, widened, or a new one.
recordAssignment(m, x, ty) ==
    LET now == [m EXCEPT !.env = (x :> ty) @@ @]
        c == m.bound[x]
    IN  IF x = Param THEN now
        ELSE IF x \notin DOMAIN m.bound THEN WithSlot(now, x, <<x, 0>>, ty)
        ELSE IF Fits(m, x, ty) THEN WithSlot(now, x, c, unify(m.slots[c], ty))
        ELSE WithSlot([now EXCEPT !.splits = @ + 1], x, <<x, m.splits + 1>>, ty)

mergeBranchEnvs_LastArm(envs) == envs[Len(envs)] @@ envs[1]     \* seeded

\* Each variable of any arm gets the join of its types; an arm that did not
\* assign it contributes the predeclared default.
mergeBranchEnvs(envs) ==
    LET names == UNION {DOMAIN envs[i] : i \in DOMAIN envs}
        present(x) == {envs[i][x] : i \in {j \in DOMAIN envs : x \in DOMAIN envs[j]}}
        typeIn(x, i) == IF x \in DOMAIN envs[i] THEN envs[i][x] ELSE absentDefaultFor(present(x))
    IN  [x \in names |-> FoldLeft(unify, typeIn(x, 1), [i \in DOMAIN envs |-> typeIn(x, i)])]

Mergeable(env) == \A x \in DOMAIN env : env[x] # Unknown

RECURSIVE collectAssignedNames(_)

collectAssignedNames(ss) ==
    UNION {CASE s.k \in {"assign"} -> {s.x}
             [] s.k = "if" -> collectAssignedNames(s.els)
                              \cup UNION {collectAssignedNames(arm.body) : arm \in ToSet(s.arms)}
             [] s.k = "while" -> collectAssignedNames(s.body)
             [] s.k = "for" -> {s.x} \cup collectAssignedNames(s.body)
             [] OTHER -> {} : s \in ToSet(ss)}

stripExactFromEnv_Nothing(m, names) == m      \* seeded

\* A loop's body is lowered once for all its turns: what it assigns has no
\* known value in it.
stripExactFromEnv(m, names) ==
    [m EXCEPT !.env = [x \in DOMAIN @ |-> IF x \in names THEN withoutExact(@[x]) ELSE @[x]]]

\* The sign of `for x = start:step:end`'s variable.
LoopVarSign(sign, step) ==
    CASE step > 0 /\ sign = "positive" -> "positive"
      [] step > 0 /\ sign \in {"nonnegative", "zero"} -> "nonnegative"
      [] step < 0 /\ sign = "negative" -> "negative"
      [] step < 0 /\ sign \in {"nonpositive", "zero"} -> "nonpositive"
      [] OTHER -> "unknown"

\* f(1) specializes on the value, f(n) for an unknown n on a real scalar.
ArgTypes(input) ==
    {scalarDouble("unknown", <<>>), scalarDouble(signFromValue(input), <<>>),
     scalarDouble(signFromValue(input), <<input>>)}

-----------------------------------------------------------------------------
VARIABLES
    phase,      \* "lowering", "rejected", "running", "returned"
    prog,       \* the function
    input,      \* the argument of the call
    st,         \* lowering: what is known at this point
    work,       \* lowering: the statements to go, innermost first, and the
                \* marks that end an arm, a folded if and a loop's body
    irs,        \* lowering: the IR so far of each open block, innermost first
    fn,         \* the specialization
    todo,       \* running: the statements to go, innermost first; a loop's next
                \* turn is the mark [k |-> "again", loop]
    store,      \* running: the C variables
    shown,      \* the values printed
    turns,      \* loop bodies entered
    meaning     \* what the MATLAB program does on this input

lowerVars == <<st, work, irs>>
runVars == <<todo, store, shown, turns>>
vars == <<phase, prog, input, lowerVars, fn, runVars, meaning>>

\* The call y = f(input) is lowered, then run.
Init ==
    /\ phase = "lowering"
    /\ prog \in Programs
    /\ input \in Inputs
    /\ \E ty \in ArgTypes(input) : st = Start(ty)
    /\ work = prog
    /\ irs = <<<<>>>>
    /\ fn = <<>>
    /\ todo = <<>> /\ store = <<>> /\ shown = <<>> /\ turns = 0
    /\ meaning = Meaning(prog, input)

-----------------------------------------------------------------------------
(* specialize and lowerStmts.  Lowering throws on what it cannot type.      *)

Lower(k) == phase = "lowering" /\ work # <<>> /\ work[1].k = k

KeepRun == UNCHANGED <<phase, prog, input, fn, runVars, meaning>>

Reject ==
    /\ phase' = "rejected"
    /\ UNCHANGED <<prog, input, lowerVars, fn, runVars, meaning>>

Emit(ir) == irs' = <<Append(irs[1], ir)>> \o Tail(irs)

LowerAssign ==
    /\ Lower("assign")
    /\ LET x == work[1].x
           e == LowerExpr(work[1].e, st)
           next == recordAssignment(st, x, e.ty)
       IN  IF e = Rejected \/ ~CanRecord(st, x, e.ty) THEN Reject
           ELSE /\ st' = next
                /\ Emit([k |-> "assign", c |-> next.bound[x], e |-> e])
                /\ work' = Tail(work)
                /\ KeepRun

LowerShow ==
    /\ Lower("show")
    /\ LET e == LowerExpr(work[1].e, st)
       IN  IF e = Rejected THEN Reject
           ELSE /\ Emit([k |-> "show", e |-> e])
                /\ work' = Tail(work)
                /\ UNCHANGED st /\ KeepRun

\* What follows a statement that never falls through, in its block and in the
\* blocks folded into it.
AfterJump ==
    LET ends == {i \in DOMAIN work : work[i].k \in {"arm end", "loop end"}}
    IN  IF ends = {} THEN <<>> ELSE SubSeq(work, Min(ends), Len(work))

\* A return carries the C variable the result has at this point.
LowerJump ==
    /\ Lower("break") \/ Lower("continue") \/ Lower("return")
    /\ Emit([k |-> work[1].k,
             c |-> IF Output \in DOMAIN st.bound THEN st.bound[Output] ELSE <<Output, 0>>])
    /\ work' = AfterJump
    /\ UNCHANGED st /\ KeepRun

ArmBody(s, i) == IF i > Len(s.arms) THEN s.els ELSE s.arms[i].body

\* Open the block of a statement: its IR is collected apart, and a mark holds
\* what is needed when it closes.
Open(body, mark, inner, outer) ==
    /\ work' = body \o <<mark>> \o Tail(work)
    /\ irs' = <<<<>>>> \o outer
    /\ st' = inner
    /\ KeepRun

\* Close it: the statement's IR goes to the enclosing block.
Close(ir, env) ==
    /\ irs' = <<Append(irs[2], ir)>> \o Tail(Tail(irs))
    /\ st' = [st EXCEPT !.env = env, !.depth = work[1].depth]
    /\ work' = Tail(work)
    /\ KeepRun

\* Arm i of an if, the else arm behind the others: its types are those before
\* the if; the C variables are shared by all arms.
OpenArm(i, f, outer) ==
    LET s == f.stmt
        before == [st EXCEPT !.env = f.before, !.depth = f.depth]
        cond == IF i > Len(s.arms) THEN <<>> ELSE LowerCond(s.arms[i].cond, before)
    IN  IF cond = Rejected THEN Reject
        ELSE Open(ArmBody(s, i), [f EXCEPT !.i = i, !.cond = cond], Deeper(before), outer)

\* Conditions that fold leave one arm, which is lowered in the if's place.
LowerIf ==
    /\ Lower("if")
    /\ LET s == work[1]
           cond(i) == LowerCond(s.arms[i].cond, st)
           reached(i) == \A j \in 1..(i - 1) : Folds(cond(j), FALSE)
           live == {i \in 1..(Len(s.arms) + 1) :
                        reached(i) /\ (i <= Len(s.arms) => Folds(cond(i), TRUE))}
       IN  IF live # {}
           THEN /\ work' = ArmBody(s, Min(live)) \o <<[k |-> "fold end"]>> \o Tail(work)
                /\ st' = Deeper(st)
                /\ UNCHANGED irs /\ KeepRun
           ELSE IF \E i \in DOMAIN s.arms : reached(i) /\ cond(i) = Rejected THEN Reject
           ELSE OpenArm(1, [k |-> "arm end", stmt |-> s, i |-> 1, cond |-> <<>>,
                            before |-> st.env, depth |-> st.depth,
                            done |-> <<>>, envs |-> <<>>], irs)

FoldEnd ==
    /\ Lower("fold end")
    /\ st' = [st EXCEPT !.depth = @ - 1]
    /\ work' = Tail(work)
    /\ UNCHANGED irs /\ KeepRun

ArmEnd ==
    /\ Lower("arm end")
    /\ LET f == work[1]
           envs == Append(f.envs, st.env)
           env == mergeBranchEnvs(envs)
       IN  IF f.i > Len(f.stmt.arms)
           THEN IF Mergeable(env) THEN Close([k |-> "if", arms |-> f.done, els |-> irs[1]], env)
                ELSE Reject
           ELSE LET arm == [cond |-> f.cond, body |-> irs[1]]
                IN  OpenArm(f.i + 1, [f EXCEPT !.done = Append(@, arm), !.envs = envs],
                            Tail(irs))

\* A loop's body is lowered once for all its turns, without the values of what
\* it assigns.
OpenLoop(ir, body, inner) ==
    Open(body, [k |-> "loop end", ir |-> ir, before |-> st.env, depth |-> st.depth],
         stripExactFromEnv(inner, collectAssignedNames(body)), irs)

\* The condition of a while is lowered with what is known before the loop.
LowerWhile ==
    /\ Lower("while")
    /\ LET cond == LowerCond(work[1].cond, st)
       IN  IF cond = Rejected THEN Reject
           ELSE OpenLoop([k |-> "while", cond |-> cond], work[1].body, Deeper(st))

LowerFor ==
    /\ Lower("for")
    /\ LET s == work[1]
           start == LowerCond(s.start, st)
           end == LowerCond(s.end, st)
           ty == scalarDouble(LoopVarSign(start.ty.sign, s.step), <<>>)
           inner == recordAssignment(Deeper(st), s.x, ty)
       IN  IF Rejected \in {start, end} \/ ~CanRecord(Deeper(st), s.x, ty) THEN Reject
           ELSE OpenLoop([k |-> "for", c |-> inner.bound[s.x], start |-> start,
                          step |-> s.step, end |-> end], s.body, inner)

\* Behind a loop its body has run, or it has not.
LoopEnd ==
    /\ Lower("loop end")
    /\ LET env == mergeBranchEnvs(<<work[1].before, st.env>>)
       IN  IF Mergeable(env) THEN Close([body |-> irs[1]] @@ work[1].ir, env) ELSE Reject

\* emitDeclarations: what a C variable holds before its first assignment.
Predeclared(ty) == IF isScalar(ty) THEN <<0>> ELSE <<>>

\* The body is lowered: the result's type and C variable are those at its end.
Specialized ==
    /\ phase = "lowering" /\ work = <<>>
    /\ IF Output \notin DOMAIN st.env THEN Reject
       ELSE /\ phase' = "running"
            /\ fn' = [slots |-> st.slots, c |-> st.bound[Output], ty |-> st.env[Output]]
            /\ todo' = irs[1]
            /\ store' = [c \in DOMAIN st.slots |-> Predeclared(st.slots[c])]
                        @@ (<<Param, 0>> :> <<input>>)
            /\ st' = <<>> /\ irs' = <<>>
            /\ UNCHANGED <<prog, input, work, shown, turns, meaning>>

-----------------------------------------------------------------------------
(* The generated C, run.                                                    *)

RECURSIVE Eval(_, _)

Eval(e, mem) == CASE e.k = "lit" -> e.v
                  [] e.k = "var" -> mem[e.c]
                  [] e.k = "bin" -> Apply(e.op, Eval(e.l, mem), Eval(e.r, mem))

KeepLowering == UNCHANGED <<prog, input, lowerVars, fn, meaning>>

At(k) == phase = "running" /\ todo # <<>> /\ todo[1].k = k

Assign ==
    /\ At("assign")
    /\ store' = [store EXCEPT ![todo[1].c] = Eval(todo[1].e, store)]
    /\ todo' = Tail(todo)
    /\ UNCHANGED <<phase, shown, turns>> /\ KeepLowering

Show ==
    /\ At("show")
    /\ shown' = Append(shown, Eval(todo[1].e, store))
    /\ todo' = Tail(todo)
    /\ UNCHANGED <<phase, store, turns>> /\ KeepLowering

Branch ==
    /\ At("if")
    /\ LET arms  == todo[1].arms
           taken == {i \in DOMAIN arms : Truth(Eval(arms[i].cond, store))}
       IN  todo' = (IF taken = {} THEN todo[1].els ELSE arms[Min(taken)].body) \o Tail(todo)
    /\ UNCHANGED <<phase, store, shown, turns>> /\ KeepLowering

\* The head of a while, or its next turn.
WhileTurn ==
    /\ At("while")
    /\ IF Truth(Eval(todo[1].cond, store))
       THEN /\ todo' = todo[1].body \o <<[k |-> "again", loop |-> todo[1]]>> \o Tail(todo)
            /\ turns' = turns + 1
       ELSE /\ todo' = Tail(todo)
            /\ UNCHANGED turns
    /\ turns <= MaxTurns
    /\ UNCHANGED <<phase, store, shown>> /\ KeepLowering

\* mtoc_loop_count: the range of a for has not been left.
InRange(f, i, n) == (f.step > 0 /\ i <= n) \/ (f.step < 0 /\ i >= n)

\* A for's range is computed once, at its head; a turn sets the variable.
ForTurn ==
    /\ At("for")
    /\ LET f == todo[1]
           i == IF "i" \in DOMAIN f THEN f.i ELSE Eval(f.start, store)[1]
           n == IF "i" \in DOMAIN f THEN f.n ELSE Eval(f.end, store)[1]
           next == [i |-> i + f.step, n |-> n] @@ f
       IN  IF InRange(f, i, n)
           THEN /\ todo' = f.body \o <<[k |-> "again", loop |-> next]>> \o Tail(todo)
                /\ store' = [store EXCEPT ![f.c] = <<i>>]
                /\ turns' = turns + 1
           ELSE /\ todo' = Tail(todo)
                /\ UNCHANGED <<store, turns>>
    /\ UNCHANGED <<phase, shown>> /\ KeepLowering

Again ==
    /\ At("again")
    /\ todo' = <<todo[1].loop>> \o Tail(todo)
    /\ UNCHANGED <<phase, store, shown, turns>> /\ KeepLowering

\* break leaves the innermost loop, continue its body.
Jump ==
    /\ At("break") \/ At("continue")
    /\ LET end == Min({i \in DOMAIN todo : todo[i].k = "again"})
       IN  todo' = SubSeq(todo, IF todo[1].k = "break" THEN end + 1 ELSE end, Len(todo))
    /\ UNCHANGED <<phase, store, shown, turns>> /\ KeepLowering

\* What the caller shows for `r = f(input); disp(r)`: a result whose value the
\* type knows is replaced by it, as any variable is.
Result(v) == IF fn.ty.exact # <<>> THEN fn.ty.exact ELSE v

\* `return` with the C variable of the result at that point, or the end of the
\* body with the one at the end.
Return ==
    /\ phase = "running"
    /\ \/ todo = <<>> /\ shown' = Append(shown, Result(store[fn.c]))
       \/ At("return") /\ shown' = Append(shown, Result(store[todo[1].c]))
    /\ phase' = "returned"
    /\ todo' = <<>>
    /\ UNCHANGED <<store, turns>> /\ KeepLowering

Step == Assign \/ Show \/ Branch \/ WhileTurn \/ ForTurn \/ Again \/ Jump \/ Return

Next ==
    \/ LowerAssign \/ LowerShow \/ LowerJump \/ LowerIf \/ FoldEnd \/ ArmEnd
    \/ LowerWhile \/ LowerFor \/ LoopEnd \/ Specialized
    \/ Step

\* A running program is not stopped.
Spec == Init /\ [][Next]_vars /\ WF_vars(Step)

-----------------------------------------------------------------------------
RECURSIVE Parts(_), Loops(_)

\* The expressions a statement evaluates first.
Parts(e) == {e} \cup IF e.k = "bin" THEN Parts(e.l) \cup Parts(e.r) ELSE {}

Evaluated ==
    IF phase # "running" \/ todo = <<>> THEN {}
    ELSE CASE todo[1].k \in {"assign", "show"} -> Parts(todo[1].e)
           [] todo[1].k = "while" -> Parts(todo[1].cond)
           [] todo[1].k = "if" -> Parts(todo[1].arms[1].cond)
           [] OTHER -> {}

Loops(ss) == \E s \in ToSet(ss) :
    \/ s.k \in {"while", "for"}
    \/ s.k = "if" /\ (Loops(s.els) \/ \E arm \in ToSet(s.arms) : Loops(arm.body))

AsArray(v) ==
    [elem |-> "double", size |-> [i \in Axes |-> IF i = 2 THEN Len(v) ELSE 1],
     elements |-> {<<x, 0>> : x \in ToSet(v)}]

TypeOK ==
    /\ phase \in {"lowering", "rejected", "running", "returned"}
    /\ prog \in Programs /\ input \in Inputs
    /\ turns \in 0..(MaxTurns + 1)
    /\ \A c \in DOMAIN store : store[c] \in Seq(Int)
    /\ \A i \in DOMAIN shown : shown[i] \in Seq(Int)
    /\ phase = "running" => \A c \in DOMAIN fn.slots : fn.slots[c] \in [
            kind : {"Numeric"}, elem : {"double", "char"}, isComplex : BOOLEAN,
            dims : [Axes -> Dims], sign : Signs, exact : Seq(Int)]

\* The static type of every expression about to be evaluated describes its
\* value: whatever branches were merged, folded or dropped on the way, nothing
\* the lowerer relied on is false at run time.  In a function with loops the
\* signs are left out: a loop's body is typed with the signs before the loop.
Claimed(e) == IF Loops(prog) THEN [e.ty EXCEPT !.sign = "unknown"] ELSE e.ty

TypesDescribeValues ==
    meaning.how = "ok" => \A e \in Evaluated : TypeHolds(Claimed(e), AsArray(Eval(e, store)))

\* A C variable only ever holds what it is declared for: no path through the
\* body stores a tensor in a double or a double in a tensor.
SlotsFit ==
    phase = "running" => \A c \in DOMAIN fn.slots : isScalar(fn.slots[c]) <=> Len(store[c]) = 1

\* The translated function shows what the MATLAB function shows and returns
\* what it returns, if it is translated at all.
RunsAsWritten ==
    phase = "returned" /\ meaning.how = "ok" => shown = meaning.shown

\* It prints nothing else on the way, and takes no more turns of its loops.
NeverAhead ==
    phase = "running" /\ meaning.how = "ok" =>
        IsPrefix(shown, meaning.shown) /\ turns <= meaning.turns

\* A translated function that is meant to return does.
Finishes == (phase = "running" /\ meaning.how = "ok") ~> (phase = "returned")
=============================================================================
