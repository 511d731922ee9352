---------------------------- MODULE OwnedCodegen ----------------------------
(***************************************************************************)
(* Memory management in the generated C.  A function body is a sequence of *)
(* IR statements; codegen decides, before anything runs, which handles to  *)
(* free after each statement (liveness.ts, emitAnalysis.ts, emitStmt.ts),  *)
(* and what to free at each way out of the function (emitOwned.ts,         *)
(* emitFunction.ts).  Init compiles one function of Functions as the       *)
(* emitter does; OwnedRuntime then runs the C.                             *)
(***************************************************************************)
EXTENDS OwnedRuntime, FiniteSets, SequencesExt

CONSTANT Functions   \* the functions to compile: [params, outputs, body]

ASSUME CodegenAssumption ==
    \A f \in Functions : f.params \subseteq Vars /\ f.outputs \in Seq(Vars)

Outputs(f) == Range(f.outputs)

-----------------------------------------------------------------------------
(* liveness.ts: the variables some later statement may touch.  A write is a *)
(* touch like a read: nothing kills.  A context holds the sets that break,  *)
(* continue and return jump to.                                             *)

InLoop_Crossed(ctx, after, next) == [ctx EXCEPT !.break = next, !.continue = after]   \* seeded

\* innerCtx: break goes past the loop, continue to its next iteration.
InLoop(ctx, after, next) == [ctx EXCEPT !.break = after, !.continue = next]

RECURSIVE TouchSeq(_, _, _), TouchStmt(_, _, _), BodyAfter(_, _, _, _)

TouchSeq(ss, after, ctx) ==
    IF ss = <<>> THEN after
    ELSE TouchStmt(Head(ss), TouchSeq(Tail(ss), after, ctx), ctx)

TouchStmt(s, after, ctx) ==
    CASE s.op \in Simple -> after \cup s.uses \cup s.defs
      [] s.op = "if" ->
            after \cup s.uses \cup UNION {TouchSeq(s.arms[i], after, ctx) : i \in DOMAIN s.arms}
      [] s.op = "loop" -> BodyAfter(s, after, after, ctx) \cup s.uses
      [] s.op = "break" -> ctx.break
      [] s.op = "continue" -> ctx.continue
      [] s.op = "return" -> ctx.return

BodyAfter_NoBackEdge(s, after, guess, ctx) ==       \* seeded: one pass over the body
    after \cup s.uses

\* What may be touched after the last statement of a loop body: the fixpoint
\* of one more iteration, the condition, or leaving.
BodyAfter(s, after, guess, ctx) ==
    LET next == after \cup TouchSeq(s.body, guess, InLoop(ctx, after, guess)) \cup s.uses
    IN  IF next = guess THEN guess ELSE BodyAfter(s, after, next, ctx)

ExitContext_NoOutputs(f) == [break |-> {}, continue |-> {}, return |-> {}]   \* seeded

\* computeFutureTouches: the outputs are touched at every exit of a function.
\* (The code has the C names of each return; here they are one set, as no
\* name is split into two C variables.)
ExitContext(f) == [break |-> {}, continue |-> {}, return |-> Outputs(f)]

-----------------------------------------------------------------------------
(* emitStmt.ts: the frees each statement carries.  `freed` is               *)
(* state.freedOwned, the names already freed on this linear path; emitting  *)
(* returns the code with its frees, and the set after it.                   *)

\* functionFreeOnExitSet less the outputs: locals, and the parameters whose
\* kind the callee owns (a string is no user-function argument).
ScopeExit(f) ==
    {x \in Vars : x \in f.params => Kind[x] # "string"} \ Outputs(f)

Knows(before, after, freed, ctx) == [before |-> before, after |-> after, freed |-> freed, ctx |-> ctx]

DeadAfter(s, future, freed) == ((s.uses \cup s.defs) \ future) \ freed

MergeFreed_Any(arms) == {x \in Vars : \E i \in DOMAIN arms : x \in arms[i].freed}   \* seeded

\* After an if, a name is freed only if every arm freed it.
MergeFreed(arms) == {x \in Vars : \A i \in DOMAIN arms : x \in arms[i].freed}

RECURSIVE EmitSeq(_, _, _, _, _), EmitStmt(_, _, _, _, _)

EmitStmt(f, stmt, future, freed, ctx) ==
  LET s == stmt @@ [knows |-> Knows(TouchStmt(stmt, future, ctx), future, freed, ctx)]
  IN
    CASE s.op = "error" -> [code |-> s @@ [frees |-> {}], freed |-> freed]
      [] s.op \in Simple \ {"error"} ->
            LET kept == freed \ s.defs
                dead == DeadAfter(s, future, kept)
            IN  [code |-> s @@ [frees |-> dead], freed |-> kept \cup dead]
      [] s.op = "if" ->
            LET arms   == [i \in DOMAIN s.arms |-> EmitSeq(f, s.arms[i], future, freed, ctx)]
                merged == MergeFreed(arms)
                dead   == DeadAfter(s, future, merged)
            IN  [code |-> [s EXCEPT !.arms = [i \in DOMAIN arms |-> arms[i].code]]
                          @@ [frees |-> dead, rejoin |-> Knows(future, future, merged, ctx)],
                 freed |-> merged \cup dead]
      [] s.op = "loop" ->
            LET bodyAfter == BodyAfter(s, future, future, ctx)
                body      == EmitSeq(f, s.body, bodyAfter, freed, InLoop(ctx, future, bodyAfter))
                dead      == DeadAfter(s, future, freed)
            IN  [code |-> [s EXCEPT !.body = body.code]
                          @@ [frees |-> dead, rejoin |-> Knows(future, future, freed, ctx)],
                 freed |-> freed \cup dead]
      [] s.op \in {"break", "continue"} -> [code |-> s @@ [frees |-> {}], freed |-> freed]
      [] s.op = "return" ->
            LET kept == freed \cup Outputs(f)
            IN  [code |-> s @@ [frees |-> ScopeExit(f) \ kept], freed |-> kept \cup ScopeExit(f)]

EmitSeq(f, ss, after, freed, ctx) ==
    IF ss = <<>> THEN [code |-> <<>>, freed |-> freed]
    ELSE LET first == EmitStmt(f, Head(ss), TouchSeq(Tail(ss), after, ctx), freed, ctx)
             rest  == EmitSeq(f, Tail(ss), after, first.freed, ctx)
         IN  [code |-> <<first.code>> \o rest.code, freed |-> rest.freed]

\* emitFunctionBody: the body, then the fall-through exit.
Compile(f) ==
    LET body == EmitSeq(f, f.body, Outputs(f), {}, ExitContext(f))
    IN  Append(body.code, [op |-> "exit", uses |-> {}, defs |-> {},
                           knows |-> Knows(Outputs(f), {}, body.freed, ExitContext(f)),
                           frees |-> ScopeExit(f) \ body.freed])

-----------------------------------------------------------------------------
Init ==
    /\ fn \in Functions
    /\ todo = Compile(fn)
    /\ Starts

Spec == Init /\ [][Next]_vars

-----------------------------------------------------------------------------
RECURSIVE Parts(_), PartsOf(_)

\* The statements of some code, and those that running them leads to.
Parts(ss) == UNION {PartsOf(ss[i]) : i \in DOMAIN ss}
PartsOf(s) ==
    {s} \cup CASE s.op = "if" -> {After(s)} \cup UNION {Parts(s.arms[i]) : i \in DOMAIN s.arms}
               [] s.op \in {"loop", "again"} -> {After(s), Again(s)} \cup Parts(s.body)
               [] OTHER -> {}

\* What was known at each statement when its frees were chosen solves the
\* equations of the two analyses, as the code still to run reads them, and no
\* way out frees an output: what the theorems about OwnedRuntime suppose of a
\* body that is compiled, whatever came before.
FreesAreJustified ==
    LET code == Parts(todo)
    IN  Analysed(fn, code) /\ SparesOutputs(fn, code) /\ Linked(todo)
=============================================================================
