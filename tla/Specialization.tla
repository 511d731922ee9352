---------------------------- MODULE Specialization ----------------------------
(***************************************************************************)
(* The lowering of calls (src/lowering/lowerFuncCall.ts, lowerHandle.ts,   *)
(* lowerClass.ts, the statements of lower.ts that hold a call).  A function*)
(* is lowered once for every tuple of argument types it is called with:    *)
(* the call at hand waits while its callee's body is lowered, so the bodies*)
(* being lowered form a stack.                                             *)
(*                                                                         *)
(* A body is a sequence of statements, each with at most one call:         *)
(*   call    target = n(args), n(args) or [targets] = n(args)              *)
(*   method  target = base.n(args)         super  target = n@parent(args)  *)
(*   handle  target = @n                   anon   target = @(params) n(args)*)
(*   set     target = value                stop   if n == 0, return, end   *)
(* and an argument is a variable, a number, or a variable less one.  The    *)
(* main file also has a script, the statements outside its functions.      *)
(***************************************************************************)
EXTENDS Workspace, TLC

CONSTANT Constants        \* names of built-in constants

VARIABLES stack,          \* the bodies being lowered, [key, ast, file, args, env, pc], the
                          \* innermost last; class is the one the body is a method of
          cache, order, inFlight, anonCounter,
          status,         \* "loading", "lowering", "done" or "rejected"
          called          \* history: the calls lowered, with what MATLAB calls there

shared == <<cache, order, inFlight, anonCounter>>
vars == <<wsVars, stack, shared, status, called>>

-----------------------------------------------------------------------------
(* Types.  A number is known, {n}, or not, {}; a handle is its function and *)
(* the values it captured.                                                  *)

Unknown == {}
Num(exact) == [k |-> "num", exact |-> exact]
Class(c) == [k |-> "class", name |-> c]
\* mtypeToItemType, as far as the resolver looks.
ClassOf(ty) == IF ty.k = "class" THEN ty.name ELSE NoName
Classes(types) == [i \in DOMAIN types |-> ClassOf(types[i])]

handleTargetId_None(t) == <<>>      \* seeded: a handle is known by its captures only

handleTargetId(t) ==
  CASE t.k = "userFunc" -> <<t.k, t.file, t.name>>
    [] t.k = "builtin" -> <<t.k, t.name>>
    [] t.k = "anonymous" -> <<t.k, t.name>>

\* The canonical form leaves out the syntax tree a handle carries, at every depth:
\* it is kept with the handle, made of those of the values captured.
canonicalizeType(ty) == IF ty.k = "handle" THEN ty.canon ELSE ty
Handle(target, captures) ==
  [k |-> "handle", target |-> target, captures |-> captures,
   canon |-> [k |-> "handle", target |-> handleTargetId(target),
              captures |-> [i \in DOMAIN captures |-> <<captures[i].name, canonicalizeType(captures[i].ty)>>]]]

\* The hash is taken to tell every two keys apart.
mangleSpecName(name, file, types) ==
  [name |-> name, file |-> <<file.dir, file.base>>, args |-> [i \in DOMAIN types |-> canonicalizeType(types[i])]]

\* The program's own body has a key no function has: no file is without a name.
Script == [name |-> <<>>, file |-> <<>>, args |-> <<>>]

-----------------------------------------------------------------------------
(* Expressions.  An undefined variable is refused.                          *)

frame == Last(stack)
env == frame.env
stmt == frame.ast.body[frame.pc]

\* Idents are looked up as a variable, then as a constant.
Defined(a) == a.k = "num" \/ a.name \in DOMAIN env \/ (a.k = "var" /\ a.name \in Constants)
ArgType(a) ==
  CASE a.k = "num" -> Num({a.n})
    [] a.k = "var" -> IF a.name \in DOMAIN env THEN env[a.name] ELSE Num(Unknown)
    [] a.k = "less" -> Num({n - 1 : n \in env[a.name].exact})
Lowers(args) == \A i \in DOMAIN args : /\ Defined(args[i])
                                        /\ args[i].k = "less" => env[args[i].name].k = "num"
Types(args) == [i \in DOMAIN args |-> ArgType(args[i])]

\* Only a bare variable is looked at before the arguments are lowered.
anyArgIsClassInstance(args) ==
  \E i \in DOMAIN args : args[i].k = "var" /\ args[i].name \in DOMAIN env /\ env[args[i].name].k = "class"

\* The class and the method being lowered are never passed on to the resolver.
callSite == [file |-> frame.file, className |-> NoName, targetClassName |-> NoName]

-----------------------------------------------------------------------------
(* What a statement calls: a value that needs no body, a body and the types *)
(* it is asked for, or an error.                                            *)

Refused == [k |-> "refused"]
Value(ty) == [k |-> "value", ty |-> ty]

\* single: whether the callee must turn out to have one output.
Body(salt, t, types, single) ==
  IF Len(types) # Len(t.ast.params) THEN Refused
  ELSE [k |-> "body", salt |-> salt, ast |-> t.ast, file |-> t.file, args |-> types, single |-> single,
        class |-> IF "class" \in DOMAIN t THEN t.class ELSE NoName]

lowerBuiltinCall(name, types) ==
  IF name \in ExprBuiltins /\ Len(types) = 1 /\ types[1].k = "num" THEN Value(Num(Unknown)) ELSE Refused

lowerUserCall(t, types) ==
  IF Len(t.ast.outputs) # 1 THEN Refused ELSE Body(<<t.name>>, t, types, TRUE)

classMethodSpecName(c, m) == Append(Front(c), Last(c) \o "__" \o m[1])

\* A static method reached through an instance is not handed it.
dispatchResolvedMethodCall(t, types) ==
  Body(classMethodSpecName(t.class, t.name), t, IF t.strip THEN Tail(types) ELSE types, TRUE)

lowerClassConstructorCall(t, types) ==
  Body(t.class, t, <<Class(t.class)>> \o types, TRUE)

lowerHandleCall(h, types) ==
  IF h.target.k = "builtin" THEN lowerBuiltinCall(h.target.name, types)
  ELSE lowerUserCall(h.target, types \o [i \in DOMAIN h.captures |-> h.captures[i].ty])

\* What the resolver answered.
CallOf(target, n, types) ==
  CASE target.k = "userFunction" -> lowerUserCall(target, types)
    [] target.k = "classConstructor" -> lowerClassConstructorCall(target, types)
    [] target.k = "classMethod" /\ types # <<>> -> dispatchResolvedMethodCall(target, types)
    [] target.k = "builtin" -> lowerBuiltinCall(n, types)
    [] OTHER -> Refused

\* A variable is indexed, whatever functions have its name.
lowerFuncCall(n, args) ==
  IF n \in DOMAIN env THEN IF env[n].k = "num" THEN Value(Num(Unknown)) ELSE Refused
  ELSE CallOf(resolve(<<n>>, IF anyArgIsClassInstance(args) THEN Classes(Types(args)) ELSE <<>>, callSite),
              n, Types(args))

Expression(n, args) ==
  IF n \in DOMAIN env /\ env[n].k = "handle" THEN lowerHandleCall(env[n], Types(args))
  ELSE lowerFuncCall(n, args)

\* [a, b] = n(...), and n(...) for a function with no output or several: no
\* argument is looked at to choose it, and what a handle captured is forgotten.
StatementTarget(n) ==
  IF n \notin DOMAIN env \/ env[n].k # "handle" THEN resolve(<<n>>, <<>>, callSite)
  ELSE IF env[n].target.k = "builtin" THEN Unsupported
  ELSE [env[n].target EXCEPT !.k = "userFunction"]

lowerMultiAssignCall(t, args, targets) ==
  IF t.k # "userFunction" \/ Len(targets) > Len(t.ast.outputs) THEN Refused
  ELSE Body(<<t.name>>, t, Types(args), FALSE)

\* n(...) alone: the statement a builtin is comes before a function of that name
\* with one output.
BareCall(t, n, args) ==
  IF t = Unsupported THEN Refused
  ELSE IF t.k = "userFunction" /\ Len(t.ast.outputs) # 1 THEN lowerMultiAssignCall(t, args, <<>>)
  ELSE IF n \in StatementBuiltins THEN Value(Num(Unknown))
  ELSE Expression(n, args)
Bare(n, args) ==
  BareCall(IF n \in DOMAIN env /\ env[n].k # "handle" THEN Unresolved ELSE StatementTarget(n), n, args)

\* base.n(args): base a variable holding an object, which is the first argument,
\* or the name of a class.
InstanceCall(t, types) == IF t.k # "classMethod" THEN Refused ELSE dispatchResolvedMethodCall(t, types)
StaticCall(t, types) ==
  IF t.k # "classMethod" THEN Refused ELSE Body(classMethodSpecName(t.class, t.name), t, types, TRUE)
MethodCall(base, n, args) ==
  IF base \in DOMAIN env
  THEN IF env[base].k # "class" THEN Refused
       ELSE InstanceCall(resolveForTargetClass(<<n>>, Classes(<<env[base]>> \o Types(args)), env[base].name, callSite),
                         <<env[base]>> \o Types(args))
  ELSE IF <<base>> \notin ClassNames(registry) THEN Refused
       ELSE StaticCall(resolveForTargetClass(<<n>>, Classes(Types(args)), <<base>>, callSite), Types(args))

\* n@parent(args): a method of the parent, or its constructor for the object n.
SuperConstructor(t, n, args) ==
  IF n \notin DOMAIN env \/ t.k # "classConstructor" THEN Refused
  ELSE Body(t.class, t, <<env[n]>> \o Types(args), TRUE)
lowerSuperCall(n, parent, args) ==
  IF parent \notin ClassNames(registry) THEN Refused
  ELSE IF ~classHasMethod(registry, parent, <<n>>) THEN SuperConstructor(resolve(parent, <<>>, callSite), n, args)
  ELSE IF args = <<>> THEN Refused
  ELSE InstanceCall(resolveForTargetClass(<<n>>, Classes(Types(args)), parent, callSite), Types(args))

Callee ==
  IF ~Lowers(stmt.args) THEN Refused
  ELSE CASE stmt.k = "call" /\ stmt.form = "expr" -> Expression(stmt.name, stmt.args)
         [] stmt.k = "call" /\ stmt.form = "bare" -> Bare(stmt.name, stmt.args)
         [] stmt.k = "call" /\ stmt.form = "multi" ->
              lowerMultiAssignCall(StatementTarget(stmt.name), stmt.args, stmt.targets)
         [] stmt.k = "method" -> MethodCall(stmt.base, stmt.name, stmt.args)
         [] stmt.k = "super" -> lowerSuperCall(stmt.name, stmt.parent, stmt.args)

\* The key of the body a statement asks for, and its entry.
Key(c) == mangleSpecName(c.salt, c.file, c.args)

-----------------------------------------------------------------------------
(* Handles.                                                                 *)

\* What @(params) n(args) takes along: the names of its body that are
\* variables here, save those of constants and builtins.
ArgNames(args) == {args[i].name : i \in {j \in DOMAIN args : args[j].k # "num"}}
Mentioned(s) == {s.name} \cup ArgNames(s.args)
collectCaptures_Arguments(s) ==      \* seeded: a captured handle that is called is overlooked
  (ArgNames(s.args) \cap DOMAIN env) \ (Range(s.params) \cup Constants \cup Builtins)
collectCaptures(s) ==
  (Mentioned(s) \cap DOMAIN env) \ (Range(s.params) \cup Constants \cup Builtins)

\* The function a handle stands for takes what it captured after its own
\* parameters; scope is the text around it, kept for the properties.
HandleOf(s, names) ==
  LET name == "anon_" \o ToString(anonCounter)
      out == "anonOut_" \o ToString(anonCounter)
      call == [k |-> "call", form |-> "expr", name |-> s.name, args |-> s.args, targets |-> <<out>>]
  IN  Handle([k |-> "anonymous", name |-> name, file |-> frame.file,
              ast |-> [name |-> name, params |-> s.params \o names, outputs |-> <<out>>, body |-> <<call>>,
                       own |-> s.params, scope |-> env]],
             [i \in DOMAIN names |-> [name |-> names[i], ty |-> env[names[i]]]])

\* Each is taken once, in an order that shows nowhere.
lowerAnonFunc(s) == HandleOf(s, SetToSeq(collectCaptures(s)))

\* @n never means a variable, and no argument tells which class.  A builtin is
\* meant by its name whatever else the resolver found.
FunctionHandle(t, n) ==
  IF t.k = "userFunction" THEN {Handle([t EXCEPT !.k = "userFunc"], <<>>)}
  ELSE IF n \in Builtins /\ t # Unsupported THEN {Handle([k |-> "builtin", name |-> n], <<>>)}
  ELSE {}
lowerFuncHandle(n) == IF n \in DOMAIN env THEN {} ELSE FunctionHandle(resolve(<<n>>, <<>>, callSite), n)

-----------------------------------------------------------------------------
(* The steps.                                                               *)

Init ==
  /\ unread = Tail(project) /\ registry = EmptyRegistry /\ index = <<>>
  /\ stack = <<>> /\ cache = <<>> /\ order = <<>> /\ inFlight = {} /\ anonCounter = 0
  /\ status = "loading" /\ called = {}

Load == Register /\ UNCHANGED <<stack, shared, status, called>>

\* A file of functions alone runs the first of them, which can have no parameters.
Entry == IF mainFile.script = <<>> /\ mainFile.functions # <<>> THEN mainFile.functions[1].body ELSE mainFile.script

Start ==
  /\ finalize
  /\ IF mainFile.imports # <<>> \/ (mainFile.script = <<>> /\ mainFile.functions # <<>> /\ mainFile.functions[1].params # <<>>)
     THEN status' = "rejected" /\ UNCHANGED stack
     ELSE /\ status' = "lowering"
          /\ stack' = <<[key |-> Script, ast |-> [name |-> "", params |-> <<>>, outputs |-> <<>>, body |-> Entry],
                         file |-> mainFile, class |-> NoName, args |-> <<>>, env |-> <<>>, pc |-> 1]>>
  /\ UNCHANGED <<shared, called>>

Lowering == status = "lowering" /\ UNCHANGED wsVars
AtStatement(kinds) == Lowering /\ frame.pc <= Len(frame.ast.body) /\ stmt.k \in kinds
Calls == {"call", "method", "super"}

\* The statement is lowered, and its targets have these types.
Assigned(targets, types) ==
  LET these == Range(targets) \ {"~"}
  IN  [n \in these \cup DOMAIN env |->
         IF n \in these THEN types[Max({i \in DOMAIN targets : targets[i] = n})] ELSE env[n]]
Advance(targets, types) ==
  stack' = [stack EXCEPT ![Len(stack)] = [frame EXCEPT !.pc = frame.pc + 1, !.env = Assigned(targets, types)]]

\* An error leaves every body being lowered.
Reject == status' = "rejected" /\ stack' = <<>> /\ inFlight' = {} /\ UNCHANGED <<cache, order, anonCounter, called>>

LowerSet ==
  /\ AtStatement({"set"}) /\ Lowers(<<stmt.value>>)
  /\ Advance(<<stmt.target>>, <<ArgType(stmt.value)>>)
  /\ UNCHANGED <<shared, status, called>>

\* A return under a condition that is known: what follows is not lowered.
LowerStop ==
  /\ AtStatement({"stop"}) /\ stmt.name \in DOMAIN env /\ env[stmt.name].k = "num"
  /\ IF env[stmt.name].exact = {0} THEN stack' = [stack EXCEPT ![Len(stack)].pc = Len(frame.ast.body) + 1]
     ELSE Advance(<<>>, <<>>)
  /\ UNCHANGED <<shared, status, called>>

LowerAnonFunc ==
  /\ AtStatement({"anon"})
  /\ Advance(<<stmt.target>>, <<lowerAnonFunc(stmt)>>)
  /\ anonCounter' = anonCounter + 1
  /\ UNCHANGED <<cache, order, inFlight, status, called>>

LowerFuncHandle ==
  /\ AtStatement({"handle"})
  /\ \E h \in lowerFuncHandle(stmt.name) : Advance(<<stmt.target>>, <<h>>)
  /\ UNCHANGED <<shared, status, called>>

LowerError ==
  /\ \/ AtStatement({"set"}) /\ ~Lowers(<<stmt.value>>)
     \/ AtStatement({"stop"}) /\ (stmt.name \in DOMAIN env => env[stmt.name].k # "num")
     \/ AtStatement({"handle"}) /\ lowerFuncHandle(stmt.name) = {}
     \/ AtStatement(Calls) /\ Callee = Refused
  /\ Reject

\* What the history keeps of a call: where it stands, what it names, for
\* which types, and the body found.
Noted(c, got) ==
  [site |-> [file |-> frame.file, class |-> frame.class, variables |-> DOMAIN env], stmt |-> stmt,
   classes |-> Classes(Types(stmt.args)), got |-> got, caller |-> frame.key,
   receiver |-> IF stmt.k = "method" /\ stmt.base \in DOMAIN env THEN ClassOf(env[stmt.base]) ELSE NoName,
   key |-> IF c.k = "body" THEN Key(c) ELSE Script,
   asked |-> IF c.k = "body" THEN [ast |-> c.ast, file |-> c.file, args |-> c.args] ELSE <<>>]

\* A body asked for while it is being lowered: the call is recursive.
Recursive_Cached(key) == key \in DOMAIN cache      \* seeded: the bodies being lowered are not noticed
Recursive(key) == key \in inFlight

NewFrame(c) ==
  [key |-> Key(c), ast |-> c.ast, file |-> c.file, class |-> c.class, args |-> c.args, pc |-> 1,
   env |-> [p \in Range(c.ast.params) |-> c.args[Max({i \in DOMAIN c.ast.params : c.ast.params[i] = p})]]]

LowerBuiltin ==
  /\ AtStatement(Calls)
  /\ \E c \in {Callee} :
       /\ c.k = "value" /\ Len(stmt.targets) <= 1
       /\ Advance(stmt.targets, <<c.ty>>)
       /\ called' = called \cup {Noted(c, {})}
  /\ UNCHANGED <<shared, status>>

\* The body has been lowered for these types.
LowerCall ==
  /\ AtStatement(Calls)
  /\ \E c \in {Callee} :
       /\ c.k = "body" /\ Key(c) \in DOMAIN cache
       /\ IF c.single /\ Len(cache[Key(c)].outputs) # 1 THEN Reject
          ELSE /\ Advance(stmt.targets, cache[Key(c)].outputs)
               /\ called' = called \cup {Noted(c, {cache[Key(c)]})}
               /\ UNCHANGED <<shared, status>>

\* It has not: it is lowered now, unless it is being lowered.
Specialize ==
  /\ AtStatement(Calls)
  /\ \E c \in {Callee} :
       /\ c.k = "body" /\ Key(c) \notin DOMAIN cache
       /\ IF Recursive(Key(c)) THEN Reject
          ELSE /\ stack' = Append(stack, NewFrame(c))
               /\ inFlight' = inFlight \cup {Key(c)}
               /\ UNCHANGED <<cache, order, anonCounter, status, called>>

Emitted_First(key) == <<key>> \o order      \* seeded: callers before callees
Emitted(key) == Append(order, key)

\* The end of a body: every output must have been assigned.
Finish ==
  /\ Lowering /\ frame.pc > Len(frame.ast.body) /\ frame.key # Script
  /\ IF \E i \in DOMAIN frame.ast.outputs : frame.ast.outputs[i] \notin DOMAIN env THEN Reject
     ELSE /\ cache' = [key \in DOMAIN cache \cup {frame.key} |->
                          IF key = frame.key
                          THEN [ast |-> frame.ast, file |-> frame.file, args |-> frame.args,
                                outputs |-> [i \in DOMAIN frame.ast.outputs |-> env[frame.ast.outputs[i]]]]
                          ELSE cache[key]]
          /\ order' = Emitted(frame.key)
          /\ inFlight' = inFlight \ {frame.key}
          /\ stack' = Front(stack)
          /\ UNCHANGED <<anonCounter, status, called>>

FinishScript ==
  /\ Lowering /\ frame.pc > Len(frame.ast.body) /\ frame.key = Script
  /\ status' = "done" /\ stack' = <<>>
  /\ UNCHANGED <<shared, called>>

Stopped == status \in {"done", "rejected"} /\ UNCHANGED vars

Next == \/ Load \/ Start \/ LowerSet \/ LowerStop \/ LowerAnonFunc \/ LowerFuncHandle \/ LowerError
        \/ LowerBuiltin \/ LowerCall \/ Specialize \/ Finish \/ FinishScript \/ Stopped

Spec == Init /\ [][Next]_vars /\ WF_vars(Next)
-----------------------------------------------------------------------------
(* Properties.                                                              *)

\* The body a call runs is the one that was asked for: its function, its file,
\* lowered for these argument types and no others (mangleSpecName: all it
\* depends on is in the key).
RunsItsOwnBody ==
  \A c \in called : \A spec \in c.got :
    /\ spec.ast = c.asked.ast /\ spec.file = c.asked.file
    /\ spec.args = c.asked.args

\* The functions of the program are emitted in this order without prototypes:
\* a body comes after every body it calls (shared.order, emit.ts).
CalleesComeFirst ==
  \A c \in called : c.got # {} =>
    \E i \in DOMAIN order :
      order[i] = c.key /\ (\A j \in DOMAIN order : order[j] = c.caller => i < j)

\* No body is lowered inside itself, and none twice: the keys in flight are
\* those of the bodies on the stack, each once, none of them cached.
NoneTwice ==
  /\ inFlight = {stack[i].key : i \in DOMAIN stack} \ {Script}
  /\ \A i, j \in DOMAIN stack : i # j => stack[i].key # stack[j].key
  /\ \A i, j \in DOMAIN order : i # j => order[i] # order[j]
  /\ Range(order) = DOMAIN cache /\ inFlight \cap DOMAIN cache = {}

\* A variable named in the body of an anonymous function is, wherever the
\* handle is called, what it was where the handle was made: not a function of
\* that name, nor a variable of the caller (lowerAnonFunc, buildCaptureArgs).
CapturesMeanTheSame ==
  \A i \in DOMAIN stack :
    "scope" \in DOMAIN stack[i].ast =>
      LET ast == stack[i].ast
      IN  \A n \in (Mentioned(ast.body[1]) \cap DOMAIN ast.scope) \ Range(ast.own) :
            stack[i].pc = 1 => n \in DOMAIN stack[i].env /\ stack[i].env[n] = ast.scope[n]
=============================================================================
