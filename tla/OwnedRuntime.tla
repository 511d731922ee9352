---------------------------- MODULE OwnedRuntime ----------------------------
(***************************************************************************)
(* The generated C, running: every branch, every number of iterations,     *)
(* every way out, and at each statement the frees codegen put behind it,   *)
(* wherever it put them.  A handle is the set of heap buffers a variable   *)
(* points to; the runtime helpers free and install whole handles.  Which   *)
(* frees codegen places is OwnedCodegen's part; here they are known by the *)
(* equations that liveness.ts and emitStmt.ts solve.                       *)
(***************************************************************************)
EXTENDS Naturals, Sequences

CONSTANTS
    Vars,       \* the function's owned C variables
    Kind        \* the owned kind of each

Kinds == {"tensor", "struct", "handle", "cell", "string"}

ASSUME KindAssumption == Kind \in [Vars -> Kinds]

(***************************************************************************)
(* A statement is [op, uses, defs, frees, knows] plus, by op:              *)
(*   "assign"  rhs: "producer" (a fresh value), "var", "slot" (c{k})       *)
(*   "call"    x = f(args), [x, y] = f(args): args = uses                  *)
(*   "store"   writes through its base in place: the base is a use         *)
(*   "read"    ExprStmt, Disp, Assert, Fprintf                             *)
(*   "error"   never returns                                               *)
(*   "if"      arms (the last one is the else arm, <<>> when there is none)*)
(*   "loop"    body                                                        *)
(*   "break", "continue", "return", and "exit", the end of the function    *)
(*   "after"   the frees behind an if or a loop                            *)
(*   "again"   a loop that is under way                                    *)
(* knows is what the emitter knew of it, which the C has no trace of:      *)
(*   before, after  the variables that it or what follows, or what follows *)
(*                  alone, may touch (computeFutureTouches)                *)
(*   freed     what has been freed on every way to it (freedOwned)         *)
(*   ctx       what may be touched where a break or a continue leads       *)
(* and rejoin, of an if or a loop, is what it knew of the frees behind it.  *)
(***************************************************************************)
Simple == {"assign", "call", "store", "read", "error"}

VARIABLES
    fn,        \* the function being run: [params, outputs, ...]
    todo,      \* the code still to run, innermost first
    handle,    \* the buffers each variable points to
    live,      \* the buffers allocated and not freed
    has,       \* the variables the source program has given a value
    released,  \* the variables freed early, that is after a last touch
    doubleFree,\* a buffer was freed twice
    exit,      \* "running", "returned", "aborted"
    result     \* the handles given to the caller, one per output

vars == <<fn, todo, handle, live, has, released, doubleFree, exit, result>>

\* Bound: the addresses, named after the variable they were first given to.
Buf == Vars \X (0..3)
Bufs(h, xs) == UNION {h[x] : x \in xs}

\* Arguments arrive as the callee's own copies; locals are empty handles.
Starts ==
    /\ handle = [x \in Vars |-> IF x \in fn.params THEN {<<x, 0>>} ELSE {}]
    /\ live = Bufs(handle, Vars)
    /\ has = fn.params
    /\ released = {}
    /\ doubleFree = FALSE
    /\ exit = "running"
    /\ result = <<>>

-----------------------------------------------------------------------------
\* wrapOwnedArgCopy: the variables that are copied when they are arguments.
CopiedAtCall == {x \in Vars : Kind[x] \in {"tensor", "struct", "handle"}}

Used == live \cup Bufs(handle, Vars)
\* mtoc_alloc hands out any unused address, freed ones included.
Fresh(x) == CHOOSE u \in Buf \ Used : u[1] = x

Installed_Alias(s, x) ==           \* seeded: a Var right-hand side is not copied
    IF s.op = "assign" /\ s.rhs = "var" THEN Bufs(handle, s.uses) ELSE {Fresh(x)}

\* The slot of a cell that is not a tensor is rendered as the slot itself.
RawSlot(s, x) == s.op = "assign" /\ s.rhs = "slot" /\ Kind[x] # "tensor"

\* What a statement installs in x: any right-hand side but a raw slot is a new value.
Installed(s, x) == IF RawSlot(s, x) THEN Bufs(handle, s.uses) ELSE {Fresh(x)}

\* What a callee frees at its scope exit of the arguments it was handed as
\* they are (functionFreeOnExitSet: its parameters of every kind but text).
Given(s) ==
    IF s.op = "call" THEN Bufs(handle, {x \in s.uses : Kind[x] # "string"} \ CopiedAtCall) ELSE {}

After(s) == [op |-> "after", uses |-> {}, defs |-> {}, frees |-> s.frees, knows |-> s.rejoin]
Again(s) == [s EXCEPT !.op = "again"]

\* A freed variable is left as an empty handle.
Freed(h, xs) == [x \in Vars |-> IF x \in xs THEN {} ELSE h[x]]

\* The next statement is one of ops.
Comes(ops) == exit = "running" /\ todo # <<>> /\ Head(todo).op \in ops

\* A straight-line statement: its effect (the _assign helpers free what they
\* overwrite, a callee frees what it was given), then the frees codegen put
\* after it.
Execute ==
    /\ Comes((Simple \ {"error"}) \cup {"after"})
    /\ LET s     == Head(todo)
           h     == [x \in Vars |-> IF x \in s.defs THEN Installed(s, x) ELSE handle[x]]
           given == Given(s)
           old   == Bufs(handle, s.defs)
           kept  == ((live \ given) \cup Bufs(h, s.defs)) \ old
           early == Bufs(h, s.frees)
       IN  /\ handle' = Freed(h, s.frees)
           /\ live' = kept \ early
           /\ doubleFree' = \/ doubleFree
                            \/ ~(given \subseteq live /\ old \subseteq live \ given)
                            \/ ~(early \subseteq kept)
           /\ has' = has \cup s.defs
           /\ released' = released \cup s.frees
    /\ todo' = Tail(todo)
    /\ UNCHANGED <<fn, exit, result>>

\* Control flow: an if runs one arm, then the frees after the if.
Branch ==
    /\ Comes({"if"})
    /\ \E i \in DOMAIN Head(todo).arms :
          todo' = Head(todo).arms[i] \o <<After(Head(todo))>> \o Tail(todo)
    /\ UNCHANGED <<fn, handle, live, has, released, doubleFree, exit, result>>

\* A loop is entered once more or left.
Iterate ==
    /\ Comes({"loop", "again"})
    /\ LET s == Head(todo)
       IN  \/ todo' = s.body \o <<Again(s)>> \o Tail(todo)
           \/ todo' = <<After(s)>> \o Tail(todo)
    /\ UNCHANGED <<fn, handle, live, has, released, doubleFree, exit, result>>

\* break and continue jump to the innermost loop under way.
Jump ==
    /\ Comes({"break", "continue"})
    /\ \E loop \in DOMAIN todo :
          /\ todo[loop].op = "again" /\ \A i \in 1 .. loop - 1 : todo[i].op # "again"
          /\ todo' = IF Head(todo).op = "break"
                     THEN <<After(todo[loop])>> \o SubSeq(todo, loop + 1, Len(todo))
                     ELSE SubSeq(todo, loop, Len(todo))
    /\ UNCHANGED <<fn, handle, live, has, released, doubleFree, exit, result>>

\* An early return or the end of the body: the scope-exit frees, then the
\* outputs' handles go to the caller.  An early return whose one output is a
\* function handle is a bare `return;`.
Leave ==
    /\ Comes({"return", "exit"})
    /\ LET s    == Head(todo)
           bare == s.op = "return" /\ Len(fn.outputs) = 1 /\ Kind[fn.outputs[1]] = "handle"
       IN  /\ result' = IF bare THEN <<>> ELSE [i \in DOMAIN fn.outputs |-> handle[fn.outputs[i]]]
           /\ handle' = Freed(handle, s.frees)
           /\ live' = live \ Bufs(handle, s.frees)
           /\ doubleFree' = (doubleFree \/ ~(Bufs(handle, s.frees) \subseteq live))
    /\ exit' = "returned"
    /\ todo' = <<>>
    /\ UNCHANGED <<fn, has, released>>

\* mtoc_error_text exits the process.
Abort ==
    /\ Comes({"error"})
    /\ exit' = "aborted"
    /\ todo' = <<>>
    /\ UNCHANGED <<fn, handle, live, has, released, doubleFree, result>>

Next == Execute \/ Branch \/ Iterate \/ Jump \/ Leave \/ Abort

-----------------------------------------------------------------------------
(* What is asked of the code that runs.                                     *)

\* A set of statements that holds, with each, all that running it leads to.
Closed(code) ==
    \A s \in code :
        /\ {"op", "uses", "defs", "frees", "knows"} \subseteq DOMAIN s
        /\ s.op \in {"loop", "again"} => {"body", "rejoin"} \subseteq DOMAIN s
        /\ s.uses \cup s.defs \cup s.frees \subseteq Vars
        /\ s.op = "if" => \A i \in DOMAIN s.arms : s.arms[i] \in Seq(code)
        /\ s.op \in {"loop", "again"} => s.body \in Seq(code) /\ Again(s) \in code
        /\ s.op \in {"if", "loop", "again"} => After(s) \in code

\* No slot of a cell is installed as it is, and no cell is handed to a function.
Copies(code) ==
    \A s \in code :
        /\ \A x \in s.defs : ~RawSlot(s, x)
        /\ s.op = "call" => \A x \in s.uses : Kind[x] # "cell"

\* No way out of f frees what it hands to the caller.
SparesOutputs(f, code) ==
    \A s \in code : s.op \in {"return", "exit"} => \A i \in DOMAIN f.outputs : f.outputs[i] \notin s.frees

\* Statements that control does not fall out of.
Leaves == {"error", "break", "continue", "return", "exit"}

\* What has been freed once s and the frees behind it have run.
FreedBy(s) == s.frees \cup (IF s.op \in {"if", "loop", "again"} THEN s.rejoin.freed ELSE s.knows.freed)

\* t may come right behind s: what it touches s has not freed, and what it
\* takes to be freed is.
Follows(s, t) ==
    /\ t.knows.before \subseteq s.knows.after
    /\ t.op = "again" \/ t.knows.freed \subseteq FreedBy(s)

Linked(q) == \A i \in 1 .. Len(q) - 1 : q[i].op \in Leaves \/ Follows(q[i], q[i + 1])

\* q runs first of all inside s.
Enters(s, q) ==
    /\ q[1].knows.before \subseteq s.knows.before
    /\ q[1].op = "again" \/ q[1].knows.freed \subseteq s.knows.freed

\* The two analyses as equations, statement by statement: touchStmt, with its
\* fixpoint at a loop and what the jumps lead to; freedOwned, with the join
\* behind an if; deadAfterStmt, and what is left for the ways out of f.
Analysed(f, code) ==
    \A s \in code :
        /\ s.uses \cup s.defs \subseteq s.knows.before
        /\ s.op \in Simple \cup {"after"} => s.knows.after \subseteq s.knows.before
        /\ s.op \notin Leaves => s.frees \cap s.knows.after = {}
        /\ s.op \in {"if", "loop", "again"} =>
              /\ After(s).knows.after = s.knows.after /\ After(s).knows.ctx = s.knows.ctx
              /\ After(s).knows.before \subseteq s.knows.before
        /\ s.op = "if" => \A i \in DOMAIN s.arms :
              /\ Linked(Append(s.arms[i], After(s))) /\ Enters(s, Append(s.arms[i], After(s)))
              /\ \A j \in DOMAIN s.arms[i] :
                    s.arms[i][j].op # "again" /\ s.arms[i][j].knows.ctx = s.knows.ctx
        /\ s.op \in {"loop", "again"} =>
              /\ Linked(Append(s.body, Again(s))) /\ Enters(s, Append(s.body, Again(s)))
              /\ After(s).knows.freed \subseteq s.knows.freed
              /\ \A j \in DOMAIN s.body :
                    /\ s.body[j].op # "again"
                    /\ After(s).knows.before \subseteq s.body[j].knows.ctx.break
                    /\ s.knows.before \subseteq s.body[j].knows.ctx.continue
        /\ s.op = "break" => s.knows.ctx.break \subseteq s.knows.before
        /\ s.op = "continue" => s.knows.ctx.continue \subseteq s.knows.before
        /\ s.op \in {"return", "exit"} => \A x \in Vars :
              IF \E i \in DOMAIN f.outputs : f.outputs[i] = x THEN x \in s.knows.before
              ELSE x \in s.frees \cup s.knows.freed

\* A body as a whole: nothing is freed before it, no loop is under way, and its
\* last statement is the end of the function.
WholeBody(q) ==
    /\ q # <<>> /\ q[1].knows.freed = {} /\ q[Len(q)].op = "exit"
    /\ \A i \in DOMAIN q : q[i].op # "again"

\* An early return that carries the function's outputs.
HandsOver(f, code) ==
    Len(f.outputs) = 1 /\ Kind[f.outputs[1]] = "handle" => \A s \in code : s.op # "return"

\* One function, whose body is compiled to any such code.
RunOf(f, body, code) ==
    /\ fn = f /\ f.params \subseteq Vars
    /\ todo = body /\ body \in Seq(code)
    /\ Starts /\ [][Next]_vars

-----------------------------------------------------------------------------
\* Every variable keeps its type.
TypeOK ==
    /\ handle \in [Vars -> SUBSET Buf]
    /\ live \subseteq Buf
    /\ has \subseteq Vars /\ released \subseteq Vars
    /\ doubleFree \in BOOLEAN
    /\ exit \in {"running", "returned", "aborted"}

\* Value semantics in C: a variable's handle points only to allocated
\* buffers, no buffer belongs to two variables, and none is freed twice, by
\* whatever mix of early frees, overwriting, scope-exit frees and callees.
HandlesOwnBuffers ==
    /\ ~doubleFree
    /\ exit = "running" =>
          /\ Bufs(handle, Vars) \subseteq live
          /\ \A x, y \in Vars : x # y => handle[x] \cap handle[y] = {}

\* A statement that reads a variable the source program has assigned finds
\* its value: an early free comes after the last touch on every path, breaks,
\* continues and further iterations included.
ReadsFindValue ==
    exit = "running" =>
        /\ \A x \in Head(todo).uses \cap has : handle[x] # {}
        /\ released \cap (Head(todo).uses \cup Head(todo).defs) = {}

\* When the function returns, all it allocated and did not hand over has been
\* freed, on every path out.
NoLeak == exit = "returned" => live = UNION {result[i] : i \in DOMAIN result}

\* What the caller is given is allocated, and no two outputs share a buffer.
OutputsAlive ==
    exit = "returned" =>
        /\ \A i \in DOMAIN result : result[i] \subseteq live
        /\ \A i, j \in DOMAIN result :
              fn.outputs[i] # fn.outputs[j] => result[i] \cap result[j] = {}

\* Every output that was assigned reaches the caller with a value of its own
\* that is still allocated.
ResultIntact ==
    /\ OutputsAlive
    /\ exit = "returned" =>
          /\ DOMAIN result = DOMAIN fn.outputs
          /\ \A i \in DOMAIN result : fn.outputs[i] \in has => result[i] # {}
=============================================================================
