--------------------------- MODULE MCOwnedCodegen ---------------------------
(***************************************************************************)
(* OwnedCodegen on all functions of a given shape over two variables: a    *)
(* statement, an if or a loop (with or without an early exit inside), and  *)
(* a statement.                                                            *)
(***************************************************************************)
EXTENDS OwnedCodegen

CONSTANTS a, b

Tensors == [x \in Vars |-> "tensor"]
Handles == [x \in Vars |-> "handle"]
CellArg == [x \in Vars |-> IF x = a THEN "cell" ELSE "tensor"]
StringSlot == [x \in Vars |-> IF x = a THEN "cell" ELSE "string"]

\* What codegen emits is code as OwnedRuntime takes it.
ASSUME CompiledCode ==
    \A f \in Functions : LET code == Parts(Compile(f))
                         IN  Compile(f) \in Seq(code) /\ Closed(code) /\ WholeBody(Compile(f))

Assign(x, r, u) == [op |-> "assign", rhs |-> r, uses |-> u, defs |-> {x}]
Call(d, u) == [op |-> "call", uses |-> u, defs |-> d]
Read(u) == [op |-> "read", uses |-> u, defs |-> {}]
Store(u) == [op |-> "store", uses |-> u, defs |-> {}]
Fail(u) == [op |-> "error", uses |-> u, defs |-> {}]
If(u, arms) == [op |-> "if", uses |-> u, defs |-> {}, arms |-> arms]
Loop(u, body) == [op |-> "loop", uses |-> u, defs |-> {}, body |-> body]
Go(how) == [op |-> how, uses |-> {}, defs |-> {}]

New(x) == Assign(x, "producer", {})
Copy(x, y) == Assign(x, "var", {y})

Before == {New(a), Read({a}), Call({a, b}, {a})}
Behind == {Read({b}), New(b), Read({a}), Call({a}, {a, b})}
Inner == {New(a), Copy(b, a), Read({b}), Fail({a}), Call({b}, {a})}
Exits == {Go("break"), Go("continue"), Go("return")}

\* Conditionals that may leave the function from either arm.
Ifs == {If(u, <<arm, els>>) :
            u \in {{}, {a}},
            arm \in {<<x>> : x \in Inner} \cup {<<x, Go("return")>> : x \in Inner},
            els \in {<<>>, <<New(b)>>, <<Store({a, b})>>, <<Go("return")>>}}

\* Loops of two statements, with an exit guarded between them or in an arm,
\* and two nested loops with an exit from the inner one.
Loops == {Loop({}, <<x, y>>) : x \in Inner, y \in Inner \cup {Store({a, b})}}
         \cup {Loop({}, <<x, If({}, <<<<e>>, <<>>>>), y>>) : x \in Inner, e \in Exits, y \in Inner}
         \cup {Loop({}, <<If({b}, <<<<x, e>>, <<y>>>>)>>) : x \in Inner, e \in Exits, y \in Inner}
         \cup {Loop({}, <<Loop({b}, <<x, If({}, <<<<e>>, <<>>>>)>>), y>>) :
                  x \in Inner, e \in Exits, y \in Inner}

Bodies == {<<x, c, y>> : x \in Before, c \in Ifs \cup Loops, y \in Behind}

Signatures == {[params |-> {a}, outputs |-> <<b>>], [params |-> {}, outputs |-> <<>>],
               [params |-> {a, b}, outputs |-> <<a, b>>]}

Small == {[params |-> s.params, outputs |-> s.outputs, body |-> t] :
             s \in Signatures, t \in Bodies}

\* One call with a cell argument, one read of a cell slot, one early return.
CallOnly == {[params |-> {a}, outputs |-> <<>>, body |-> <<Call({b}, {a}), Read({a})>>]}
SlotOnly == {[params |-> {a}, outputs |-> <<b>>, body |-> <<Assign(b, "slot", {a}), Read({a})>>]}
ReturnOnly == {[params |-> {a}, outputs |-> <<b>>,
                body |-> <<Copy(b, a), If({a}, <<<<Go("return")>>, <<>>>>), Copy(b, a)>>]}
=============================================================================
