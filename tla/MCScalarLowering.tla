--------------------------- MODULE MCScalarLowering ---------------------------
(***************************************************************************)
(* The functions ScalarLowering is checked on.  Each set below is a        *)
(* template with its holes filled in every way: types that change on one   *)
(* arm only, conditions that fold for some argument types and not for      *)
(* others, variables assigned on no, one or every path, splits before and  *)
(* inside control flow, loops whose body moves what the entry knew.        *)
(***************************************************************************)
EXTENDS ScalarLowering

num(v) == [k |-> "num", v |-> <<v>>]
row(v) == [k |-> "num", v |-> v]
var(x) == [k |-> "var", x |-> x]
bin(op, l, r) == [k |-> "bin", op |-> op, l |-> l, r |-> r]

set(x, e) == [k |-> "assign", x |-> x, e |-> e]
disp(e) == [k |-> "show", e |-> e]
arm(c, body) == [cond |-> c, body |-> body]
if(arms, els) == [k |-> "if", arms |-> arms, els |-> els]
while(c, body) == [k |-> "while", cond |-> c, body |-> body]
for(x, start, step, end, body) ==
    [k |-> "for", x |-> x, start |-> start, step |-> step, end |-> end, body |-> body]
jump(k) == [k |-> k]

\* x starts as one thing, becomes another on some arms, and is used after.
BranchPrograms ==
    {<<set("x", e1),
       if(<<arm(bin("Less", var("a"), num(1)), <<set("x", e2)>>),
            arm(bin("Less", var("x"), num(2)), <<set("z", e3), disp(var("z"))>>)>>, els),
       disp(var("x")), set("y", e4)>> :
        e1 \in {num(2), var("a"), row(<<1, -1>>)},
        e2 \in {num(2), num(-1), bin("Mul", var("x"), var("x")), row(<<3, 0>>)},
        e3 \in {bin("Sub", var("x"), num(1)), row(<<2, 2>>)},
        els \in {<<>>, <<set("x", bin("Add", var("x"), num(3))), set("z", num(1))>>},
        e4 \in {var("x"), bin("Add", var("x"), var("z")), bin("Less", num(0), var("x"))}}

\* A variable gets another C variable between two branches on it, and the
\* function may return before the last assignment of its result.
SplitPrograms ==
    {<<set("x", e1), disp(var("x")), set("x", e2),
       if(<<arm(bin("Less", bin("Sub", var("a"), num(1)), num(0)),
                <<set("x", bin("Mul", var("x"), num(2))), set("y", var("a"))>> \o leave)>>, <<>>),
       disp(var("x")), set("y", bin("Mul", var("a"), var("a")))>> :
        e1 \in {num(1), var("a"), row(<<0, 1>>)},
        e2 \in {bin("Sub", num(0), var("x")), row(<<4, 5>>), bin("Add", var("x"), row(<<1, 2>>))},
        leave \in {<<>>, <<jump("return")>>}}

\* A counting loop, up or down, then one that runs until its variable, whose
\* value the first loop left open, has moved; each may be left early.
LoopPrograms ==
    {<<set("x", num(0)), set("z", e1), set("j", num(0)),
       for("k", start, step, num(2),
           <<if(<<arm(bin("Less", var("a"), var("k")), <<set("z", e2)>> \o first)>>, <<>>),
             set("x", bin("Add", var("x"), e3))>>),
       while(bin("Less", var("x"), num(4)),
             <<set("x", bin("Add", var("x"), var("j"))), set("j", num(2))>> \o second),
       disp(var("z")), set("y", var("x"))>> :
        e1 \in {num(1), var("a")},
        start \in {num(1), var("a")}, step \in {1, -1},
        e2 \in {num(1), bin("Add", var("z"), num(1))},
        e3 \in {num(1), var("k")},
        first \in {<<>>, <<jump("continue")>>},
        second \in {<<>>,
                    <<if(<<arm(bin("Less", num(1), var("x")), <<jump("break")>>)>>, <<>>)>>,
                    <<for("k", num(2), -1, num(1), <<set("z", var("k"))>>)>>}}

MCInputs == {-1, 1, 2}

MCPrograms == BranchPrograms \cup SplitPrograms \cup LoopPrograms

\* src/test_scripts/control_flow/while_basic.m, on a smaller number.
MCCountdown ==
    {<<set("n", num(3)), set("y", num(0)),
       while(bin("Less", num(0), var("n")),
             <<set("y", bin("Add", var("y"), var("n"))),
               set("n", bin("Sub", var("n"), num(1)))>>)>>}

\* y = -1; if 0 < a, return; end; y = 1
MCEarlyReturn ==
    {<<set("y", num(-1)), if(<<arm(bin("Less", num(0), var("a")), <<jump("return")>>)>>, <<>>),
       set("y", num(1))>>}
=============================================================================
