------------------------ MODULE OwnedRuntime_proofs ------------------------
(***************************************************************************)
(* Proofs about OwnedRuntime, for any variables, any function and any      *)
(* code.  While no cell is handed to a function and no slot is installed   *)
(* raw, every handle owns its buffers and nothing is freed twice, wherever *)
(* the frees stand.  When the frees moreover solve the equations of the    *)
(* two analyses, no value is lost, none is left behind and the results     *)
(* reach the caller.                                                       *)
(***************************************************************************)
EXTENDS OwnedRuntime, SequenceTheorems, TLAPS

\* A handle holds at most one buffer, and that has its variable's name.
Own(h) ==
    /\ h \in [Vars -> SUBSET Buf]
    /\ \A x \in Vars : \E n \in 0..3 : h[x] \subseteq {<<x, n>>}

\* The inductive invariant of a run of f's code.
IInv(f, code) ==
    /\ fn = f /\ todo \in Seq(code)
    /\ Own(handle)
    /\ live \subseteq Buf /\ has \subseteq Vars /\ released \subseteq Vars
    /\ exit \in {"running", "returned", "aborted"}
    /\ exit = "running" => live = Bufs(handle, Vars)
    /\ doubleFree = FALSE

-----------------------------------------------------------------------------
(* Handles and their buffers.                                               *)

LEMMA BufsOf ==
    ASSUME NEW h, NEW xs, NEW u
    PROVE  u \in Bufs(h, xs) <=> \E x \in xs : u \in h[x]
BY DEF Bufs

\* The buffer tells whose it is.
LEMMA OwnName ==
    ASSUME NEW h, Own(h), NEW x \in Vars, NEW u \in h[x]
    PROVE  u \in Buf /\ u[1] = x
<1>1. PICK n \in 0..3 : h[x] \subseteq {<<x, n>>}
  BY DEF Own
<1>2. u = <<x, n>>
  BY <1>1
<1> QED BY <1>2 DEF Buf

LEMMA OwnApart ==
    ASSUME NEW h, Own(h), NEW x \in Vars, NEW y \in Vars, x # y
    PROVE  h[x] \cap h[y] = {}
BY OwnName, Zenon

\* Some address of x's is always left.
LEMMA FreshFacts ==
    ASSUME Own(handle), live = Bufs(handle, Vars), NEW x \in Vars
    PROVE  Fresh(x) \in Buf \ Bufs(handle, Vars) /\ Fresh(x)[1] = x
<1>1. PICK n \in 0..3 : handle[x] \subseteq {<<x, n>>}
  BY DEF Own
<1>2. PICK m \in 0..3 : m # n
  <2>1. 0 \in 0..3 /\ 1 \in 0..3 /\ (n # 0 \/ n # 1)
    OBVIOUS
  <2> QED BY <2>1
<1>3. <<x, m>> \in Buf /\ <<x, m>>[1] = x
  BY DEF Buf
<1>4. <<x, m>> \notin Bufs(handle, Vars)
  <2> SUFFICES ASSUME NEW y \in Vars, <<x, m>> \in handle[y]
               PROVE  FALSE
    BY DEF Bufs
  <2>1. y = x
    BY <1>3, OwnName
  <2>2. <<x, m>> = <<x, n>>
    BY <1>1, <2>1
  <2> QED BY <1>2, <2>2
<1>5. Used = Bufs(handle, Vars)
  BY DEF Used
<1>6. \E u : u \in Buf \ Used /\ u[1] = x
  BY <1>3, <1>4, <1>5
<1> QED BY <1>5, <1>6 DEF Fresh

\* Freeing a handle leaves the others theirs, and the heap what they hold.
LEMMA FreedFacts ==
    ASSUME NEW h, Own(h), NEW xs \in SUBSET Vars
    PROVE  /\ Own(Freed(h, xs))
           /\ Bufs(Freed(h, xs), Vars) = Bufs(h, Vars) \ Bufs(h, xs)
           /\ Bufs(h, xs) \subseteq Bufs(h, Vars)
<1>1. \A x \in Vars : Freed(h, xs)[x] = IF x \in xs THEN {} ELSE h[x]
  BY DEF Freed
<1>2. Own(Freed(h, xs))
  <2>1. Freed(h, xs) \in [Vars -> SUBSET Buf]
    BY DEF Freed, Own
  <2>2. \A x \in Vars : Freed(h, xs)[x] \subseteq h[x]
    BY <1>1
  <2> QED BY <2>1, <2>2 DEF Own
<1>3. ASSUME NEW u
      PROVE  u \in Bufs(Freed(h, xs), Vars) <=> u \in Bufs(h, Vars) /\ u \notin Bufs(h, xs)
  <2>1. u \in Bufs(Freed(h, xs), Vars) <=> \E x \in Vars : x \notin xs /\ u \in h[x]
    BY <1>1 DEF Bufs
  <2>2. \A x, y \in Vars : u \in h[x] /\ u \in h[y] => x = y
    BY OwnApart
  <2> QED BY <2>1, <2>2 DEF Bufs
<1>4. Bufs(h, xs) \subseteq Bufs(h, Vars)
  BY DEF Bufs
<1> QED BY <1>2, <1>3, <1>4

-----------------------------------------------------------------------------
(* The steps.                                                               *)

\* The next statement, with all that is asked of it.
LEMMA HeadFacts ==
    ASSUME NEW code, Closed(code), todo \in Seq(code), NEW ops, Comes(ops)
    PROVE  /\ Head(todo) \in code /\ Tail(todo) \in Seq(code)
           /\ Head(todo).op \in ops /\ exit = "running"
           /\ Head(todo).uses \subseteq Vars /\ Head(todo).defs \subseteq Vars
           /\ Head(todo).frees \subseteq Vars
<1>1. todo # <<>> /\ Head(todo).op \in ops /\ exit = "running"
  BY DEF Comes
<1>2. Head(todo) \in code /\ Tail(todo) \in Seq(code)
  BY <1>1, HeadTailProperties
<1> QED BY <1>1, <1>2 DEF Closed

LEMMA ExecuteKeeps ==
    ASSUME NEW f, NEW code, Closed(code), Copies(code), IInv(f, code), Execute
    PROVE  IInv(f, code)'
<1> DEFINE s     == Head(todo)
           h     == [x \in Vars |-> IF x \in s.defs THEN Installed(s, x) ELSE handle[x]]
           given == Given(s)
           old   == Bufs(handle, s.defs)
           kept  == ((live \ given) \cup Bufs(h, s.defs)) \ old
           early == Bufs(h, s.frees)
<1>1. /\ s \in code /\ Tail(todo) \in Seq(code) /\ exit = "running"
      /\ s.uses \subseteq Vars /\ s.defs \subseteq Vars /\ s.frees \subseteq Vars
  BY HeadFacts DEF Execute, IInv
<1>2. Own(handle) /\ live = Bufs(handle, Vars) /\ doubleFree = FALSE
  BY <1>1 DEF IInv
<1>3. /\ handle' = Freed(h, s.frees) /\ live' = kept \ early
      /\ doubleFree' = (doubleFree \/ ~(given \subseteq live /\ old \subseteq live \ given)
                                   \/ ~(early \subseteq kept))
      /\ has' = has \cup s.defs /\ released' = released \cup s.frees
      /\ todo' = Tail(todo) /\ fn' = fn /\ exit' = exit /\ result' = result
  BY DEF Execute
<1>4. given = {}
  <2>1. CASE s.op = "call"
    <3>1. ASSUME NEW x \in s.uses, Kind[x] # "string"
          PROVE  x \in CopiedAtCall
      <4>1. x \in Vars /\ Kind[x] \in Kinds /\ Kind[x] # "cell"
        BY <1>1, <2>1, <3>1, KindAssumption DEF Copies
      <4> QED BY <3>1, <4>1 DEF Kinds, CopiedAtCall
    <3>2. {x \in s.uses : Kind[x] # "string"} \ CopiedAtCall = {}
      BY <3>1
    <3> QED BY <2>1, <3>2 DEF Given, Bufs
  <2> QED BY <2>1 DEF Given
<1>5. \A x \in s.defs : h[x] = {Fresh(x)}
  BY <1>1 DEF Copies, Installed
<1>6. \A x \in Vars \ s.defs : h[x] = handle[x]
  OBVIOUS
<1> HIDE DEF s, h, given
<1>7. \A x \in s.defs : Fresh(x) \in Buf \ Bufs(handle, Vars) /\ Fresh(x)[1] = x
  BY <1>1, <1>2, FreshFacts
<1>8. Own(h)
  <2>1. ASSUME NEW x \in Vars
        PROVE  h[x] \in SUBSET Buf /\ \E n \in 0..3 : h[x] \subseteq {<<x, n>>}
    <3>1. CASE x \in s.defs
      <4>1. PICK y \in Vars, n \in 0..3 : Fresh(x) = <<y, n>>
        BY <1>7, <3>1 DEF Buf
      <4>2. y = x
        BY <1>7, <3>1, <4>1
      <4> QED BY <1>5, <1>7, <3>1, <4>1, <4>2
    <3>2. CASE x \notin s.defs
      BY <1>2, <1>6, <3>2 DEF Own
    <3> QED BY <3>1, <3>2
  <2>2. h = [x \in Vars |-> h[x]]
    BY DEF h
  <2> QED BY <2>1, <2>2 DEF Own
<1>9. kept = Bufs(h, Vars)
  <2>1. ASSUME NEW u
        PROVE  u \in kept <=> u \in Bufs(h, Vars)
    <3>1. u \in kept <=> /\ u \in Bufs(handle, Vars) \/ \E x \in s.defs : u = Fresh(x)
                         /\ ~\E x \in s.defs : u \in handle[x]
      <4>1. u \in Bufs(h, s.defs) <=> \E x \in s.defs : u = Fresh(x)
        BY <1>5 DEF Bufs
      <4>2. u \in old <=> \E x \in s.defs : u \in handle[x]
        BY DEF Bufs
      <4> QED BY <1>2, <1>4, <4>1, <4>2
    <3>2. u \in Bufs(h, Vars) <=> \/ \E x \in s.defs : u = Fresh(x)
                                  \/ \E x \in Vars \ s.defs : u \in handle[x]
      BY <1>1, <1>5, <1>6 DEF Bufs
    <3>3. \A x \in s.defs : u = Fresh(x) => ~\E y \in s.defs : u \in handle[y]
      BY <1>1, <1>7 DEF Bufs
    <3>4. \A x \in s.defs, y \in Vars \ s.defs : ~(u \in handle[x] /\ u \in handle[y])
      BY <1>1, <1>2, OwnApart
    <3>5. u \in Bufs(handle, Vars) <=> \/ \E x \in s.defs : u \in handle[x]
                                       \/ \E x \in Vars \ s.defs : u \in handle[x]
      BY <1>1 DEF Bufs
    <3> QED BY <3>1, <3>2, <3>3, <3>4, <3>5
  <2> QED BY <2>1
<1>10. /\ Own(handle') /\ live' = Bufs(handle', Vars)
       /\ early \subseteq kept
  BY <1>1, <1>3, <1>8, <1>9, FreedFacts
<1>11. doubleFree' = FALSE
  <2>1. old \subseteq live
    BY <1>1, <1>2 DEF Bufs
  <2> QED BY <1>2, <1>3, <1>4, <1>10, <2>1
<1>12. live' \subseteq Buf
  BY <1>10 DEF Own, Bufs
<1> QED BY <1>1, <1>3, <1>10, <1>11, <1>12 DEF IInv

\* Control flow touches no handle, and goes on with code.
LEMMA GoingOnKeeps ==
    ASSUME NEW f, NEW code, IInv(f, code), todo' \in Seq(code),
           UNCHANGED <<fn, handle, live, has, released, doubleFree, exit, result>>
    PROVE  IInv(f, code)'
BY DEF IInv, Own, Bufs

LEMMA BranchKeeps ==
    ASSUME NEW f, NEW code, Closed(code), IInv(f, code), Branch
    PROVE  IInv(f, code)'
<1>1. Head(todo) \in code /\ Tail(todo) \in Seq(code) /\ Head(todo).op = "if"
  BY HeadFacts DEF Branch, IInv
<1>2. PICK i \in DOMAIN Head(todo).arms :
         todo' = Head(todo).arms[i] \o <<After(Head(todo))>> \o Tail(todo)
  BY DEF Branch
<1>3. Head(todo).arms[i] \in Seq(code) /\ After(Head(todo)) \in code
  BY <1>1, <1>2 DEF Closed
<1>4. todo' \in Seq(code)
  BY <1>1, <1>2, <1>3, ConcatProperties
<1> QED BY <1>4, GoingOnKeeps DEF Branch

LEMMA IterateKeeps ==
    ASSUME NEW f, NEW code, Closed(code), IInv(f, code), Iterate
    PROVE  IInv(f, code)'
<1> DEFINE s     == Head(todo)
           again == Again(s)
<1>1. s \in code /\ Tail(todo) \in Seq(code) /\ s.op \in {"loop", "again"}
  BY HeadFacts DEF Iterate, IInv
<1>2. s.body \in Seq(code) /\ again \in code /\ After(s) \in code
  BY <1>1 DEF Closed
<1>3. \/ todo' = s.body \o <<again>> \o Tail(todo)
      \/ todo' = <<After(s)>> \o Tail(todo)
  BY DEF Iterate
<1> HIDE DEF s, again
<1>4. <<again>> \in Seq(code) /\ <<After(s)>> \in Seq(code)
  BY <1>2
<1>5. s.body \o <<again>> \in Seq(code)
  BY <1>2, <1>4, ConcatProperties, Zenon
<1>6. s.body \o <<again>> \o Tail(todo) \in Seq(code) /\ <<After(s)>> \o Tail(todo) \in Seq(code)
  BY <1>1, <1>4, <1>5, ConcatProperties, Zenon
<1>7. todo' \in Seq(code)
  BY <1>3, <1>6, Zenon
<1> QED BY <1>7, GoingOnKeeps DEF Iterate

LEMMA JumpKeeps ==
    ASSUME NEW f, NEW code, Closed(code), IInv(f, code), Jump
    PROVE  IInv(f, code)'
<1>1. todo \in Seq(code) /\ Len(todo) \in Nat /\ DOMAIN todo = 1 .. Len(todo)
  BY DEF IInv
<1>2. PICK loop \in DOMAIN todo :
         /\ todo[loop].op = "again"
         /\ todo' = IF Head(todo).op = "break"
                    THEN <<After(todo[loop])>> \o SubSeq(todo, loop + 1, Len(todo))
                    ELSE SubSeq(todo, loop, Len(todo))
  BY DEF Jump
<1>3. todo[loop] \in code /\ After(todo[loop]) \in code
  <2>1. todo[loop] \in code
    BY <1>1, <1>2, ElementOfSeq
  <2> QED BY <1>2, <2>1 DEF Closed
<1>4. SubSeq(todo, loop + 1, Len(todo)) \in Seq(code) /\ SubSeq(todo, loop, Len(todo)) \in Seq(code)
  <2>1. \A i \in loop .. Len(todo) : todo[i] \in code
    BY <1>1, ElementOfSeq
  <2>2. \A i \in loop + 1 .. Len(todo) : todo[i] \in code
    BY <1>1, <2>1
  <2> QED BY <1>1, <2>1, <2>2, SubSeqProperties
<1>5. todo' \in Seq(code)
  BY <1>2, <1>3, <1>4, ConcatProperties
<1> QED BY <1>5, GoingOnKeeps DEF Jump

LEMMA LeaveKeeps ==
    ASSUME NEW f, NEW code, Closed(code), IInv(f, code), Leave
    PROVE  IInv(f, code)'
<1> DEFINE s == Head(todo)
<1>1. s.frees \subseteq Vars /\ exit = "running"
  BY HeadFacts DEF Leave, IInv
<1>2. Own(handle) /\ live = Bufs(handle, Vars) /\ doubleFree = FALSE
  BY <1>1 DEF IInv
<1>3. /\ handle' = Freed(handle, s.frees)
      /\ live' = live \ Bufs(handle, s.frees)
      /\ doubleFree' = (doubleFree \/ ~(Bufs(handle, s.frees) \subseteq live))
      /\ exit' = "returned" /\ todo' = <<>> /\ fn' = fn /\ has' = has /\ released' = released
  BY DEF Leave
<1>4. Own(handle') /\ doubleFree' = FALSE /\ live' \subseteq live
  BY <1>1, <1>2, <1>3, FreedFacts
<1>5. todo' \in Seq(code)
  BY <1>3
<1> QED BY <1>3, <1>4, <1>5 DEF IInv

\* What is handed to the caller is not among what is freed on the way out.
LEMMA LeaveSpares ==
    ASSUME NEW f, f.outputs \in Seq(Vars), NEW code, Closed(code), SparesOutputs(f, code),
           IInv(f, code), Leave
    PROVE  OutputsAlive'
<1> DEFINE s == Head(todo)
<1>1. s \in code /\ s.frees \subseteq Vars /\ s.op \in {"return", "exit"} /\ exit = "running"
  BY HeadFacts DEF Leave, IInv
<1>2. Own(handle) /\ live = Bufs(handle, Vars) /\ fn = f
  BY <1>1 DEF IInv
<1>3. /\ result' = <<>> \/ result' = [i \in DOMAIN fn.outputs |-> handle[fn.outputs[i]]]
      /\ live' = live \ Bufs(handle, s.frees)
      /\ fn' = fn
  BY DEF Leave
<1>4. \A i \in DOMAIN result' : /\ i \in DOMAIN f.outputs /\ f.outputs[i] \in Vars
                                /\ result'[i] = handle[f.outputs[i]] /\ f.outputs[i] \notin s.frees
  <2>1. \A i \in DOMAIN f.outputs : f.outputs[i] \in Vars /\ f.outputs[i] \notin s.frees
    BY <1>1 DEF SparesOutputs
  <2> QED BY <1>2, <1>3, <2>1
<1> HIDE DEF s
<1>5. ASSUME NEW i \in DOMAIN result'
      PROVE  result'[i] \subseteq live'
  <2> SUFFICES ASSUME NEW u \in handle[f.outputs[i]]
               PROVE  u \in live'
    BY <1>4
  <2>1. u \in live
    BY <1>2, <1>4 DEF Bufs
  <2>2. \A x \in s.frees : u \notin handle[x]
    BY <1>1, <1>2, <1>4, OwnApart
  <2> QED BY <1>3, <2>1, <2>2 DEF Bufs
<1>6. \A i, j \in DOMAIN result' :
         f.outputs[i] # f.outputs[j] => result'[i] \cap result'[j] = {}
  BY <1>2, <1>4, OwnApart
<1> QED BY <1>2, <1>3, <1>5, <1>6 DEF OutputsAlive

LEMMA AbortKeeps ==
    ASSUME NEW f, NEW code, IInv(f, code), Abort
    PROVE  IInv(f, code)'
BY DEF Abort, IInv, Own

LEMMA StartsIInv ==
    ASSUME NEW f, NEW code, f.params \subseteq Vars, fn = f, todo \in Seq(code), Starts
    PROVE  IInv(f, code)
<1>1. /\ handle = [x \in Vars |-> IF x \in fn.params THEN {<<x, 0>>} ELSE {}]
      /\ live = Bufs(handle, Vars) /\ has = fn.params /\ released = {} /\ doubleFree = FALSE
      /\ exit = "running" /\ result = <<>>
  BY DEF Starts
<1>2. Own(handle)
  <2>1. \A x \in Vars : handle[x] \subseteq {<<x, 0>>} /\ <<x, 0>> \in Buf /\ 0 \in 0..3
    <3>1. \A x \in Vars : <<x, 0>> \in Buf /\ 0 \in 0..3
      BY DEF Buf
    <3>2. \A x \in Vars : handle[x] \subseteq {<<x, 0>>}
      BY <1>1
    <3> QED BY <3>1, <3>2
  <2>2. handle = [x \in Vars |-> handle[x]]
    BY <1>1
  <2>3. handle \in [Vars -> SUBSET Buf]
    BY <2>1, <2>2
  <2> QED BY <2>1, <2>3 DEF Own
<1>3. live \subseteq Buf
  BY <1>1, <1>2 DEF Own, Bufs
<1> QED BY <1>1, <1>2, <1>3 DEF IInv

LEMMA NextKeeps ==
    ASSUME NEW f, NEW code, Closed(code), Copies(code), IInv(f, code), [Next]_vars
    PROVE  IInv(f, code)'
<1>1. CASE UNCHANGED vars
  BY <1>1, GoingOnKeeps DEF vars, IInv
<1>2. CASE Next
  BY <1>2, ExecuteKeeps, BranchKeeps, IterateKeeps, JumpKeeps, LeaveKeeps, AbortKeeps DEF Next
<1> QED BY <1>1, <1>2

LEMMA NextSpares ==
    ASSUME NEW f, f.outputs \in Seq(Vars), NEW code, Closed(code), SparesOutputs(f, code),
           IInv(f, code), OutputsAlive, [Next]_vars
    PROVE  OutputsAlive'
<1>1. CASE Leave
  BY <1>1, LeaveSpares
<1>2. CASE UNCHANGED vars
  BY <1>2 DEF vars, OutputsAlive
<1>3. CASE Execute \/ Branch \/ Iterate \/ Jump \/ Abort
  BY <1>3 DEF Execute, Branch, Iterate, Jump, Abort, Comes, OutputsAlive
<1> QED BY <1>1, <1>2, <1>3 DEF Next

LEMMA AlwaysIInv ==
    ASSUME NEW CONSTANT f, NEW CONSTANT body, NEW CONSTANT code, Closed(code), Copies(code)
    PROVE  RunOf(f, body, code) => []IInv(f, code)
<1>1. fn = f /\ f.params \subseteq Vars /\ todo = body /\ body \in Seq(code) /\ Starts => IInv(f, code)
  BY StartsIInv
<1>2. IInv(f, code) /\ [Next]_vars => IInv(f, code)'
  BY NextKeeps
<1> QED BY <1>1, <1>2, PTL DEF RunOf

-----------------------------------------------------------------------------
(* Where the frees stand: the code still to run, and what is known of it.   *)

\* What a break or a continue of todo[i] finds at the loop it leads to.
Nested(q) ==
    \A p \in 1 .. Len(q), i \in 1 .. Len(q) :
        /\ q[p].op = "again" /\ i < p
        /\ \A k \in 1 .. Len(q) : i < k /\ k < p => q[k].op # "again"
        => /\ After(q[p]).knows.before \subseteq q[i].knows.ctx.break
           /\ q[p].knows.before \subseteq q[i].knows.ctx.continue

\* The code behind control: it ends with the end of the function, each statement
\* leads to the next, and a loop under way has kept what it found freed.
Way(q, gone) ==
    /\ q # <<>> /\ q[Len(q)].op = "exit"
    /\ Linked(q) /\ Nested(q)
    /\ \A i \in 1 .. Len(q) : q[i].op = "again" => q[i].knows.freed \subseteq gone

\* What was freed early is never touched again, and what is taken to be freed is.
Ahead(q, gone) ==
    /\ gone \cap q[1].knows.before = {}
    /\ q[1].knows.freed \subseteq gone

\* What a variable that was given a value and not freed early still has.
Values ==
    /\ \A x \in released : handle[x] = {}
    /\ \A x \in has : x \notin released => handle[x] # {}

JInv == exit = "running" => Way(todo, released) /\ Ahead(todo, released) /\ Values

LEMMA MarkFacts ==
    ASSUME NEW f, NEW code, Closed(code), Analysed(f, code), NEW s \in code,
           s.op \in {"if", "loop", "again"}
    PROVE  /\ After(s).op = "after" /\ After(s).knows.after = s.knows.after
           /\ After(s).knows.ctx = s.knows.ctx /\ FreedBy(After(s)) = FreedBy(s)
           /\ After(s).knows.before \subseteq s.knows.before
           /\ s.op \in {"loop", "again"} =>
                 /\ Again(s).op = "again" /\ Again(s).knows = s.knows
                 /\ After(Again(s)) = After(s) /\ FreedBy(Again(s)) = FreedBy(s)
                 /\ After(s).knows.freed \subseteq s.knows.freed
<1>1. /\ After(s).knows.after = s.knows.after /\ After(s).knows.ctx = s.knows.ctx
      /\ After(s).knows.before \subseteq s.knows.before
      /\ s.op \in {"loop", "again"} => After(s).knows.freed \subseteq s.knows.freed
  BY DEF Analysed
<1>2. After(s).op = "after" /\ After(s).knows = s.rejoin /\ After(s).frees = s.frees
  BY DEF After
<1>3. FreedBy(After(s)) = FreedBy(s)
  BY <1>2 DEF FreedBy
<1>4. ASSUME s.op \in {"loop", "again"}
      PROVE  /\ Again(s).op = "again" /\ Again(s).knows = s.knows
             /\ Again(s).frees = s.frees /\ Again(s).rejoin = s.rejoin
  <2>1. {"op", "knows", "frees", "rejoin"} \subseteq DOMAIN s
    BY <1>4 DEF Closed
  <2> QED BY <2>1 DEF Again
<1>5. ASSUME s.op \in {"loop", "again"}
      PROVE  After(Again(s)) = After(s) /\ FreedBy(Again(s)) = FreedBy(s)
  BY <1>4, <1>5 DEF After, FreedBy
<1> QED BY <1>1, <1>2, <1>3, <1>4, <1>5

\* A statement of q gives way to a block and a mark, element by element.
LEMMA SpliceFacts ==
    ASSUME NEW code, NEW a \in Seq(code), NEW m \in code, NEW q \in Seq(code), q # <<>>
    PROVE  LET r == a \o <<m>> \o Tail(q)
           IN  /\ r \in Seq(code) /\ Len(r) = Len(a) + Len(q)
               /\ \A i \in 1 .. Len(a) : r[i] = a[i]
               /\ r[Len(a) + 1] = m
               /\ \A i \in 2 .. Len(q) : r[Len(a) + i] = q[i]
<1> DEFINE am == a \o <<m>>
           t  == Tail(q)
           r  == am \o t
<1>1. t \in Seq(code) /\ Len(t) = Len(q) - 1 /\ Len(q) \in Nat /\ Len(q) > 0
      /\ \A i \in 1 .. Len(q) - 1 : t[i] = q[i + 1]
  <2>1. t \in Seq(code) /\ Len(t) = Len(q) - 1 /\ Len(q) \in Nat /\ Len(q) > 0
    BY HeadTailProperties, LenProperties, EmptySeq
  <2>2. \A i \in 1 .. Len(q) - 1 : t[i] = q[i + 1]
    BY <2>1
  <2> QED BY <2>1, <2>2
<1>2. /\ am \in Seq(code) /\ Len(am) = Len(a) + 1 /\ Len(a) \in Nat
      /\ \A i \in 1 .. Len(a) : am[i] = a[i]
      /\ am[Len(a) + 1] = m
  OBVIOUS
<1> HIDE DEF am, t
<1>3. /\ r \in Seq(code) /\ Len(r) = Len(am) + Len(t)
      /\ \A i \in 1 .. Len(am) : r[i] = am[i]
      /\ \A i \in 1 .. Len(t) : r[Len(am) + i] = t[i]
  <2>1. am \in Seq(code) /\ t \in Seq(code)
    BY <1>1, <1>2 DEF t
  <2> QED BY <2>1
<1> HIDE DEF r
<1>4. \A i \in 2 .. Len(q) : r[Len(a) + i] = q[i]
  <2> SUFFICES ASSUME NEW i \in 2 .. Len(q) PROVE r[Len(a) + i] = q[i]
    OBVIOUS
  <2>1. i - 1 \in 1 .. Len(q) - 1 /\ Len(am) + (i - 1) = Len(a) + i /\ (i - 1) + 1 = i
    BY <1>1, <1>2
  <2> QED BY <1>1, <1>3, <2>1
<1>5. Len(r) = Len(a) + Len(q) /\ (\A i \in 1 .. Len(a) : r[i] = a[i]) /\ r[Len(a) + 1] = m
  BY <1>1, <1>2, <1>3
<1> QED BY <1>3, <1>4, <1>5 DEF am, t, r

\* The code with a block and its mark in the place of the first statement.
LEMMA SpliceKeeps ==
    ASSUME NEW f, NEW code, Closed(code), Analysed(f, code),
           NEW a \in Seq(code), NEW m \in code, NEW q \in Seq(code), NEW gone,
           Way(q, gone), q[1].op \in {"if", "loop", "again"},
           \/ m = After(q[1])
           \/ m = Again(q[1]) /\ q[1].op # "if" /\ q[1].knows.freed \subseteq gone,
           Linked(Append(a, m)),
           \A j \in 1 .. Len(a) :
              /\ a[j].op # "again"
              /\ IF m.op = "again"
                 THEN /\ After(m).knows.before \subseteq a[j].knows.ctx.break
                      /\ m.knows.before \subseteq a[j].knows.ctx.continue
                 ELSE a[j].knows.ctx = m.knows.ctx
    PROVE  Way(a \o <<m>> \o Tail(q), gone)
<1> DEFINE n == Len(a)
           r == a \o <<m>> \o Tail(q)
<1>1. /\ q # <<>> /\ Len(q) \in Nat /\ Len(q) > 0 /\ n \in Nat /\ q[1] \in code
      /\ Linked(q) /\ Nested(q) /\ q[Len(q)].op = "exit"
  <2>1. q # <<>> /\ Len(q) \in Nat /\ Len(q) > 0
    BY EmptySeq, LenProperties DEF Way
  <2> QED BY <2>1 DEF Way
<1>2. /\ r \in Seq(code) /\ Len(r) = n + Len(q)
      /\ \A i \in 1 .. n : r[i] = a[i]
      /\ r[n + 1] = m
      /\ \A i \in 2 .. Len(q) : r[n + i] = q[i]
  BY <1>1, SpliceFacts
<1>3. /\ m.knows.after = q[1].knows.after /\ m.knows.ctx = q[1].knows.ctx
      /\ FreedBy(m) = FreedBy(q[1]) /\ m.op \in {"after", "again"}
      /\ m.op = "again" => m.knows.freed \subseteq gone
  BY <1>1, MarkFacts
<1> HIDE DEF r
<1>0. \A j \in 1 .. n : a[j].op # "again"
  OBVIOUS
<1> HIDE DEF n
<1>4. \A i \in 1 .. Len(r) : i \in 1 .. n \/ i = n + 1 \/ (i - n \in 2 .. Len(q) /\ i = n + (i - n))
  BY <1>1, <1>2
<1>5. Linked(r)
  <2> SUFFICES ASSUME NEW i \in 1 .. Len(r) - 1
               PROVE  r[i].op \in Leaves \/ Follows(r[i], r[i + 1])
    BY DEF Linked
  <2>1. CASE i \in 1 .. n
    <3>1. /\ Append(a, m)[i] = r[i] /\ Append(a, m)[i + 1] = r[i + 1]
          /\ i \in 1 .. Len(Append(a, m)) - 1
      BY <1>1, <1>2, <2>1 DEF n
    <3> QED BY <3>1 DEF Linked
  <2>2. CASE i = n + 1
    <3>1. 2 \in 2 .. Len(q) /\ r[i] = m /\ r[i + 1] = q[2] /\ 1 \in 1 .. Len(q) - 1
      <4>1. Len(q) >= 2
        BY <1>1, <1>2, <2>2
      <4>2. 2 \in 2 .. Len(q) /\ i + 1 = n + 2
        BY <1>1, <2>2, <4>1
      <4> QED BY <1>1, <1>2, <2>2, <4>1, <4>2
    <3>2. Follows(q[1], q[2])
      BY <1>1, <3>1 DEF Linked, Leaves
    <3> QED BY <1>3, <3>1, <3>2 DEF Follows
  <2>3. CASE i > n + 1
    <3>0. i \in 1 .. Len(r) /\ i \notin 1 .. n /\ i # n + 1
      BY <1>1, <1>2, <2>3
    <3>1. PICK k \in 2 .. Len(q) : i = n + k
      BY <1>4, <3>0
    <3>2. k + 1 \in 2 .. Len(q) /\ i + 1 = n + (k + 1) /\ k \in 1 .. Len(q) - 1
      BY <1>1, <1>2, <3>1
    <3>3. r[i] = q[k] /\ r[i + 1] = q[k + 1]
      BY <1>2, <3>1, <3>2
    <3> QED BY <1>1, <3>2, <3>3 DEF Linked
  <2> QED BY <1>1, <2>1, <2>2, <2>3
<1>6. Nested(r)
  <2> SUFFICES ASSUME NEW p \in 1 .. Len(r), NEW i \in 1 .. Len(r), r[p].op = "again", i < p,
                      \A k \in 1 .. Len(r) : i < k /\ k < p => r[k].op # "again"
               PROVE  /\ After(r[p]).knows.before \subseteq r[i].knows.ctx.break
                      /\ r[p].knows.before \subseteq r[i].knows.ctx.continue
    BY DEF Nested
  <2>1. p \notin 1 .. n
    BY <1>0, <1>2
  <2>2. CASE p = n + 1
    <3>1. i \in 1 .. n /\ r[p] = m /\ r[i] = a[i] /\ m.op = "again"
      BY <1>1, <1>2, <2>2
    <3> QED BY <3>1 DEF n
  <2>3. CASE p # n + 1
    <3>1. PICK h \in 2 .. Len(q) : p = n + h
      BY <1>4, <2>1, <2>3
    <3>2. r[p] = q[h] /\ q[h].op = "again" /\ h \in 1 .. Len(q)
      BY <1>1, <1>2, <3>1
    <3>3. ASSUME NEW g \in 1 .. Len(q), g < h, i <= n + g
          PROVE  \A k \in 1 .. Len(q) : g < k /\ k < h => q[k].op # "again"
      <4> SUFFICES ASSUME NEW k \in 1 .. Len(q), g < k, k < h PROVE q[k].op # "again"
        OBVIOUS
      <4>1. k \in 2 .. Len(q) /\ n + k \in 1 .. Len(r) /\ i < n + k /\ n + k < p
        BY <1>1, <1>2, <3>1, <3>3
      <4> QED BY <1>2, <4>1
    <3>4. CASE i <= n + 1
      <4>1. r[i].knows.ctx = q[1].knows.ctx
        <5>1. CASE i = n + 1
          BY <1>2, <1>3, <5>1
        <5>2. CASE i # n + 1
          <6>1. i \in 1 .. n /\ n + 1 \in 1 .. Len(r) /\ i < n + 1 /\ n + 1 < p
            BY <1>1, <1>2, <3>1, <3>4, <5>2
          <6>2. m.op # "again"
            BY <1>2, <6>1
          <6>3. a[i].knows.ctx = m.knows.ctx
            BY <6>1, <6>2 DEF n
          <6> QED BY <1>2, <1>3, <6>1, <6>3
        <5> QED BY <5>1, <5>2
      <4>2. 1 \in 1 .. Len(q) /\ 1 < h /\ i <= n + 1
        BY <1>1, <3>1, <3>4
      <4>3. \A k \in 1 .. Len(q) : 1 < k /\ k < h => q[k].op # "again"
        BY <3>3, <4>2
      <4> QED BY <1>1, <3>2, <4>1, <4>2, <4>3 DEF Nested
    <3>5. CASE i > n + 1
      <4>0. i \notin 1 .. n /\ i # n + 1
        BY <1>1, <3>5
      <4>1. PICK g \in 2 .. Len(q) : i = n + g
        BY <1>4, <4>0
      <4>2. g \in 1 .. Len(q) /\ g < h /\ i <= n + g /\ r[i] = q[g]
        BY <1>1, <1>2, <3>1, <4>1
      <4>3. \A k \in 1 .. Len(q) : g < k /\ k < h => q[k].op # "again"
        BY <3>3, <4>2
      <4> QED BY <1>1, <3>2, <4>2, <4>3 DEF Nested
    <3> QED BY <1>1, <3>4, <3>5
  <2> QED BY <2>2, <2>3
<1>7. \A i \in 1 .. Len(r) : r[i].op = "again" => r[i].knows.freed \subseteq gone
  <2> SUFFICES ASSUME NEW i \in 1 .. Len(r), r[i].op = "again"
               PROVE  r[i].knows.freed \subseteq gone
    OBVIOUS
  <2>1. CASE i \in 1 .. n
    BY <1>0, <1>2, <2>1
  <2>2. CASE i = n + 1
    BY <1>2, <1>3, <2>2
  <2>3. CASE i \notin 1 .. n /\ i # n + 1
    <3>1. PICK k \in 2 .. Len(q) : i = n + k
      BY <1>4, <2>3
    <3>2. r[i] = q[k] /\ k \in 1 .. Len(q)
      BY <1>1, <1>2, <3>1
    <3> QED BY <3>2 DEF Way
  <2> QED BY <2>1, <2>2, <2>3
<1>8. r # <<>> /\ r[Len(r)].op = "exit"
  <2>1. Len(q) # 1
    BY <1>1
  <2>2. Len(q) \in 2 .. Len(q)
    BY <1>1, <2>1
  <2>3. r[Len(r)] = q[Len(q)]
    BY <1>2, <2>2
  <2> QED BY <1>1, <1>2, <2>3
<1> QED BY <1>5, <1>6, <1>7, <1>8 DEF Way, r

\* A way stays one from any of its statements on.
LEMMA WayFrom ==
    ASSUME NEW code, NEW q \in Seq(code), NEW gone, NEW more, gone \subseteq more, Way(q, gone),
           NEW l \in 1 .. Len(q)
    PROVE  /\ Way(SubSeq(q, l, Len(q)), more) /\ SubSeq(q, l, Len(q)) \in Seq(code)
           /\ SubSeq(q, l, Len(q))[1] = q[l]
<1> DEFINE r == SubSeq(q, l, Len(q))
           d == l - 1
<1>1. /\ Len(q) \in Nat /\ l \in Nat /\ l >= 1 /\ d \in Nat /\ r \in Seq(code)
      /\ Len(r) = Len(q) - d
      /\ \A i \in 1 .. Len(r) : r[i] = q[d + i]
  <2>1. \A i \in l .. Len(q) : q[i] \in code
    BY ElementOfSeq
  <2>2. Len(q) \in Nat /\ l \in Nat /\ l >= 1 /\ l <= Len(q)
    OBVIOUS
  <2>3. r \in Seq(code) /\ Len(r) = Len(q) - l + 1 /\ \A i \in 1 .. Len(r) : r[i] = q[l + i - 1]
    BY <2>1, <2>2, SubSeqProperties
  <2>4. \A i \in 1 .. Len(r) : l + i - 1 = d + i
    BY <2>2
  <2> QED BY <2>2, <2>3, <2>4
<1>2. q # <<>> /\ q[Len(q)].op = "exit" /\ Linked(q) /\ Nested(q)
      /\ \A i \in 1 .. Len(q) : q[i].op = "again" => q[i].knows.freed \subseteq gone
  BY DEF Way
<1>3. d + 1 = l /\ 1 \in 1 .. Len(r) /\ Len(r) \in Nat /\ Len(q) = d + Len(r)
  BY <1>1
<1> HIDE DEF r, d
<1>4. \A i \in 1 .. Len(r) : d + i \in 1 .. Len(q)
  BY <1>1, <1>3
<1>5. Linked(r)
  <2> SUFFICES ASSUME NEW i \in 1 .. Len(r) - 1
               PROVE  r[i].op \in Leaves \/ Follows(r[i], r[i + 1])
    BY DEF Linked
  <2>1. i \in 1 .. Len(r) /\ i + 1 \in 1 .. Len(r) /\ d + i \in 1 .. Len(q) - 1
        /\ d + (i + 1) = (d + i) + 1
    BY <1>1, <1>3
  <2>2. r[i] = q[d + i] /\ r[i + 1] = q[(d + i) + 1]
    BY <1>1, <2>1
  <2> QED BY <1>2, <2>1, <2>2 DEF Linked
<1>6. Nested(r)
  <2> SUFFICES ASSUME NEW p \in 1 .. Len(r), NEW i \in 1 .. Len(r), r[p].op = "again", i < p,
                      \A k \in 1 .. Len(r) : i < k /\ k < p => r[k].op # "again"
               PROVE  /\ After(r[p]).knows.before \subseteq r[i].knows.ctx.break
                      /\ r[p].knows.before \subseteq r[i].knows.ctx.continue
    BY DEF Nested
  <2>1. r[p] = q[d + p] /\ r[i] = q[d + i] /\ d + p \in 1 .. Len(q) /\ d + i \in 1 .. Len(q)
    BY <1>1, <1>4
  <2>2. d + i < d + p
    BY <1>1, <1>3
  <2>3. \A k \in 1 .. Len(q) : d + i < k /\ k < d + p => q[k].op # "again"
    <3> SUFFICES ASSUME NEW k \in 1 .. Len(q), d + i < k, k < d + p
                 PROVE  q[k].op # "again"
      OBVIOUS
    <3>1. k - d \in 1 .. Len(r) /\ i < k - d /\ k - d < p /\ d + (k - d) = k
      BY <1>1, <1>3
    <3> QED BY <1>1, <3>1
  <2> QED BY <1>2, <2>1, <2>2, <2>3 DEF Nested
<1>7. \A i \in 1 .. Len(r) : r[i].op = "again" => r[i].knows.freed \subseteq more
  BY <1>1, <1>2, <1>4
<1>8. r # <<>> /\ r[Len(r)].op = "exit" /\ r[1] = q[l]
  <2>1. r[Len(r)] = q[d + Len(r)] /\ r[1] = q[d + 1]
    BY <1>1, <1>3
  <2>2. r # <<>>
    BY <1>1, <1>3
  <2> QED BY <1>2, <1>3, <2>1, <2>2
<1> QED BY <1>1, <1>5, <1>6, <1>7, <1>8 DEF Way, r

\* The next statement: what is known of it, and what it may find.
LEMMA HeadAhead ==
    ASSUME NEW f, NEW code, Closed(code), Analysed(f, code), IInv(f, code), JInv,
           NEW ops, Comes(ops)
    PROVE  /\ Head(todo) \in code /\ Head(todo) = todo[1] /\ todo[1].op \in ops
           /\ todo \in Seq(code) /\ todo # <<>> /\ Len(todo) \in Nat /\ 1 \in 1 .. Len(todo)
           /\ Way(todo, released) /\ Ahead(todo, released) /\ Values /\ exit = "running"
           /\ released \cap (Head(todo).uses \cup Head(todo).defs) = {}
<1>1. /\ Head(todo) \in code /\ Head(todo).op \in ops /\ exit = "running" /\ todo \in Seq(code)
      /\ todo # <<>>
  BY HeadFacts DEF IInv, Comes
<1>2. Head(todo) = todo[1] /\ Len(todo) \in Nat /\ 1 \in 1 .. Len(todo)
  BY <1>1, EmptySeq, LenProperties
<1>3. Way(todo, released) /\ Ahead(todo, released) /\ Values
  BY <1>1 DEF JInv
<1>4. Head(todo).uses \cup Head(todo).defs \subseteq Head(todo).knows.before
  BY <1>1 DEF Analysed
<1> QED BY <1>1, <1>2, <1>3, <1>4 DEF Ahead

LEMMA ExecuteAhead ==
    ASSUME NEW f, NEW code, Closed(code), Copies(code), Analysed(f, code), IInv(f, code), JInv,
           Execute
    PROVE  JInv'
<1> DEFINE s == Head(todo)
           r == SubSeq(todo, 2, Len(todo))
<1>1. /\ s \in code /\ s = todo[1] /\ s.op \in (Simple \ {"error"}) \cup {"after"}
      /\ todo \in Seq(code) /\ todo # <<>> /\ Len(todo) \in Nat /\ 1 \in 1 .. Len(todo)
      /\ Way(todo, released) /\ Ahead(todo, released) /\ Values
      /\ released \cap (s.uses \cup s.defs) = {}
  BY HeadAhead DEF Execute
<1>2. /\ s.knows.after \subseteq s.knows.before /\ s.frees \cap s.knows.after = {}
      /\ s.defs \subseteq Vars /\ s.frees \subseteq Vars
      /\ s.op \notin Leaves /\ FreedBy(s) = s.frees \cup s.knows.freed /\ s.op # "exit"
  BY <1>1 DEF Analysed, Closed, Simple, Leaves, FreedBy
<1>3. /\ handle' = Freed([x \in Vars |-> IF x \in s.defs THEN Installed(s, x) ELSE handle[x]], s.frees)
      /\ has' = has \cup s.defs /\ released' = released \cup s.frees
      /\ todo' = Tail(todo) /\ exit' = exit
  BY DEF Execute
<1>4. \A x \in s.defs : Installed(s, x) = {Fresh(x)}
  BY <1>1 DEF Copies, Installed
<1> HIDE DEF s
<1>5. Values'
  <2>1. \A x \in Vars : handle'[x] = IF x \in s.frees THEN {}
                                     ELSE IF x \in s.defs THEN {Fresh(x)} ELSE handle[x]
    BY <1>3, <1>4 DEF Freed
  <2>2. released \subseteq Vars /\ has \subseteq Vars
    BY DEF IInv
  <2>3. \A x \in released' : handle'[x] = {}
    BY <1>1, <1>2, <1>3, <2>1, <2>2 DEF Values
  <2>4. \A x \in has' : x \notin released' => handle'[x] # {}
    BY <1>1, <1>2, <1>3, <2>1, <2>2 DEF Values
  <2> QED BY <2>3, <2>4 DEF Values
<1>6. Len(todo) # 1
  BY <1>1, <1>2 DEF Way
<1>7. 2 \in 1 .. Len(todo) /\ 1 \in 1 .. Len(todo) - 1
  <2>1. Len(todo) \in Nat /\ 1 <= Len(todo) /\ Len(todo) # 1
    BY <1>1, <1>6
  <2> HIDE DEF r
  <2> QED BY <2>1
<1>8. todo' = r
  BY <1>1, <1>3
<1> HIDE DEF r
<1>9. Way(r, released') /\ r[1] = todo[2]
  BY <1>1, <1>3, <1>7, WayFrom DEF r
<1>10. /\ todo[2].knows.before \subseteq s.knows.after
       /\ todo[2].op = "again" \/ todo[2].knows.freed \subseteq FreedBy(s)
  BY <1>1, <1>2, <1>7 DEF Way, Linked, Follows
<1>11. Ahead(r, released')
  <2>1. todo[2].op = "again" => todo[2].knows.freed \subseteq released
    BY <1>1, <1>7 DEF Way
  <2> QED BY <1>1, <1>2, <1>3, <1>9, <1>10, <2>1 DEF Ahead
<1> QED BY <1>5, <1>8, <1>9, <1>11 DEF JInv

\* Control flow touches no handle, and goes on where it may.
LEMMA GoingOnAhead ==
    ASSUME UNCHANGED <<handle, has, released, exit>>, Values,
           Way(todo', released), Ahead(todo', released)
    PROVE  JInv'
BY DEF JInv, Values, Way, Ahead, Nested, Linked

LEMMA BranchAhead ==
    ASSUME NEW f, NEW code, Closed(code), Analysed(f, code), IInv(f, code), JInv, Branch
    PROVE  JInv'
<1> DEFINE s == Head(todo)
           m == After(s)
<1>1. /\ s \in code /\ s = todo[1] /\ s.op = "if"
      /\ todo \in Seq(code) /\ todo # <<>>
      /\ Way(todo, released) /\ Ahead(todo, released) /\ Values
  BY HeadAhead DEF Branch
<1>2. PICK i \in DOMAIN s.arms : todo' = s.arms[i] \o <<m>> \o Tail(todo)
  BY DEF Branch
<1> DEFINE a == s.arms[i]
<1>3. a \in Seq(code) /\ m \in code
  BY <1>1, <1>2 DEF Closed
<1>4. /\ m.op = "after" /\ m.knows.ctx = s.knows.ctx
  BY <1>1, MarkFacts
<1>5. /\ Linked(Append(a, m)) /\ Enters(s, Append(a, m))
      /\ \A j \in DOMAIN a : a[j].op # "again" /\ a[j].knows.ctx = s.knows.ctx
  BY <1>1, <1>2 DEF Analysed
<1> HIDE DEF s, m, a
<1>6. \A j \in 1 .. Len(a) :
         /\ a[j].op # "again"
         /\ IF m.op = "again"
            THEN /\ After(m).knows.before \subseteq a[j].knows.ctx.break
                 /\ m.knows.before \subseteq a[j].knows.ctx.continue
            ELSE a[j].knows.ctx = m.knows.ctx
  BY <1>3, <1>4, <1>5
<1>7. m = After(todo[1]) /\ todo[1].op \in {"if", "loop", "again"}
  BY <1>1 DEF m
<1> DEFINE r == a \o <<m>> \o Tail(todo)
<1>8. Way(r, released)
  BY <1>1, <1>3, <1>5, <1>6, <1>7, SpliceKeeps
<1>9. Ahead(r, released)
  <2>1. /\ \A j \in 1 .. Len(a) : r[j] = a[j]
        /\ r[Len(a) + 1] = m
    BY <1>1, <1>3, SpliceFacts
  <2> HIDE DEF r
  <2>2. r[1] = Append(a, m)[1] /\ r[1].op # "again"
    <3>1. CASE Len(a) = 0
      BY <1>3, <1>4, <2>1, <3>1
    <3>2. CASE Len(a) # 0
      <4>1. 1 \in 1 .. Len(a) /\ Append(a, m)[1] = a[1]
        BY <1>3, <3>2
      <4> QED BY <1>6, <2>1, <4>1
    <3> QED BY <3>1, <3>2
  <2> QED BY <1>1, <1>5, <2>2 DEF Enters, Ahead
<1>10. todo' = r
  BY <1>2 DEF a
<1> HIDE DEF r
<1> QED BY <1>1, <1>8, <1>9, <1>10, GoingOnAhead DEF Branch

\* A loop is left: the frees behind it come first.
LEMMA LeftLoop ==
    ASSUME NEW f, NEW code, Closed(code), Analysed(f, code),
           NEW q \in Seq(code), NEW gone, Way(q, gone), q[1].op \in {"loop", "again"},
           q[1].knows.freed \subseteq gone, gone \cap After(q[1]).knows.before = {}
    PROVE  Way(<<After(q[1])>> \o Tail(q), gone) /\ Ahead(<<After(q[1])>> \o Tail(q), gone)
<1> DEFINE m == After(q[1])
           r == <<m>> \o Tail(q)
<1>1. q # <<>> /\ q[1] \in code
  <2>1. q # <<>>
    BY DEF Way
  <2> QED BY <2>1
<1>2. m \in code
  BY <1>1 DEF Closed
<1>3. m.op = "after" /\ m.knows.freed \subseteq q[1].knows.freed
  BY <1>1, MarkFacts
<1> HIDE DEF m
<1>4. <<>> \in Seq(code) /\ Len(<<>>) = 0 /\ Append(<<>>, m) = <<m>> /\ <<>> \o <<m>> = <<m>>
  BY <1>2
<1>5. Linked(Append(<<>>, m))
  BY <1>4 DEF Linked
<1>6. m = After(q[1]) /\ q[1].op \in {"if", "loop", "again"}
  BY DEF m
<1>7. \A j \in 1 .. Len(<<>>) :
         /\ <<>>[j].op # "again"
         /\ IF m.op = "again"
            THEN /\ After(m).knows.before \subseteq <<>>[j].knows.ctx.break
                 /\ m.knows.before \subseteq <<>>[j].knows.ctx.continue
            ELSE <<>>[j].knows.ctx = m.knows.ctx
  BY <1>4
<1>8. Way(<<>> \o <<m>> \o Tail(q), gone)
  BY <1>2, <1>4, <1>5, <1>6, <1>7, SpliceKeeps
<1>9. r[1] = m
  BY <1>1, <1>2
<1>10. Way(r, gone)
  BY <1>4, <1>8
<1>11. Ahead(r, gone)
  BY <1>3, <1>9 DEF Ahead, m
<1> QED BY <1>10, <1>11 DEF m

LEMMA IterateAhead ==
    ASSUME NEW f, NEW code, Closed(code), Analysed(f, code), IInv(f, code), JInv, Iterate
    PROVE  JInv'
<1> DEFINE s == Head(todo)
           m == Again(s)
           a == s.body
<1>1. /\ s \in code /\ s = todo[1] /\ s.op \in {"loop", "again"}
      /\ todo \in Seq(code) /\ todo # <<>>
      /\ Way(todo, released) /\ Ahead(todo, released) /\ Values
  BY HeadAhead DEF Iterate
<1>2. CASE todo' = <<After(s)>> \o Tail(todo)
  <2>1. s.knows.freed \subseteq released
    BY <1>1 DEF Ahead
  <2>2. released \cap After(s).knows.before = {}
    BY <1>1, MarkFacts DEF Ahead
  <2>3. Way(todo', released) /\ Ahead(todo', released)
    BY <1>1, <1>2, <2>1, <2>2, LeftLoop
  <2> QED BY <1>1, <2>3, GoingOnAhead DEF Iterate
<1>3. CASE todo' = a \o <<m>> \o Tail(todo)
  <2>1. a \in Seq(code) /\ m \in code
    BY <1>1 DEF Closed
  <2>2. m.op = "again" /\ m.knows = s.knows /\ After(m) = After(s)
    BY <1>1, MarkFacts
  <2>3. /\ Linked(Append(a, m)) /\ Enters(s, Append(a, m))
        /\ \A j \in DOMAIN a : /\ a[j].op # "again"
                               /\ After(s).knows.before \subseteq a[j].knows.ctx.break
                               /\ s.knows.before \subseteq a[j].knows.ctx.continue
    BY <1>1 DEF Analysed
  <2>4. m = Again(todo[1]) /\ todo[1].op # "if" /\ todo[1].op \in {"if", "loop", "again"}
        /\ todo[1].knows.freed \subseteq released
    BY <1>1 DEF Ahead
  <2> HIDE DEF s, m, a
  <2>5. \A j \in 1 .. Len(a) :
           /\ a[j].op # "again"
           /\ IF m.op = "again"
              THEN /\ After(m).knows.before \subseteq a[j].knows.ctx.break
                   /\ m.knows.before \subseteq a[j].knows.ctx.continue
              ELSE a[j].knows.ctx = m.knows.ctx
    BY <2>1, <2>2, <2>3
  <2> DEFINE r == a \o <<m>> \o Tail(todo)
  <2>6. Way(r, released)
    BY <1>1, <2>1, <2>3, <2>4, <2>5, SpliceKeeps
  <2>7. Ahead(r, released)
    <3>1. /\ \A j \in 1 .. Len(a) : r[j] = a[j]
          /\ r[Len(a) + 1] = m
      BY <1>1, <2>1, SpliceFacts
    <3> HIDE DEF r
    <3>2. r[1] = Append(a, m)[1] /\ (r[1].op = "again" => r[1] = m)
      <4>1. CASE Len(a) = 0
        BY <2>1, <3>1, <4>1
      <4>2. CASE Len(a) # 0
        <5>1. 1 \in 1 .. Len(a) /\ Append(a, m)[1] = a[1]
          BY <2>1, <4>2
        <5> QED BY <2>5, <3>1, <5>1
      <4> QED BY <4>1, <4>2
    <3> QED BY <1>1, <2>2, <2>3, <3>2 DEF Enters, Ahead
  <2>8. todo' = r
    BY <1>3
  <2> HIDE DEF r
  <2> QED BY <1>1, <2>6, <2>7, <2>8, GoingOnAhead DEF Iterate
<1> QED BY <1>2, <1>3 DEF Iterate

LEMMA JumpAhead ==
    ASSUME NEW f, NEW code, Closed(code), Analysed(f, code), IInv(f, code), JInv, Jump
    PROVE  JInv'
<1> DEFINE s == Head(todo)
<1>1. /\ s \in code /\ s = todo[1] /\ s.op \in {"break", "continue"}
      /\ todo \in Seq(code) /\ todo # <<>> /\ Len(todo) \in Nat /\ 1 \in 1 .. Len(todo)
      /\ Way(todo, released) /\ Ahead(todo, released) /\ Values
  BY HeadAhead DEF Jump
<1>2. PICK loop \in DOMAIN todo :
         /\ todo[loop].op = "again" /\ \A i \in 1 .. loop - 1 : todo[i].op # "again"
         /\ todo' = IF s.op = "break"
                    THEN <<After(todo[loop])>> \o SubSeq(todo, loop + 1, Len(todo))
                    ELSE SubSeq(todo, loop, Len(todo))
  BY DEF Jump
<1>3. /\ s.op = "break" => s.knows.ctx.break \subseteq s.knows.before
      /\ s.op = "continue" => s.knows.ctx.continue \subseteq s.knows.before
  BY <1>1 DEF Analysed
<1> HIDE DEF s
<1>4. loop \in 1 .. Len(todo) /\ loop \in Nat /\ 1 < loop
  <2>1. loop \in 1 .. Len(todo)
    BY <1>1, <1>2
  <2>2. loop # 1
    BY <1>1, <1>2
  <2> QED BY <2>1, <2>2
<1>5. /\ After(todo[loop]).knows.before \subseteq s.knows.ctx.break
      /\ todo[loop].knows.before \subseteq s.knows.ctx.continue
      /\ todo[loop].knows.freed \subseteq released
  <2>1. \A k \in 1 .. Len(todo) : 1 < k /\ k < loop => todo[k].op # "again"
    BY <1>2, <1>4
  <2> QED BY <1>1, <1>2, <1>4, <2>1 DEF Way, Nested
<1> DEFINE q == SubSeq(todo, loop, Len(todo))
<1>6. Way(q, released) /\ q \in Seq(code) /\ q[1] = todo[loop]
  BY <1>1, <1>4, WayFrom
<1>7. CASE s.op = "break"
  <2>1. Tail(q) = SubSeq(todo, loop + 1, Len(todo))
    <3>1. /\ \A i \in loop .. Len(todo) : todo[i] \in code
          /\ \A i \in loop + 1 .. Len(todo) : todo[i] \in code
      <4>1. \A i \in 1 .. Len(todo) : todo[i] \in code
        BY <1>1, ElementOfSeq
      <4> QED BY <1>4, <4>1
    <3>2. /\ Len(q) = Len(todo) - loop + 1
          /\ \A i \in 1 .. Len(q) : q[i] = todo[loop + i - 1]
      BY <1>1, <1>4, <3>1, SubSeqProperties
    <3> DEFINE t == SubSeq(todo, loop + 1, Len(todo))
    <3>3. /\ t \in Seq(code) /\ Len(t) = Len(todo) - (loop + 1) + 1
          /\ \A i \in 1 .. Len(t) : t[i] = todo[(loop + 1) + i - 1]
      <4>1. loop + 1 \in Nat /\ Len(todo) \in Nat
        BY <1>1, <1>4
      <4>2. loop + 1 \in 1 .. Len(todo) + 1
        BY <1>1, <1>4
      <4> QED BY <1>1, <3>1, <4>1, <4>2, SubSeqProperties
    <3> HIDE DEF t
    <3>4. q # <<>>
      BY <1>6 DEF Way
    <3> DEFINE u == Tail(q)
    <3>5. u \in Seq(code) /\ Len(u) = Len(q) - 1 /\ \A i \in 1 .. Len(u) : u[i] = q[i + 1]
      <4>1. q \in Seq(code) /\ q # <<>>
        BY <1>6, <3>4
      <4> HIDE DEF q
      <4>2. u \in Seq(code) /\ Len(u) = Len(q) - 1
        BY <4>1, HeadTailProperties
      <4>3. \A i \in 1 .. Len(u) : u[i] = q[i + 1]
        BY <4>1, <4>2
      <4> QED BY <4>2, <4>3
    <3> HIDE DEF u, q
    <3>6. Len(u) = Len(t) /\ \A i \in 1 .. Len(u) : u[i] = t[i]
      <4>1. Len(u) = Len(t) /\ Len(u) \in Nat
        BY <1>1, <1>4, <3>2, <3>3, <3>5
      <4>2. ASSUME NEW i \in 1 .. Len(u) PROVE u[i] = t[i]
        <5>1. i + 1 \in 1 .. Len(q) /\ loop + (i + 1) - 1 = (loop + 1) + i - 1
          BY <1>1, <1>4, <3>2, <3>5
        <5> QED BY <3>2, <3>3, <3>5, <4>1, <5>1
      <4> QED BY <4>1, <4>2
    <3>7. u = t
      BY <3>3, <3>5, <3>6, SeqEqual
    <3> QED BY <3>7 DEF u, t
  <2>2. todo' = <<After(q[1])>> \o Tail(q)
    BY <1>2, <1>6, <1>7, <2>1
  <2>3. released \cap After(q[1]).knows.before = {} /\ q[1].knows.freed \subseteq released
        /\ q[1].op \in {"loop", "again"}
    BY <1>1, <1>2, <1>3, <1>5, <1>6, <1>7 DEF Ahead
  <2> HIDE DEF q
  <2>4. Way(todo', released) /\ Ahead(todo', released)
    BY <1>6, <2>2, <2>3, LeftLoop
  <2> QED BY <1>1, <2>4, GoingOnAhead DEF Jump
<1>8. CASE s.op = "continue"
  <2>1. todo' = q
    BY <1>2, <1>8
  <2>2. Ahead(q, released)
    BY <1>1, <1>3, <1>5, <1>6, <1>8 DEF Ahead
  <2> HIDE DEF q
  <2> QED BY <1>1, <1>6, <2>1, <2>2, GoingOnAhead DEF Jump
<1> QED BY <1>1, <1>7, <1>8

LEMMA StartsAhead ==
    ASSUME NEW f, NEW code, f.params \subseteq Vars, fn = f, todo \in Seq(code), Starts,
           WholeBody(todo), Linked(todo)
    PROVE  JInv
<1>1. todo # <<>> /\ Len(todo) \in Nat /\ DOMAIN todo = 1 .. Len(todo)
  BY LenProperties DEF WholeBody
<1>2. Way(todo, released) /\ Ahead(todo, released)
  <2>1. released = {}
    BY DEF Starts
  <2>2. Nested(todo)
    BY <1>1 DEF WholeBody, Nested
  <2> QED BY <1>1, <2>1, <2>2 DEF WholeBody, Way, Ahead
<1>3. Values
  BY DEF Starts, Values
<1> QED BY <1>2, <1>3 DEF JInv

LEMMA NextAhead ==
    ASSUME NEW f, NEW code, Closed(code), Copies(code), Analysed(f, code),
           IInv(f, code), JInv, [Next]_vars
    PROVE  JInv'
<1>1. CASE UNCHANGED vars
  BY <1>1 DEF vars, JInv, Values, Way, Ahead, Nested, Linked
<1>2. CASE Leave \/ Abort
  BY <1>2 DEF Leave, Abort, JInv
<1>3. CASE Execute \/ Branch \/ Iterate \/ Jump
  BY <1>3, ExecuteAhead, BranchAhead, IterateAhead, JumpAhead
<1> QED BY <1>1, <1>2, <1>3 DEF Next

\* On the way out nothing is kept but what the caller is given, and it is given all.
LEMMA LeaveHandsOver ==
    ASSUME NEW f, f.outputs \in Seq(Vars), NEW code, Closed(code), SparesOutputs(f, code),
           HandsOver(f, code), Analysed(f, code), IInv(f, code), JInv, Leave
    PROVE  NoLeak' /\ ResultIntact'
<1> DEFINE s == Head(todo)
<1>1. /\ s \in code /\ s = todo[1] /\ s.op \in {"return", "exit"} /\ exit = "running"
      /\ Ahead(todo, released) /\ Values
  BY HeadAhead DEF Leave
<1>2. Own(handle) /\ live = Bufs(handle, Vars) /\ fn = f /\ s.frees \subseteq Vars
  BY <1>1 DEF IInv, Closed
<1>3. /\ result' = [i \in DOMAIN f.outputs |-> handle[f.outputs[i]]]
      /\ live' = live \ Bufs(handle, s.frees)
      /\ fn' = f /\ has' = has
  BY <1>1, <1>2 DEF Leave, HandsOver
<1>4. \A i \in DOMAIN f.outputs : /\ f.outputs[i] \in Vars /\ f.outputs[i] \notin s.frees
                                  /\ f.outputs[i] \in s.knows.before
  BY <1>1 DEF SparesOutputs, Analysed
<1>5. \A x \in Vars : (~\E i \in DOMAIN f.outputs : f.outputs[i] = x)
                      => x \in s.frees \cup s.knows.freed
  BY <1>1 DEF Analysed
<1> HIDE DEF s
<1>6. NoLeak'
  <2> SUFFICES ASSUME NEW u
               PROVE  u \in live' <=> \E i \in DOMAIN f.outputs : u \in handle[f.outputs[i]]
    BY <1>3 DEF NoLeak
  <2>1. u \in live' <=> (\E x \in Vars : u \in handle[x]) /\ ~\E x \in s.frees : u \in handle[x]
    BY <1>2, <1>3 DEF Bufs
  <2>2. ASSUME NEW x \in Vars, u \in handle[x], x \notin s.frees
        PROVE  \E i \in DOMAIN f.outputs : u \in handle[f.outputs[i]]
    <3>1. x \notin s.knows.freed
      BY <1>1, <2>2 DEF Ahead, Values
    <3> QED BY <1>5, <2>2, <3>1
  <2>3. ASSUME NEW i \in DOMAIN f.outputs, u \in handle[f.outputs[i]]
        PROVE  ~\E x \in s.frees : u \in handle[x]
    BY <1>2, <1>4, <2>3, OwnApart
  <2> QED BY <1>4, <2>1, <2>2, <2>3
<1>7. OutputsAlive'
  BY LeaveSpares
<1>8. \A i \in DOMAIN f.outputs : f.outputs[i] \in has => handle[f.outputs[i]] # {}
  BY <1>1, <1>4 DEF Ahead, Values
<1> QED BY <1>3, <1>6, <1>7, <1>8 DEF ResultIntact

LEMMA NextHandsOver ==
    ASSUME NEW f, f.outputs \in Seq(Vars), NEW code, Closed(code), SparesOutputs(f, code),
           HandsOver(f, code), Analysed(f, code), IInv(f, code), JInv,
           NoLeak, ResultIntact, [Next]_vars
    PROVE  NoLeak' /\ ResultIntact'
<1>1. CASE Leave
  BY <1>1, LeaveHandsOver
<1>2. CASE UNCHANGED vars
  BY <1>2 DEF vars, NoLeak, ResultIntact, OutputsAlive
<1>3. CASE Execute \/ Branch \/ Iterate \/ Jump \/ Abort
  BY <1>3 DEF Execute, Branch, Iterate, Jump, Abort, Comes, NoLeak, ResultIntact, OutputsAlive
<1> QED BY <1>1, <1>2, <1>3 DEF Next

LEMMA AlwaysAhead ==
    ASSUME NEW CONSTANT f, NEW CONSTANT body, NEW CONSTANT code, Closed(code), Copies(code),
           Analysed(f, code), WholeBody(body), Linked(body)
    PROVE  RunOf(f, body, code) => [](IInv(f, code) /\ JInv)
<1>1. fn = f /\ f.params \subseteq Vars /\ todo = body /\ body \in Seq(code) /\ Starts
      => IInv(f, code) /\ JInv
  BY StartsIInv, StartsAhead
<1>2. IInv(f, code) /\ JInv /\ [Next]_vars => (IInv(f, code) /\ JInv)'
  BY NextKeeps, NextAhead
<1> QED BY <1>1, <1>2, PTL DEF RunOf

-----------------------------------------------------------------------------
\* Every variable keeps its type, for any code codegen may emit.
THEOREM TypeCorrect ==
    ASSUME NEW CONSTANT f, NEW CONSTANT body, NEW CONSTANT code, Closed(code), Copies(code)
    PROVE  RunOf(f, body, code) => []TypeOK
<1>1. IInv(f, code) => TypeOK
  BY DEF IInv, Own, TypeOK
<1> QED BY <1>1, AlwaysIInv, PTL

\* Wherever the frees stand, as long as every slot and every argument is copied
\* (emitStmt.ts, emitExpr.ts wrapOwnedArgCopy) a handle points only to allocated
\* buffers, no buffer belongs to two variables and none is freed twice: a free
\* leaves an empty handle behind (ownedKinds.ts, OwnedKindOps.free).
THEOREM BuffersOwned ==
    ASSUME NEW CONSTANT f, NEW CONSTANT body, NEW CONSTANT code, Closed(code), Copies(code)
    PROVE  RunOf(f, body, code) => []HandlesOwnBuffers
<1>1. ASSUME IInv(f, code)
      PROVE  HandlesOwnBuffers
  BY <1>1, OwnApart DEF IInv, HandlesOwnBuffers
<1> QED BY <1>1, AlwaysIInv, PTL

\* What a function returns is allocated and shared by no two outputs, as long as the
\* frees on its ways out spare its outputs (emitFunction.ts scopeExitFreeSet).
THEOREM OutputsReachCaller ==
    ASSUME NEW CONSTANT f, f.outputs \in Seq(Vars), NEW CONSTANT body, NEW CONSTANT code, Closed(code), Copies(code),
           SparesOutputs(f, code)
    PROVE  RunOf(f, body, code) => []OutputsAlive
<1>1. Starts => OutputsAlive
  BY DEF Starts, OutputsAlive
<1>2. IInv(f, code) /\ OutputsAlive /\ [Next]_vars => OutputsAlive'
  BY NextSpares
<1> QED BY <1>1, <1>2, AlwaysIInv, PTL DEF RunOf

\* When the frees solve the equations of liveness.ts (touchStmt: a loop goes round, a
\* break and a continue lead where they lead) and of freedOwned in emitStmt.ts, every
\* statement that runs finds what it reads, on every path.
THEOREM ValuesAreRead ==
    ASSUME NEW CONSTANT f, NEW CONSTANT body, NEW CONSTANT code, Closed(code), Copies(code),
           Analysed(f, code), WholeBody(body), Linked(body)
    PROVE  RunOf(f, body, code) => []ReadsFindValue
<1>1. ASSUME IInv(f, code), JInv
      PROVE  ReadsFindValue
  <2> SUFFICES ASSUME exit = "running"
               PROVE  /\ \A x \in Head(todo).uses \cap has : handle[x] # {}
                      /\ released \cap (Head(todo).uses \cup Head(todo).defs) = {}
    BY DEF ReadsFindValue
  <2>1. todo # <<>> /\ todo \in Seq(code)
    BY <1>1 DEF IInv, JInv, Way
  <2>2. Comes({Head(todo).op})
    BY <2>1 DEF Comes
  <2>3. released \cap (Head(todo).uses \cup Head(todo).defs) = {} /\ Values
    BY <1>1, <2>2, HeadAhead
  <2> QED BY <2>3 DEF Values
<1> QED BY <1>1, AlwaysAhead, PTL

\* And whatever the function allocated and does not hand to its caller is freed by the
\* time it returns, whether by an early free or by the frees on the way out
\* (emitFunction.ts functionFreeOnExitSet less the outputs and the names already freed).
THEOREM NothingLeaks ==
    ASSUME NEW CONSTANT f, f.outputs \in Seq(Vars), NEW CONSTANT body, NEW CONSTANT code,
           Closed(code), Copies(code), SparesOutputs(f, code), HandsOver(f, code),
           Analysed(f, code), WholeBody(body), Linked(body)
    PROVE  RunOf(f, body, code) => []NoLeak
<1>1. Starts => NoLeak /\ ResultIntact
  BY DEF Starts, NoLeak, ResultIntact, OutputsAlive
<1>2. IInv(f, code) /\ JInv /\ NoLeak /\ ResultIntact /\ [Next]_vars => (NoLeak /\ ResultIntact)'
  BY NextHandsOver
<1> QED BY <1>1, <1>2, AlwaysAhead, PTL DEF RunOf

\* And every output that was assigned reaches the caller, allocated and its own: the
\* outputs are touched at each exit (liveness.ts, computeFutureTouches), so none of them
\* is freed early.
THEOREM ResultsReachCaller ==
    ASSUME NEW CONSTANT f, f.outputs \in Seq(Vars), NEW CONSTANT body, NEW CONSTANT code,
           Closed(code), Copies(code), SparesOutputs(f, code), HandsOver(f, code),
           Analysed(f, code), WholeBody(body), Linked(body)
    PROVE  RunOf(f, body, code) => []ResultIntact
<1>1. Starts => NoLeak /\ ResultIntact
  BY DEF Starts, NoLeak, ResultIntact, OutputsAlive
<1>2. IInv(f, code) /\ JInv /\ NoLeak /\ ResultIntact /\ [Next]_vars => (NoLeak /\ ResultIntact)'
  BY NextHandsOver
<1> QED BY <1>1, <1>2, AlwaysAhead, PTL DEF RunOf
=============================================================================
