---------------------------- MODULE OwnershipCfg ----------------------------
(***************************************************************************)
(* Why the frees that codegen inserts are right, for any function: the     *)
(* statements are the nodes of a control-flow graph, and the two analyses  *)
(* are known only by the equations their results satisfy.  Touch[n] is     *)
(* what may be touched after n (liveness.ts), Freed[n] is freedOwned when  *)
(* n is emitted (emitStmt.ts).  OwnedCodegen computes both, from the       *)
(* statement tree, as the code does; here any solution will do.            *)
(***************************************************************************)
EXTENDS Naturals, FiniteSets

CONSTANTS
    Nodes, Entry, Exits,  \* the statements, the first one, the ways out
    Succ,                 \* control flow
    Vars, Params, Outputs,
    Uses, Defs,           \* topLevelOwnedUses, topLevelOwnedDefs
    Touch, Freed,         \* the two analyses
    Buf, NoBuf            \* heap buffers; the empty handle

\* deadAfterStmt: what emitEarlyFrees frees after a statement.
FreesAfter_IgnoringFuture(n) == (Uses[n] \cup Defs[n]) \ Outputs   \* seeded

FreesAfter(n) == ((Uses[n] \cup Defs[n]) \ Touch[n]) \ (Freed[n] \ Defs[n])

ExitFrees_Params(n) == ((Vars \ Params) \ Outputs) \ Freed[n]   \* seeded: locals only

\* scopeExitFreeSet less what this path has freed.
ExitFrees(n) == (Vars \ Outputs) \ Freed[n]

ASSUME GraphAssumption ==
    /\ Entry \in Nodes /\ Exits \subseteq Nodes
    /\ Succ \in [Nodes -> SUBSET Nodes]
    /\ Params \subseteq Vars /\ Outputs \subseteq Vars
    /\ {Uses, Defs, Touch, Freed} \subseteq [Nodes -> SUBSET Vars]
    /\ NoBuf \notin Buf

\* touchSeq and touchStmt: what a successor touches, or what may be touched
\* after it, may be touched after n.  A way out touches the outputs.
TouchEquations ==
    /\ \A n \in Nodes : \A m \in Succ[n] : Uses[m] \cup Defs[m] \cup Touch[m] \subseteq Touch[n]
    /\ \A n \in Exits : Outputs \subseteq Touch[n]

\* freedOwned: nothing is freed on entry; a name is in the set at a statement
\* only if every way to it freed the name and none wrote it since.
FreedEquations ==
    /\ Freed[Entry] = {}
    /\ \A n \in Nodes : \A m \in Succ[n] : Freed[m] \subseteq (Freed[n] \ Defs[n]) \cup FreesAfter(n)

ASSUME AnalysesAssumption == TouchEquations /\ FreedEquations

VARIABLES
    at,      \* the statement about to run; "returned" is no node
    done,    \* the function has returned
    handle,  \* what each variable points to
    live,    \* the allocated buffers
    has      \* the variables the source program has given a value

vars == <<at, done, handle, live, has>>

Handles == {handle[x] : x \in Vars} \ {NoBuf}

Injective(h) == \A x, y \in DOMAIN h : h[x] = h[y] => x = y

\* The arguments are the callee's own copies, the locals start empty.
Init ==
    /\ at = Entry
    /\ done = FALSE
    /\ \E arg \in [Params -> Buf] :
          /\ Injective(arg)
          /\ handle = [x \in Vars |-> IF x \in Params THEN arg[x] ELSE NoBuf]
    /\ live = Handles
    /\ has = Params

\* Seeded: the old value is overwritten, not freed.
Run_Overwrites(n) ==
    /\ at = n /\ ~done /\ n \notin Exits
    /\ \E new \in [Defs[n] -> Buf \ live] :
          /\ Injective(new)
          /\ handle' = [x \in Vars |-> IF x \in FreesAfter(n) THEN NoBuf
                                       ELSE IF x \in Defs[n] THEN new[x] ELSE handle[x]]
          /\ live' = live \cup {new[x] : x \in Defs[n]}
    /\ has' = has \cup Defs[n]
    /\ at' \in Succ[n]
    /\ UNCHANGED done

\* A statement: new values for what it defines (built before the old ones are
\* freed), then the early frees, then on to some successor.
Run(n) ==
    /\ at = n /\ ~done /\ n \notin Exits
    /\ \E new \in [Defs[n] -> Buf \ live] :
          /\ Injective(new)
          /\ handle' = [x \in Vars |-> IF x \in FreesAfter(n) THEN NoBuf
                                       ELSE IF x \in Defs[n] THEN new[x] ELSE handle[x]]
          /\ live' = ((live \ {handle[x] : x \in Defs[n]})
                        \cup {new[x] : x \in Defs[n]})
                     \ {IF x \in Defs[n] THEN new[x] ELSE handle[x] : x \in FreesAfter(n)}
    /\ has' = has \cup Defs[n]
    /\ at' \in Succ[n]
    /\ UNCHANGED done

\* A way out: the scope-exit frees; the outputs' handles go to the caller.
Leave(n) ==
    /\ at = n /\ ~done /\ n \in Exits
    /\ done' = TRUE
    /\ handle' = [x \in Vars |-> IF x \in ExitFrees(n) THEN NoBuf ELSE handle[x]]
    /\ live' = live \ {handle[x] : x \in ExitFrees(n)}
    /\ UNCHANGED <<at, has>>

Next == \E n \in Nodes : Run(n) \/ Leave(n)

Spec == Init /\ [][Next]_vars

-----------------------------------------------------------------------------
\* Control is at a statement of the function, and each variable holds a buffer
\* or the empty handle.
TypeOK ==
    /\ at \in Nodes
    /\ done \in BOOLEAN
    /\ handle \in [Vars -> Buf \cup {NoBuf}]
    /\ live \subseteq Buf
    /\ has \subseteq Vars

\* The heap is exactly what the variables hold: no handle dangles, and no
\* buffer is lost.
HeapIsReachable == live = Handles

\* No buffer belongs to two variables, so none is freed twice.
NoSharing == \A x, y \in Vars : handle[x] = handle[y] /\ handle[x] # NoBuf => x = y

\* A statement never reads a variable whose value an early free took away.
ReadsFindValue == ~done => \A x \in Uses[at] \cap has : handle[x] # NoBuf

\* Nothing leaks: at no time is a buffer lost, and on return everything but
\* the outputs has been freed.
OutputsRemain == done => live = {handle[x] : x \in Outputs} \ {NoBuf}
NoLeak == HeapIsReachable /\ OutputsRemain

\* An output that was assigned reaches the caller.
ResultIntact == done => \A x \in Outputs \cap has : handle[x] # NoBuf
=============================================================================
