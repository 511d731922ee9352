------------------------ MODULE OwnershipCfg_proofs ------------------------
(***************************************************************************)
(* The frees that codegen inserts are right for every function, every      *)
(* control flow and every heap, whatever solution of the two equations the *)
(* analyses compute.                                                       *)
(***************************************************************************)
EXTENDS OwnershipCfg, TLAPS

\* What TypeOK, HeapIsReachable and NoSharing lack to be inductive.  A variable
\* whose value is gone is touched by nothing that can still run ...
GoneIsUntouched ==
    ~done => \A x \in has : handle[x] = NoBuf => x \notin Uses[at] \cup Defs[at] \cup Touch[at]

\* ... and one recorded as freed holds nothing, so scope exit may skip it.
FreedIsEmpty == ~done => \A x \in Freed[at] : handle[x] = NoBuf

IInv ==
    /\ TypeOK /\ HeapIsReachable /\ NoSharing
    /\ GoneIsUntouched /\ FreedIsEmpty
    /\ OutputsRemain /\ ResultIntact

\* The two analyses answer with variables, at every statement.
LEMMA AnalysisTypes ==
    ASSUME NEW n \in Nodes
    PROVE  /\ Uses[n] \subseteq Vars /\ Defs[n] \subseteq Vars
           /\ Touch[n] \subseteq Vars /\ Freed[n] \subseteq Vars
           /\ FreesAfter(n) \subseteq Vars /\ ExitFrees(n) \subseteq Vars
           /\ FreesAfter(n) \cap Touch[n] = {}
           /\ Succ[n] \subseteq Nodes
  BY GraphAssumption, Zenon DEF FreesAfter, ExitFrees

\* The caller's copies and the empty locals satisfy the invariant.
LEMMA InitIInv == Init => IInv
<1> SUFFICES ASSUME Init PROVE IInv
  OBVIOUS
<1>1. PICK arg \in [Params -> Buf] :
         /\ Injective(arg)
         /\ handle = [x \in Vars |-> IF x \in Params THEN arg[x] ELSE NoBuf]
  BY Zenon DEF Init
<1>2. at = Entry /\ done = FALSE /\ live = Handles /\ has = Params
  BY DEF Init
<1>3. /\ Entry \in Nodes /\ Params \subseteq Vars /\ NoBuf \notin Buf
      /\ Freed[Entry] = {}
  BY GraphAssumption, AnalysesAssumption DEF FreedEquations
<1>4. \A x \in Vars : handle[x] = IF x \in Params THEN arg[x] ELSE NoBuf
  BY <1>1
<1>5. \A x \in Params : arg[x] \in Buf
  BY <1>1
<1>6. TypeOK
  <2>1. handle \in [Vars -> Buf \cup {NoBuf}]
    BY <1>1, <1>5
  <2>2. Handles \subseteq Buf
    BY <1>4, <1>5 DEF Handles
  <2> QED
    BY <1>2, <1>3, <2>1, <2>2 DEF TypeOK
<1>7. NoSharing
  <2> SUFFICES ASSUME NEW x \in Vars, NEW y \in Vars, handle[x] = handle[y], handle[x] # NoBuf
               PROVE  x = y
    BY DEF NoSharing
  <2>1. x \in Params /\ y \in Params /\ arg[x] = arg[y]
    BY <1>4
  <2>2. DOMAIN arg = Params
    BY <1>1
  <2> QED
    BY <1>1, <2>1, <2>2 DEF Injective
<1>8. GoneIsUntouched
  BY <1>2, <1>3, <1>4, <1>5 DEF GoneIsUntouched
<1> QED
  BY <1>2, <1>3, <1>6, <1>7, <1>8
     DEF IInv, HeapIsReachable, FreedIsEmpty, OutputsRemain, ResultIntact

\* A statement keeps the invariant: its new values are fresh, the old ones are
\* freed once, and what the early frees empty is not touched again.
LEMMA RunIInv ==
    ASSUME IInv, NEW n \in Nodes, Run(n)
    PROVE  IInv'
<1>1. PICK new \in [Defs[n] -> Buf \ live] :
         /\ Injective(new)
         /\ handle' = [x \in Vars |-> IF x \in FreesAfter(n) THEN NoBuf
                                      ELSE IF x \in Defs[n] THEN new[x] ELSE handle[x]]
         /\ live' = ((live \ {handle[x] : x \in Defs[n]}) \cup {new[x] : x \in Defs[n]})
                    \ {IF x \in Defs[n] THEN new[x] ELSE handle[x] : x \in FreesAfter(n)}
  BY Zenon DEF Run
<1>2. /\ at = n /\ ~done /\ n \notin Exits /\ done' = done
      /\ has' = has \cup Defs[n] /\ at' \in Succ[n] /\ at' \in Nodes
  BY AnalysisTypes DEF Run
<1>3. /\ Defs[n] \subseteq Vars /\ FreesAfter(n) \subseteq Vars
      /\ FreesAfter(n) \cap Touch[n] = {}
  BY AnalysisTypes
<1>4. /\ TypeOK /\ HeapIsReachable /\ NoSharing /\ GoneIsUntouched /\ FreedIsEmpty
      /\ NoBuf \notin Buf
  BY GraphAssumption DEF IInv
<1>5. DOMAIN new = Defs[n] /\ \A x \in Defs[n] : new[x] \in Buf /\ new[x] \notin live
  BY <1>1
<1> DEFINE val(x) == IF x \in Defs[n] THEN new[x] ELSE handle[x]
<1>6. \A x \in Vars : handle'[x] = IF x \in FreesAfter(n) THEN NoBuf ELSE val(x)
  BY <1>1
<1>7. live \subseteq Buf /\ \A x \in Vars : handle[x] \in Buf \cup {NoBuf}
  BY <1>4 DEF TypeOK
<1>8. \A x \in Vars : val(x) \in Buf \cup {NoBuf}
  BY <1>5, <1>7
<1>9. live = {handle[x] : x \in Vars} \ {NoBuf}
  BY <1>4 DEF HeapIsReachable, Handles
\* Between the stores and the frees, no two variables hold one buffer ...
<1>10. \A x, y \in Vars : val(x) = val(y) /\ val(x) # NoBuf => x = y
  <2> SUFFICES ASSUME NEW x \in Vars, NEW y \in Vars, val(x) = val(y), val(x) # NoBuf
               PROVE  x = y
    OBVIOUS
  <2>1. CASE x \in Defs[n] /\ y \in Defs[n]
    BY <1>1, <1>5, <2>1 DEF Injective
  <2>2. CASE x \in Defs[n] /\ y \notin Defs[n]
    BY <1>5, <1>9, <2>2
  <2>3. CASE x \notin Defs[n] /\ y \in Defs[n]
    BY <1>5, <1>9, <2>3
  <2>4. CASE x \notin Defs[n] /\ y \notin Defs[n]
    BY <1>4, <2>4 DEF NoSharing
  <2> QED
    BY <2>1, <2>2, <2>3, <2>4
\* ... and the heap is what they hold.
<1>11. (live \ {handle[x] : x \in Defs[n]}) \cup {new[x] : x \in Defs[n]}
          = {val(x) : x \in Vars} \ {NoBuf}
  <2> DEFINE mid == (live \ {handle[x] : x \in Defs[n]}) \cup {new[x] : x \in Defs[n]}
  <2>1. ASSUME NEW b \in mid PROVE b \in {val(x) : x \in Vars} \ {NoBuf}
    <3>1. CASE b \in {new[x] : x \in Defs[n]}
      BY <1>3, <1>4, <1>5, <3>1
    <3>2. CASE b \in live \ {handle[x] : x \in Defs[n]}
      <4>1. PICK x \in Vars : b = handle[x] /\ b # NoBuf
        BY <1>9, <3>2
      <4>2. x \notin Defs[n]
        BY <3>2, <4>1
      <4> QED
        BY <4>1, <4>2
    <3> QED
      BY <2>1, <3>1, <3>2
  <2>2. ASSUME NEW x \in Vars, val(x) # NoBuf PROVE val(x) \in mid
    <3>1. CASE x \in Defs[n]
      BY <3>1
    <3>2. CASE x \notin Defs[n]
      <4>1. handle[x] \in live /\ handle[x] # NoBuf
        BY <1>9, <2>2, <3>2
      <4>2. handle[x] \notin {handle[y] : y \in Defs[n]}
        BY <1>3, <1>4, <3>2, <4>1 DEF NoSharing
      <4> QED
        BY <3>2, <4>1, <4>2
    <3> QED
      BY <3>1, <3>2
  <2> QED
    BY <2>1, <2>2
<1>12. live' = ({val(x) : x \in Vars} \ {NoBuf}) \ {val(x) : x \in FreesAfter(n)}
  BY <1>1, <1>11
<1> HIDE DEF val
<1>13. TypeOK'
  <2>1. handle' \in [Vars -> Buf \cup {NoBuf}]
    <3>1. handle' = [x \in Vars |-> IF x \in FreesAfter(n) THEN NoBuf ELSE val(x)]
      BY <1>1 DEF val
    <3> QED
      BY <1>8, <3>1
  <2>2. live' \subseteq Buf
    BY <1>8, <1>12
  <2>3. has' \subseteq Vars
    BY <1>2, <1>3, <1>4 DEF TypeOK
  <2> QED
    BY <1>2, <1>4, <2>1, <2>2, <2>3 DEF TypeOK
<1>14. HeapIsReachable'
  <2>1. Handles' = {handle'[x] : x \in Vars} \ {NoBuf}
    BY DEF Handles
  <2>2. ASSUME NEW b \in live' PROVE b \in Handles'
    <3>1. PICK x \in Vars : b = val(x) /\ b # NoBuf
      BY <1>12, <2>2
    <3>2. x \notin FreesAfter(n)
      BY <1>12, <2>2, <3>1
    <3>3. handle'[x] = b
      BY <1>6, <3>1, <3>2
    <3> QED
      BY <2>1, <3>1, <3>3
  <2>3. ASSUME NEW x \in Vars, handle'[x] # NoBuf PROVE handle'[x] \in live'
    <3>1. x \notin FreesAfter(n) /\ handle'[x] = val(x)
      BY <1>6, <2>3
    <3>2. val(x) \notin {val(y) : y \in FreesAfter(n)}
      BY <1>3, <1>10, <2>3, <3>1
    <3> QED
      BY <1>12, <2>3, <3>1, <3>2
  <2> QED
    BY <2>1, <2>2, <2>3 DEF HeapIsReachable
<1>15. NoSharing'
  BY <1>6, <1>10 DEF NoSharing
<1>16. GoneIsUntouched'
  <2> SUFFICES ASSUME NEW x \in has', handle'[x] = NoBuf
               PROVE  x \notin Uses[at'] \cup Defs[at'] \cup Touch[at']
    BY DEF GoneIsUntouched
  <2>1. Uses[at'] \cup Defs[at'] \cup Touch[at'] \subseteq Touch[n]
    BY <1>2, AnalysesAssumption DEF TouchEquations
  <2>2. x \in Vars
    BY <1>2, <1>3, <1>4 DEF TypeOK
  <2>3. CASE x \in FreesAfter(n)
    BY <1>3, <2>1, <2>3
  <2>4. CASE x \notin FreesAfter(n)
    <3>1. val(x) = NoBuf
      BY <1>6, <2>2, <2>4
    <3>2. x \notin Defs[n] /\ handle[x] = NoBuf
      BY <1>4, <1>5, <3>1 DEF val
    <3>3. x \in has
      BY <1>2, <3>2
    <3>4. x \notin Touch[n]
      BY <1>2, <1>4, <3>2, <3>3 DEF GoneIsUntouched
    <3> QED
      BY <2>1, <3>4
  <2> QED
    BY <2>3, <2>4
<1>17. FreedIsEmpty'
  <2> SUFFICES ASSUME NEW x \in Freed[at'] PROVE handle'[x] = NoBuf
    BY DEF FreedIsEmpty
  <2>1. x \in Vars
    BY <1>2, AnalysisTypes
  <2>2. x \in (Freed[n] \ Defs[n]) \cup FreesAfter(n)
    BY <1>2, AnalysesAssumption DEF FreedEquations
  <2>3. CASE x \in FreesAfter(n)
    BY <1>6, <2>1, <2>3
  <2>4. CASE x \notin FreesAfter(n)
    <3>1. x \in Freed[n] /\ x \notin Defs[n]
      BY <2>2, <2>4
    <3>2. handle[x] = NoBuf
      BY <1>2, <1>4, <3>1 DEF FreedIsEmpty
    <3>3. val(x) = NoBuf
      BY <3>1, <3>2 DEF val
    <3> QED
      BY <1>6, <2>1, <2>4, <3>3
  <2> QED
    BY <2>3, <2>4
<1>18. OutputsRemain' /\ ResultIntact'
  BY <1>2 DEF OutputsRemain, ResultIntact
<1> QED
  BY <1>13, <1>14, <1>15, <1>16, <1>17, <1>18 DEF IInv

\* A way out keeps it: all that is not an output is freed, here or before.
LEMMA LeaveIInv ==
    ASSUME IInv, NEW n \in Nodes, Leave(n)
    PROVE  IInv'
<1>1. /\ at = n /\ ~done /\ n \in Exits /\ done' = TRUE
      /\ handle' = [x \in Vars |-> IF x \in ExitFrees(n) THEN NoBuf ELSE handle[x]]
      /\ live' = live \ {handle[x] : x \in ExitFrees(n)}
      /\ at' = at /\ has' = has
  BY DEF Leave
<1>2. /\ TypeOK /\ HeapIsReachable /\ NoSharing /\ GoneIsUntouched /\ FreedIsEmpty
  BY DEF IInv
<1>3. \A x \in Vars : handle'[x] = IF x \in ExitFrees(n) THEN NoBuf ELSE handle[x]
  BY <1>1
<1>4. ExitFrees(n) \subseteq Vars /\ Outputs \subseteq Vars
  BY AnalysisTypes, GraphAssumption
<1>5. live = {handle[x] : x \in Vars} \ {NoBuf}
  BY <1>2 DEF HeapIsReachable, Handles
<1>6. \A x, y \in Vars : handle[x] = handle[y] /\ handle[x] # NoBuf => x = y
  BY <1>2 DEF NoSharing
<1>7. TypeOK'
  <2>1. handle' \in [Vars -> Buf \cup {NoBuf}]
    BY <1>1, <1>2 DEF TypeOK
  <2> QED
    BY <1>1, <1>2, <2>1 DEF TypeOK
<1>8. HeapIsReachable'
  <2>1. Handles' = {handle'[x] : x \in Vars} \ {NoBuf}
    BY DEF Handles
  <2>2. ASSUME NEW b \in live' PROVE b \in Handles'
    <3>1. PICK x \in Vars : b = handle[x] /\ b # NoBuf
      BY <1>1, <1>5, <2>2
    <3>2. x \notin ExitFrees(n)
      BY <1>1, <2>2, <3>1
    <3> QED
      BY <1>3, <2>1, <3>1, <3>2
  <2>3. ASSUME NEW x \in Vars, handle'[x] # NoBuf PROVE handle'[x] \in live'
    <3>1. x \notin ExitFrees(n) /\ handle'[x] = handle[x]
      BY <1>3, <2>3
    <3>2. handle[x] \notin {handle[y] : y \in ExitFrees(n)}
      BY <1>4, <1>6, <2>3, <3>1
    <3> QED
      BY <1>1, <1>5, <2>3, <3>1, <3>2
  <2> QED
    BY <2>1, <2>2, <2>3 DEF HeapIsReachable
<1>9. NoSharing'
  BY <1>3, <1>6 DEF NoSharing
<1>10. GoneIsUntouched' /\ FreedIsEmpty'
  BY <1>1 DEF GoneIsUntouched, FreedIsEmpty
<1>11. \A x \in Vars \ Outputs : handle'[x] = NoBuf
  <2> SUFFICES ASSUME NEW x \in Vars \ Outputs PROVE handle'[x] = NoBuf
    OBVIOUS
  <2>1. CASE x \in ExitFrees(n)
    BY <1>3, <2>1
  <2>2. CASE x \notin ExitFrees(n)
    <3>1. x \in Freed[n]
      BY <2>2 DEF ExitFrees
    <3> QED
      BY <1>1, <1>2, <1>3, <2>2, <3>1 DEF FreedIsEmpty
  <2> QED
    BY <2>1, <2>2
<1>12. OutputsRemain'
  <2>1. live' = {handle'[x] : x \in Vars} \ {NoBuf}
    BY <1>8 DEF HeapIsReachable, Handles
  <2>2. {handle'[x] : x \in Vars} \ {NoBuf} = {handle'[x] : x \in Outputs} \ {NoBuf}
    BY <1>4, <1>11
  <2> QED
    BY <2>1, <2>2 DEF OutputsRemain
<1>13. ResultIntact'
  <2> SUFFICES ASSUME NEW x \in Outputs \cap has' PROVE handle'[x] # NoBuf
    BY DEF ResultIntact
  <2>1. x \in Touch[n]
    BY <1>1, AnalysesAssumption DEF TouchEquations
  <2>2. handle[x] # NoBuf
    BY <1>1, <1>2, <2>1 DEF GoneIsUntouched
  <2>3. x \in Vars /\ x \notin ExitFrees(n)
    BY <1>4 DEF ExitFrees
  <2> QED
    BY <1>3, <2>2, <2>3
<1> QED
  BY <1>7, <1>8, <1>9, <1>10, <1>12, <1>13 DEF IInv

\* The invariant holds in every state of every run.
LEMMA Inductive == Spec => []IInv
<1>1. IInv /\ [Next]_vars => IInv'
  <2> SUFFICES ASSUME IInv, [Next]_vars PROVE IInv'
    OBVIOUS
  <2>1. ASSUME NEW n \in Nodes, Run(n) PROVE IInv'
    BY <2>1, RunIInv
  <2>2. ASSUME NEW n \in Nodes, Leave(n) PROVE IInv'
    BY <2>2, LeaveIInv
  <2>3. CASE UNCHANGED vars
    BY <2>3 DEF vars, IInv, TypeOK, HeapIsReachable, Handles, NoSharing,
                GoneIsUntouched, FreedIsEmpty, OutputsRemain, ResultIntact
  <2> HIDE DEF IInv
  <2> QED
    BY <2>1, <2>2, <2>3 DEF Next
<1> QED
  BY InitIInv, <1>1, PTL DEF Spec

-----------------------------------------------------------------------------
\* Every variable always holds a buffer or the empty handle.
THEOREM TypeCorrect == Spec => []TypeOK
<1>1. IInv => TypeOK
  BY DEF IInv
<1> QED
  BY Inductive, <1>1, PTL

\* No handle dangles and no buffer is lost: the frees emitOwnedAssign,
\* emitEarlyFrees and emitScopeExitFrees insert are enough, and not too many.
THEOREM HeapIsExact == Spec => [](HeapIsReachable /\ NoSharing)
<1>1. IInv => HeapIsReachable /\ NoSharing
  BY DEF IInv
<1> QED
  BY Inductive, <1>1, PTL

\* An early free never takes a value that a later statement reads.
THEOREM EarlyFreesAreSafe == Spec => []ReadsFindValue
<1>1. IInv => ReadsFindValue
  BY DEF IInv, ReadsFindValue, GoneIsUntouched, TypeOK
<1> QED
  BY Inductive, <1>1, PTL

\* On return only the outputs are on the heap, and each one that was assigned is.
THEOREM OnlyOutputsSurvive == Spec => [](NoLeak /\ ResultIntact)
<1>1. IInv => NoLeak /\ ResultIntact
  BY DEF IInv, NoLeak
<1> QED
  BY Inductive, <1>1, PTL
=============================================================================
