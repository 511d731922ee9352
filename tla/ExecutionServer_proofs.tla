----------------------- MODULE ExecutionServer_proofs -----------------------
(***************************************************************************)
(* What holds of the execution server for any number of requests, any cap  *)
(* and either meaning of a request's 'close'.                              *)
(***************************************************************************)
EXTENDS ExecutionServer, FiniteSetTheorems, SequenceTheorems, TLAPS

-----------------------------------------------------------------------------
(* Type correctness.                                                        *)

\* sendEvent and res.end keep the response's fields well typed.
LEMMA StreamType ==
    ASSUME TypeOK, NEW r \in Requests, NEW evs \in Seq(EventTypes),
           NEW last \in BOOLEAN, Stream(r, evs, last)
    PROVE  /\ events' \in [Requests -> Seq(EventTypes)]
           /\ lateWrite' \in [Requests -> BOOLEAN]
           /\ ended' \in [Requests -> BOOLEAN]
<1>1. events[r] \o evs \in Seq(EventTypes)
    BY DEF TypeOK
<1>2. events' \in [Requests -> Seq(EventTypes)]
    BY <1>1 DEF TypeOK, Stream
<1>3. lateWrite' \in [Requests -> BOOLEAN] /\ ended' \in [Requests -> BOOLEAN]
    BY DEF TypeOK, Stream
<1> QED BY <1>2, <1>3

\* The event groups the handler sends are sequences of events.
LEMMA EventGroups ==
    /\ <<>> \in Seq(EventTypes)
    /\ \A e \in EventTypes : <<e>> \in Seq(EventTypes)
    /\ <<"translate_error", "done">> \in Seq(EventTypes)
    /\ <<"compile_error", "done">> \in Seq(EventTypes)
    /\ <<"stderr", "done">> \in Seq(EventTypes)
    /\ <<"stderr">> \o <<"done">> \in Seq(EventTypes)
    /\ <<>> \o <<"done">> \in Seq(EventTypes)
<1>1. \A e \in EventTypes : <<e>> \in Seq(EventTypes)
    OBVIOUS
<1>2. <<"stderr">> \in Seq(EventTypes) /\ <<"done">> \in Seq(EventTypes)
    BY <1>1 DEF EventTypes
<1>3. <<>> \in Seq(EventTypes)
    OBVIOUS
<1>4. \A s, t \in Seq(EventTypes) : s \o t \in Seq(EventTypes)
    OBVIOUS
<1>5. /\ <<"translate_error", "done">> \in Seq(EventTypes)
      /\ <<"compile_error", "done">> \in Seq(EventTypes)
      /\ <<"stderr", "done">> \in Seq(EventTypes)
    BY DEF EventTypes
<1> QED BY <1>1, <1>2, <1>3, <1>4, <1>5

\* The server starts with every variable of its type.
LEMMA InitType == Init => TypeOK
BY EventGroups, ServerAssumption DEF Init, TypeOK, Steps, Statuses, ChildStates

\* A handler that holds a slot is counted.
LEMMA HolderCounts ==
    ASSUME TypeOK, SlotAccounting, NEW r \in Requests, pc[r] \in Holding
    PROVE  activeExecutions >= 1
<1>1. IsFiniteSet(Holders)
    BY ServerAssumption, FS_Subset DEF Holders
<1>2. r \in Holders
    BY DEF Holders
<1>3. Cardinality(Holders) # 0
    BY <1>1, <1>2, FS_EmptySet
<1> QED BY <1>1, <1>3, FS_CardinalityType DEF SlotAccounting

\* No step of the server takes a variable out of its type.
LEMMA NextType == TypeOK /\ SlotAccounting /\ [Next]_vars => TypeOK'
<1> SUFFICES ASSUME TypeOK, SlotAccounting, [Next]_vars PROVE TypeOK'
    OBVIOUS
<1> USE DEF vars, reqVars, resVars, procVars, netVars
<1>1. CASE UNCHANGED vars
    BY <1>1 DEF TypeOK
<1>2. CASE Next
  <2> PICK r \in Requests :
        \/ Route(r) \/ Refuse(r) \/ Admit(r)
        \/ BodyEnds(r) \/ MkdtempEnds(r) \/ WriteEnds(r) \/ CompileEnds(r)
        \/ ChildOutput(r) \/ ChildExits(r) \/ ChildEnds(r)
        \/ TimeoutFires(r) \/ EscalationFires(r) \/ CloseEvent(r)
        \/ Cleanup(r) \/ Disconnect(r)
      BY <1>2 DEF Next
  <2>1. CASE Route(r) \/ Refuse(r) \/ Admit(r)
    <3>1. CASE Route(r)
        BY <3>1 DEF TypeOK, Route, Goto, SendJson, Steps, Statuses
    <3>2. CASE Refuse(r)
        BY <3>2 DEF TypeOK, Refuse, Goto, SendJson, Steps, Statuses
    <3>3. CASE Admit(r)
        BY <3>3 DEF TypeOK, Admit, Goto, Steps
    <3> QED BY <2>1, <3>1, <3>2, <3>3
  <2>2. CASE BodyEnds(r)
    <3>1. CASE BodyFails(r)
        BY <3>1 DEF TypeOK, BodyFails, Goto, SendJson, Steps, Statuses
    <3>2. CASE BodyInvalid(r)
        BY <3>2 DEF TypeOK, BodyInvalid, BodyConsumed, Goto, SendJson, Steps, Statuses
    <3>3. CASE BodyValid(r)
        BY <3>3 DEF TypeOK, BodyValid, BodyConsumed, Goto, Steps
    <3> QED BY <2>2, <3>1, <3>2, <3>3 DEF BodyEnds
  <2>3. CASE MkdtempFails(r)
    <3>1. activeExecutions >= 1
        BY <2>3, HolderCounts DEF MkdtempFails, Goto, Holding
    <3> QED BY <2>3, <3>1 DEF TypeOK, MkdtempFails, Goto, SendJson, Steps, Statuses
  <2>4. CASE Translate(r)
    <3>1. \E evs \in Seq(EventTypes), last \in BOOLEAN : Stream(r, evs, last)
      <4>1. CASE Stream(r, <<"translate_error", "done">>, TRUE)
          BY <4>1, EventGroups
      <4>2. CASE Stream(r, <<>>, FALSE)
          BY <4>2, EventGroups
      <4> QED BY <2>4, <4>1, <4>2 DEF Translate
    <3>2. pc' \in [Requests -> Steps]
      <4>1. Goto(r, "mkdtemp", "cleanup") \/ Goto(r, "mkdtemp", "write")
          BY <2>4 DEF Translate
      <4> QED BY <4>1 DEF TypeOK, Goto, Steps
    <3>3. /\ events' \in [Requests -> Seq(EventTypes)]
          /\ lateWrite' \in [Requests -> BOOLEAN]
          /\ ended' \in [Requests -> BOOLEAN]
        BY <3>1, StreamType
    <3> QED BY <2>4, <3>2, <3>3 DEF TypeOK, Translate, Statuses
  <2>5. CASE WriteEnds(r)
      BY <2>5 DEF TypeOK, WriteEnds, WriteFails, WriteDone, Goto, Steps
  <2>6. CASE CompileFails(r)
    <3>1. PICK evs \in Seq(EventTypes), last \in BOOLEAN : Stream(r, evs, last)
        BY <2>6, EventGroups DEF CompileFails
    <3> QED BY <2>6, <3>1, StreamType DEF TypeOK, CompileFails, Goto, Steps
  <2>7. CASE Spawn(r) \/ SpawnThrows(r)
    <3>1. CASE Spawn(r)
      <4>1. child' \in [Requests -> ChildStates]
          BY <3>1 DEF TypeOK, Spawn, ChildStates
      <4> QED BY <3>1, <4>1 DEF TypeOK, Spawn, Goto, Steps
    <3>2. CASE SpawnThrows(r)
        BY <3>2 DEF TypeOK, SpawnThrows, Goto, Steps
    <3> QED BY <2>7, <3>1, <3>2
  <2>8. CASE ChildOutput(r)
    <3>1. PICK evs \in Seq(EventTypes), last \in BOOLEAN : Stream(r, evs, last)
        BY <2>8, EventGroups DEF ChildOutput, EventTypes
    <3> QED BY <2>8, <3>1, StreamType DEF TypeOK, ChildOutput
  <2>9. CASE ChildExits(r)
      BY <2>9 DEF TypeOK, ChildExits, ChildStates
  <2>10. CASE ChildError(r)
    <3>1. PICK evs \in Seq(EventTypes), last \in BOOLEAN : Stream(r, evs, last)
        BY <2>10, EventGroups DEF ChildError
    <3> QED BY <2>10, <3>1, StreamType DEF TypeOK, ChildError, StopWatching, Resolve, Steps, ChildStates
  <2>11. CASE ChildClose(r)
    <3>1. PICK evs \in Seq(EventTypes), last \in BOOLEAN : Stream(r, evs, last)
        BY <2>11, EventGroups DEF ChildClose
    <3> QED BY <2>11, <3>1, StreamType DEF TypeOK, ChildClose, StopWatching, Resolve, Steps, ChildStates
  <2>12. CASE TimeoutFires(r) \/ EscalationFires(r) \/ CloseEvent(r)
    <3>1. Kill(r) => killed' \in [Requests -> BOOLEAN]
        BY DEF Kill, TypeOK
    <3>2. CASE TimeoutFires(r)
        BY <3>1, <3>2 DEF TypeOK, TimeoutFires
    <3>3. CASE EscalationFires(r)
        BY <3>1, <3>3 DEF TypeOK, EscalationFires
    <3>4. CASE CloseEvent(r)
        BY <3>1, <3>4 DEF TypeOK, CloseEvent
    <3> QED BY <2>12, <3>2, <3>3, <3>4
  <2>13. CASE Cleanup(r)
    <3>1. activeExecutions >= 1
        BY <2>13, HolderCounts DEF Cleanup, Goto, Holding
    <3> QED BY <2>13, <3>1 DEF TypeOK, Cleanup, Goto, Steps
  <2>14. CASE Disconnect(r)
      BY <2>14 DEF TypeOK, Disconnect
  <2> QED BY <2>1, <2>2, <2>3, <2>4, <2>5, <2>6, <2>7, <2>8, <2>9, <2>10, <2>11,
             <2>12, <2>13, <2>14
          DEF MkdtempEnds, CompileEnds, ChildEnds, KilledChildDies
<1> QED BY <1>1, <1>2

-----------------------------------------------------------------------------
(* The slot counter.                                                        *)

\* A step that moves one handler into, within or out of the slot holders
\* moves the number of holders accordingly.
LEMMA HoldersMove ==
    ASSUME TypeOK, SlotAccounting, NEW r \in Requests, NEW to \in Steps,
           pc' = [pc EXCEPT ![r] = to],
           activeExecutions' =
              IF pc[r] \in Holding
              THEN IF to \in Holding THEN activeExecutions ELSE activeExecutions - 1
              ELSE IF to \in Holding THEN activeExecutions + 1 ELSE activeExecutions
    PROVE  SlotAccounting'
<1>1. IsFiniteSet(Holders)
    BY ServerAssumption, FS_Subset DEF Holders
<1>2. CASE pc[r] \in Holding /\ to \in Holding
  <2>1. Holders' = Holders
      BY <1>2 DEF Holders, TypeOK
  <2> QED BY <2>1, <1>2 DEF SlotAccounting
<1>3. CASE pc[r] \in Holding /\ to \notin Holding
  <2>1. Holders' = Holders \ {r} /\ r \in Holders
      BY <1>3 DEF Holders, TypeOK
  <2>2. Cardinality(Holders') = Cardinality(Holders) - 1
      BY <2>1, <1>1, FS_RemoveElement
  <2> QED BY <2>2, <1>3 DEF SlotAccounting
<1>4. CASE pc[r] \notin Holding /\ to \in Holding
  <2>1. Holders' = Holders \cup {r} /\ r \notin Holders
      BY <1>4 DEF Holders, TypeOK
  <2>2. Cardinality(Holders') = Cardinality(Holders) + 1
      BY <2>1, <1>1, FS_AddElement
  <2> QED BY <2>2, <1>4 DEF SlotAccounting
<1>5. CASE pc[r] \notin Holding /\ to \notin Holding
  <2>1. Holders' = Holders
      BY <1>5 DEF Holders, TypeOK
  <2> QED BY <2>1, <1>5 DEF SlotAccounting
<1> QED BY <1>2, <1>3, <1>4, <1>5

\* A child exists only inside its handler's wait.  (Also needed: a handler
\* parked after mkdtemp has its directory.)
Anchored ==
    \A r \in Requests :
        /\ child[r] = "alive" => pc[r] = "run"
        /\ tempDir[r] = "exists" <=> pc[r] \in Holding \ {"mkdtemp"}

\* A pending 'close' means that the client left.
CloseMeansGone == \A r \in Requests : closeEvt[r] = "pending" => ~connected[r]

\* Once the timeout has fired, the child was signalled or was already gone,
\* and no child is spawned later on the same request.
EscalationIsLate ==
    \A r \in Requests :
        /\ child[r] = "none" \/ pc[r] \in {"run", "cleanup", "done"}
        /\ timer[r] = "armed" => child[r] # "none"
        /\ escalation[r] = "armed" => child[r] # "none" /\ (killed[r] \/ child[r] # "alive")

IInv == TypeOK /\ SlotAccounting /\ Anchored /\ CloseMeansGone /\ EscalationIsLate

\* Every step changes the counter exactly as it changes the number of holders.
LEMMA NextSlots == IInv /\ [Next]_vars => SlotAccounting'
<1> SUFFICES ASSUME IInv, [Next]_vars PROVE SlotAccounting'
    OBVIOUS
<1> USE DEF IInv, vars, reqVars, resVars, procVars, netVars
<1>1. CASE UNCHANGED <<pc, activeExecutions>>
    BY <1>1 DEF SlotAccounting, Holders
<1>2. CASE Next
  <2> PICK r \in Requests :
        \/ Route(r) \/ Refuse(r) \/ Admit(r)
        \/ BodyEnds(r) \/ MkdtempEnds(r) \/ WriteEnds(r) \/ CompileEnds(r)
        \/ ChildOutput(r) \/ ChildExits(r) \/ ChildEnds(r)
        \/ TimeoutFires(r) \/ EscalationFires(r) \/ CloseEvent(r)
        \/ Cleanup(r) \/ Disconnect(r)
      BY <1>2 DEF Next
  <2> DEFINE Move(to) ==
        /\ to \in Steps
        /\ pc' = [pc EXCEPT ![r] = to]
        /\ activeExecutions' =
              IF pc[r] \in Holding
              THEN IF to \in Holding THEN activeExecutions ELSE activeExecutions - 1
              ELSE IF to \in Holding THEN activeExecutions + 1 ELSE activeExecutions
  <2>0. (\E to \in Steps : Move(to)) => SlotAccounting'
      BY HoldersMove
  <2> USE DEF Goto, Steps, Holding
  <2>1. Route(r) \/ Refuse(r) => Move("done")
      BY DEF Route, Refuse
  <2>2. Admit(r) => Move("body")
      BY DEF Admit
  <2>3. BodyFails(r) \/ BodyInvalid(r) => Move("done")
      BY DEF BodyFails, BodyInvalid
  <2>4. BodyValid(r) => Move("mkdtemp")
      BY DEF BodyValid
  <2>5. MkdtempFails(r) => Move("done")
      BY DEF MkdtempFails
  <2>6. Translate(r) => Move("cleanup") \/ Move("write")
    <3>1. Translate(r) => /\ Goto(r, "mkdtemp", "cleanup") \/ Goto(r, "mkdtemp", "write")
                          /\ UNCHANGED activeExecutions
        BY DEF Translate
    <3> QED BY <3>1
  <2>7. WriteFails(r) => Move("cleanup")
      BY DEF WriteFails
  <2>8. WriteDone(r) => Move("compile")
      BY DEF WriteDone
  <2>9. CompileFails(r) \/ SpawnThrows(r) => Move("cleanup")
      BY DEF CompileFails, SpawnThrows
  <2>10. Spawn(r) => Move("run")
      BY DEF Spawn
  <2>11. ChildError(r) \/ ChildClose(r) => Move("cleanup") \/ UNCHANGED <<pc, activeExecutions>>
    <3>1. CASE pc[r] = "run"
        BY <3>1 DEF ChildError, ChildClose, Resolve
    <3>2. CASE pc[r] # "run"
        BY <3>2 DEF ChildError, ChildClose, Resolve, TypeOK
    <3> QED BY <3>1, <3>2
  <2>12. Cleanup(r) => Move("done")
      BY DEF Cleanup
  <2>13. \/ ChildOutput(r) \/ ChildExits(r) \/ TimeoutFires(r) \/ EscalationFires(r)
         \/ CloseEvent(r) \/ Disconnect(r)
         => UNCHANGED <<pc, activeExecutions>>
      BY DEF ChildOutput, ChildExits, TimeoutFires, EscalationFires, CloseEvent, Disconnect
  <2> HIDE DEF Move
  <2> QED BY <1>1, <2>0, <2>1, <2>2, <2>3, <2>4, <2>5, <2>6, <2>7, <2>8, <2>9, <2>10,
             <2>11, <2>12, <2>13
          DEF BodyEnds, MkdtempEnds, WriteEnds, CompileEnds, ChildEnds, KilledChildDies
<1> QED BY <1>1, <1>2

\* The parts of the invariant that tie a handler's step, its child, its
\* directory, its timers and its client's presence together.
LEMMA NextTies == IInv /\ [Next]_vars => Anchored' /\ CloseMeansGone' /\ EscalationIsLate'
<1> SUFFICES ASSUME IInv, [Next]_vars
             PROVE  Anchored' /\ CloseMeansGone' /\ EscalationIsLate'
    OBVIOUS
<1> USE DEF IInv, vars, reqVars, resVars, procVars, netVars,
            TypeOK, Anchored, CloseMeansGone, EscalationIsLate
<1>1. CASE UNCHANGED vars
    BY <1>1
<1>2. CASE Next
  <2> PICK r \in Requests :
        \/ Route(r) \/ Refuse(r) \/ Admit(r)
        \/ BodyEnds(r) \/ MkdtempEnds(r) \/ WriteEnds(r) \/ CompileEnds(r)
        \/ ChildOutput(r) \/ ChildExits(r) \/ ChildEnds(r)
        \/ TimeoutFires(r) \/ EscalationFires(r) \/ CloseEvent(r)
        \/ Cleanup(r) \/ Disconnect(r)
      BY <1>2 DEF Next
  <2> USE DEF Goto, Steps, Holding
  <2>1. CASE Route(r)
      BY <2>1 DEF Route
  <2>2. CASE Refuse(r)
      BY <2>2 DEF Refuse
  <2>3. CASE Admit(r)
      BY <2>3 DEF Admit
  <2>4. CASE BodyFails(r)
      BY <2>4 DEF BodyFails
  <2>5. CASE BodyInvalid(r)
      BY <2>5 DEF BodyInvalid, BodyConsumed
  <2>6. CASE BodyValid(r)
      BY <2>6 DEF BodyValid, BodyConsumed
  <2>7. CASE MkdtempFails(r)
      BY <2>7 DEF MkdtempFails
  <2>8. CASE Translate(r)
    <3>1. \/ Goto(r, "mkdtemp", "cleanup")
          \/ Goto(r, "mkdtemp", "write")
        BY <2>8 DEF Translate
    <3>2. /\ tempDir' = [tempDir EXCEPT ![r] = "exists"]
          /\ UNCHANGED <<procVars, netVars>>
        BY <2>8 DEF Translate
    <3>3. CASE Goto(r, "mkdtemp", "cleanup")
        BY <3>2, <3>3
    <3>4. CASE Goto(r, "mkdtemp", "write")
        BY <3>2, <3>4
    <3> QED BY <3>1, <3>3, <3>4
  <2>9. CASE WriteFails(r)
      BY <2>9 DEF WriteFails
  <2>10. CASE WriteDone(r)
      BY <2>10 DEF WriteDone
  <2>11. CASE CompileFails(r)
      BY <2>11 DEF CompileFails
  <2>12. CASE SpawnThrows(r)
      BY <2>12 DEF SpawnThrows
  <2>13. CASE Spawn(r)
    <3>1. PICK c \in {"alive", "spawn_failed"} : child' = [child EXCEPT ![r] = c]
        BY <2>13, Zenon DEF Spawn
    <3>2. /\ Goto(r, "compile", "run")
          /\ timer' = [timer EXCEPT ![r] = "armed"]
          /\ UNCHANGED <<tempDir, killed, escalation, netVars>>
        BY <2>13 DEF Spawn
    <3>3. Anchored' /\ CloseMeansGone'
        BY <3>1, <3>2
    <3>4. EscalationIsLate'
        BY <3>1, <3>2
    <3> QED BY <3>3, <3>4
  <2>14. CASE ChildOutput(r)
      BY <2>14 DEF ChildOutput
  <2>15. CASE ChildExits(r)
      BY <2>15 DEF ChildExits
  <2>16. CASE ChildError(r)
      BY <2>16 DEF ChildError, StopWatching, Resolve
  <2>17. CASE ChildClose(r)
      BY <2>17 DEF ChildClose, StopWatching, Resolve
  <2>18. CASE TimeoutFires(r)
      BY <2>18 DEF TimeoutFires, Kill
  <2>19. CASE EscalationFires(r)
      BY <2>19 DEF EscalationFires, Kill
  <2>20. CASE CloseEvent(r)
    <3>1. killed' = killed \/ (child[r] = "alive" /\ killed' = [killed EXCEPT ![r] = TRUE])
        BY <2>20 DEF CloseEvent, Kill
    <3>2. Anchored' /\ CloseMeansGone'
        BY <2>20 DEF CloseEvent
    <3>3. \A q \in Requests : killed[q] => killed'[q]
        BY <3>1
    <3>4. UNCHANGED <<pc, child, timer, escalation>>
        BY <2>20 DEF CloseEvent
    <3>5. EscalationIsLate'
        BY <3>3, <3>4
    <3> QED BY <3>2, <3>5
  <2>21. CASE Cleanup(r)
      BY <2>21 DEF Cleanup
  <2>22. CASE Disconnect(r)
      BY <2>22 DEF Disconnect
  <2> HIDE DEF IInv, vars, reqVars, resVars, procVars, netVars, TypeOK, Anchored,
               CloseMeansGone, EscalationIsLate, Goto, Steps, Holding
  <2> QED BY <2>1, <2>2, <2>3, <2>4, <2>5, <2>6, <2>7, <2>8, <2>9, <2>10, <2>11, <2>12,
             <2>13, <2>14, <2>15, <2>16, <2>17, <2>18, <2>19, <2>20, <2>21, <2>22
          DEF BodyEnds, MkdtempEnds, WriteEnds, CompileEnds, ChildEnds, KilledChildDies
<1> QED BY <1>1, <1>2

\* The invariant holds at the start ...
LEMMA InitIInv == Init => IInv
<1> SUFFICES ASSUME Init PROVE IInv
    OBVIOUS
<1>1. TypeOK
    BY InitType
<1>2. Holders = {}
    BY DEF Init, Holders, Holding
<1>3. SlotAccounting
    BY <1>2, FS_EmptySet DEF Init, SlotAccounting
<1>4. Anchored /\ CloseMeansGone /\ EscalationIsLate
    BY DEF Init, Anchored, CloseMeansGone, EscalationIsLate, Holding
<1> QED BY <1>1, <1>3, <1>4 DEF IInv

\* ... every step keeps it ...
LEMMA NextIInv == IInv /\ [Next]_vars => IInv'
BY NextType, NextSlots, NextTies DEF IInv

\* ... and so it holds throughout every run.
LEMMA Inductive == Spec => []IInv
BY InitIInv, NextIInv, PTL DEF Spec

-----------------------------------------------------------------------------
(* The theorems.                                                            *)

\* Every variable keeps its type in every behaviour of the server.
THEOREM TypeCorrect == Spec => []TypeOK
<1>1. IInv => TypeOK
    BY DEF IInv
<1> QED BY <1>1, Inductive, PTL

\* activeExecutions always equals the number of handlers holding a slot, for
\* any number of concurrent requests.
THEOREM SlotsAreCounted == Spec => []SlotAccounting
<1>1. IInv => SlotAccounting
    BY DEF IInv
<1> QED BY <1>1, Inductive, PTL

\* No child process outlives its handler's wait or its working directory.
THEOREM NoOrphans == Spec => [](NoOrphanProcess /\ NoOrphanDirectory)
<1>1. IInv => NoOrphanProcess /\ NoOrphanDirectory
    BY DEF IInv, Anchored, NoOrphanProcess, NoOrphanDirectory, Holding
<1> QED BY <1>1, Inductive, PTL

\* A child is signalled only after its timeout or its client's departure,
\* whichever meaning the request's 'close' event has.
THEOREM KillsHaveCause == Spec => KilledForCause
<1> DEFINE Cause == \A r \in Requests : ~killed[r] /\ killed'[r] => timedOut'[r] \/ ~connected[r]
<1>1. IInv /\ [Next]_vars => [Cause]_vars
  <2> SUFFICES ASSUME IInv, Next PROVE Cause
      OBVIOUS
  <2> PICK r \in Requests :
        \/ Route(r) \/ Refuse(r) \/ Admit(r)
        \/ BodyEnds(r) \/ MkdtempEnds(r) \/ WriteEnds(r) \/ CompileEnds(r)
        \/ ChildOutput(r) \/ ChildExits(r) \/ ChildEnds(r)
        \/ TimeoutFires(r) \/ EscalationFires(r) \/ CloseEvent(r)
        \/ Cleanup(r) \/ Disconnect(r)
      BY DEF Next
  <2> USE DEF IInv, TypeOK, procVars
  <2>1. CASE TimeoutFires(r)
      BY <2>1 DEF TimeoutFires, Kill
  <2>2. CASE EscalationFires(r)
      BY <2>2 DEF EscalationFires, Kill, EscalationIsLate
  <2>3. CASE CloseEvent(r)
      BY <2>3 DEF CloseEvent, Kill, CloseMeansGone
  <2>4. CASE UNCHANGED killed
      BY <2>4
  <2>5. \/ UNCHANGED killed \/ TimeoutFires(r) \/ EscalationFires(r) \/ CloseEvent(r)
      BY DEF Route, Refuse, Admit, BodyEnds, BodyFails, BodyInvalid, BodyValid,
             MkdtempEnds, MkdtempFails, Translate, WriteEnds, WriteFails, WriteDone,
             CompileEnds, CompileFails, Spawn, SpawnThrows, ChildOutput, ChildExits,
             ChildEnds, KilledChildDies, ChildError, ChildClose, Cleanup, Disconnect
  <2> QED BY <2>1, <2>2, <2>3, <2>4, <2>5
<1>2. Spec => [][Cause]_vars
    BY <1>1, Inductive, PTL DEF Spec
<1> QED BY <1>2 DEF KilledForCause

\* The SIGKILL escalation is dead code.
THEOREM EscalationIsDead == Spec => SigkillNeverSent
<1> DEFINE Inert == \A r \in Requests :
        escalation[r] = "armed" /\ escalation'[r] = "off" => killed'[r] = killed[r]
<1>1. IInv /\ [Next]_vars => [Inert]_vars
  <2> SUFFICES ASSUME IInv, Next PROVE Inert
      OBVIOUS
  <2> PICK r \in Requests :
        \/ Route(r) \/ Refuse(r) \/ Admit(r)
        \/ BodyEnds(r) \/ MkdtempEnds(r) \/ WriteEnds(r) \/ CompileEnds(r)
        \/ ChildOutput(r) \/ ChildExits(r) \/ ChildEnds(r)
        \/ TimeoutFires(r) \/ EscalationFires(r) \/ CloseEvent(r)
        \/ Cleanup(r) \/ Disconnect(r)
      BY DEF Next
  <2> USE DEF IInv, TypeOK, procVars
  <2>1. CASE TimeoutFires(r)
      BY <2>1 DEF TimeoutFires, Kill
  <2>2. CASE EscalationFires(r)
      BY <2>2 DEF EscalationFires, Kill, EscalationIsLate
  <2>3. CASE UNCHANGED escalation
      BY <2>3
  <2>4. UNCHANGED escalation \/ TimeoutFires(r) \/ EscalationFires(r)
      BY DEF Route, Refuse, Admit, BodyEnds, BodyFails, BodyInvalid, BodyValid,
             MkdtempEnds, MkdtempFails, Translate, WriteEnds, WriteFails, WriteDone,
             CompileEnds, CompileFails, Spawn, SpawnThrows, ChildOutput, ChildExits,
             ChildEnds, KilledChildDies, ChildError, ChildClose, CloseEvent, Cleanup,
             Disconnect
  <2> QED BY <2>1, <2>2, <2>3, <2>4
<1>2. Spec => [][Inert]_vars
    BY <1>1, Inductive, PTL DEF Spec
<1> QED BY <1>2 DEF SigkillNeverSent

-----------------------------------------------------------------------------
(* The wire contract.                                                       *)

\* How far a response has come, at each await and in each state of the child:
\* nothing is sent before mkdtemp resolves, nothing between the head and the
\* child's first output, and only what the child tells can end its stream.
FollowsAt(r) ==
    /\ pc[r] \in {"idle", "body", "mkdtemp"} =>
          status[r] = "none" /\ ~ended[r] /\ events[r] = <<>>
    /\ pc[r] \in {"write", "compile"} =>
          status[r] = "stream" /\ ~ended[r] /\ events[r] = <<>>
    /\ child[r] # "none" =>
          status[r] = "stream" /\ (ended[r] <=> child[r] \in {"error_seen", "closed"})

ResponseFollows == \A r \in Requests : FollowsAt(r)

WInv == IInv /\ ResponseFollows

\* The refinement mapping of Protocol, pointwise and as a whole.
AnswerOf(s, e) ==
    CASE s = "none" -> "none"
      [] s = "stream" -> IF e THEN "closed" ELSE "open"
      [] OTHER -> "answered"

Answers == [r \in Requests |-> AnswerOf(status[r], ended[r])]

\* The actions of RunProtocol under that mapping.
LEMMA WireAnswer ==
    ASSUME NEW r \in Requests, Answers[r] = "none", UNCHANGED events,
           Answers' = [Answers EXCEPT ![r] = "answered"]
    PROVE  Protocol!Answer(r)
BY DEF Answers, AnswerOf, Protocol!Answer

LEMMA WireOpen ==
    ASSUME NEW r \in Requests, Answers[r] = "none", UNCHANGED events,
           Answers' = [Answers EXCEPT ![r] = "open"]
    PROVE  Protocol!Open(r)
BY DEF Answers, AnswerOf, Protocol!Open

LEMMA WireFail ==
    ASSUME NEW r \in Requests, events[r] = <<>>,
           Answers' = [Answers EXCEPT ![r] = "closed"],
           \/ /\ Answers[r] = "none"
              /\ events' = [events EXCEPT ![r] = <<"translate_error", "done">>]
           \/ /\ Answers[r] = "open"
              /\ events' = [events EXCEPT ![r] = <<"compile_error", "done">>]
    PROVE  Protocol!Fail(r)
BY DEF Answers, AnswerOf, Protocol!Fail

LEMMA WireEmit ==
    ASSUME NEW r \in Requests, Answers[r] = "open", UNCHANGED Answers,
           NEW e \in {"stdout", "stderr"}, events' = [events EXCEPT ![r] = Append(@, e)]
    PROVE  Protocol!Emit(r)
BY DEF Answers, AnswerOf, Protocol!Emit, Protocol!Output

LEMMA WireFinish ==
    ASSUME NEW r \in Requests, Answers[r] = "open",
           Answers' = [Answers EXCEPT ![r] = "closed"],
           NEW last \in {<<"done">>, <<"stderr", "done">>},
           events' = [events EXCEPT ![r] = @ \o last]
    PROVE  Protocol!Finish(r)
BY DEF Answers, AnswerOf, Protocol!Finish

LEMMA AnswerValues ==
    /\ \A e \in BOOLEAN : AnswerOf("none", e) = "none"
    /\ AnswerOf("stream", FALSE) = "open" /\ AnswerOf("stream", TRUE) = "closed"
    /\ \A s \in Statuses \ {"none", "stream"}, e \in BOOLEAN : AnswerOf(s, e) = "answered"
BY DEF AnswerOf

\* A step that changes the response of r alone changes its reading alone.
LEMMA OneAnswer ==
    ASSUME TypeOK, NEW r \in Requests, NEW s \in Statuses, NEW e \in BOOLEAN,
           status' = [status EXCEPT ![r] = s], ended' = [ended EXCEPT ![r] = e]
    PROVE  /\ s \notin {"none", "stream"} => Answers' = [Answers EXCEPT ![r] = "answered"]
           /\ s = "stream" /\ e => Answers' = [Answers EXCEPT ![r] = "closed"]
           /\ s = "stream" /\ ~e => Answers' = [Answers EXCEPT ![r] = "open"]
<1>1. Answers' = [Answers EXCEPT ![r] = AnswerOf(s, e)]
    BY DEF TypeOK, Answers
<1>2. CASE s = "stream"
  <2>1. AnswerOf(s, e) = IF e THEN "closed" ELSE "open"
      BY <1>2, AnswerValues
  <2> QED BY <1>1, <1>2, <2>1
<1>3. CASE s \notin {"none", "stream"}
  <2>1. AnswerOf(s, e) = "answered"
      BY <1>3, AnswerValues
  <2> QED BY <1>1, <1>3, <2>1
<1>4. CASE s = "none"
    BY <1>4
<1> QED BY <1>2, <1>3, <1>4

\* The three ways in which a handler or its child moves an open stream on.
LEMMA StreamSteps ==
    ASSUME TypeOK, NEW r \in Requests, status[r] = "stream", ~ended[r], UNCHANGED status
    PROVE  /\ events[r] = <<>> /\ Stream(r, <<"compile_error", "done">>, TRUE) => Protocol!Fail(r)
           /\ \A e \in {"stdout", "stderr"} : Stream(r, <<e>>, FALSE) => Protocol!Emit(r)
           /\ \A last \in {<<"done">>, <<"stderr", "done">>} : Stream(r, last, TRUE) => Protocol!Finish(r)
<1>1. Answers[r] = "open"
    BY AnswerValues DEF Answers, TypeOK
<1>2. ended' = [ended EXCEPT ![r] = TRUE] => Answers' = [Answers EXCEPT ![r] = "closed"]
  <2>1. status' = [status EXCEPT ![r] = "stream"] /\ "stream" \in Statuses
      BY DEF TypeOK, Statuses
  <2> QED BY <2>1, OneAnswer
<1>3. events[r] \in Seq(EventTypes) /\ ended[r] = FALSE
    BY DEF TypeOK
<1>4. ASSUME events[r] = <<>>, Stream(r, <<"compile_error", "done">>, TRUE) PROVE Protocol!Fail(r)
  <2>1. <<>> \o <<"compile_error", "done">> = <<"compile_error", "done">>
      OBVIOUS
  <2>2. /\ events' = [events EXCEPT ![r] = <<"compile_error", "done">>]
        /\ ended' = [ended EXCEPT ![r] = TRUE]
      BY <1>3, <1>4, <2>1 DEF Stream, TypeOK
  <2> QED BY <1>1, <1>2, <1>4, <2>2, WireFail
<1>5. ASSUME NEW e \in {"stdout", "stderr"}, Stream(r, <<e>>, FALSE) PROVE Protocol!Emit(r)
  <2>1. events' = [events EXCEPT ![r] = Append(@, e)]
    <3>1. events[r] \o <<e>> = Append(events[r], e)
        BY <1>3
    <3> QED BY <1>3, <1>5, <3>1 DEF Stream, TypeOK
  <2>2. ended' = ended
      BY <1>3, <1>5 DEF Stream, TypeOK
  <2> QED BY <1>1, <2>1, <2>2, WireEmit DEF Answers
<1>6. ASSUME NEW last \in {<<"done">>, <<"stderr", "done">>}, Stream(r, last, TRUE)
      PROVE  Protocol!Finish(r)
  <2>1. events' = [events EXCEPT ![r] = @ \o last] /\ ended' = [ended EXCEPT ![r] = TRUE]
      BY <1>3, <1>6 DEF Stream, TypeOK
  <2> QED BY <1>1, <1>2, <2>1, WireFinish
<1> QED BY <1>4, <1>5, <1>6

\* The first answer of a handler: a reply in one piece, an open stream, or a
\* stream that its translation closes at once.
LEMMA FirstSteps ==
    ASSUME TypeOK, NEW r \in Requests, status[r] = "none", ~ended[r], events[r] = <<>>
    PROVE  /\ \A s \in Statuses \ {"none", "stream"} : SendJson(r, s) => Protocol!Answer(r)
           /\ status' = [status EXCEPT ![r] = "stream"] /\ Stream(r, <<>>, FALSE) => Protocol!Open(r)
           /\ /\ status' = [status EXCEPT ![r] = "stream"]
              /\ Stream(r, <<"translate_error", "done">>, TRUE)
              => Protocol!Fail(r)
<1>1. Answers[r] = "none" /\ ended[r] = FALSE /\ "stream" \in Statuses
    BY AnswerValues DEF Answers, TypeOK, Statuses
<1>2. ASSUME NEW s \in Statuses \ {"none", "stream"}, SendJson(r, s) PROVE Protocol!Answer(r)
  <2>1. Answers' = [Answers EXCEPT ![r] = "answered"]
      BY <1>2, OneAnswer DEF SendJson
  <2> QED BY <1>1, <1>2, <2>1, WireAnswer DEF SendJson
<1>3. ASSUME status' = [status EXCEPT ![r] = "stream"], Stream(r, <<>>, FALSE)
      PROVE  Protocol!Open(r)
  <2>1. ended' = [ended EXCEPT ![r] = FALSE] /\ UNCHANGED events
    <3>1. <<>> \o <<>> = <<>>
        OBVIOUS
    <3> QED BY <1>1, <1>3, <3>1 DEF Stream, TypeOK
  <2>2. Answers' = [Answers EXCEPT ![r] = "open"]
      BY <1>1, <1>3, <2>1, OneAnswer
  <2> QED BY <1>1, <2>1, <2>2, WireOpen
<1>4. ASSUME status' = [status EXCEPT ![r] = "stream"],
             Stream(r, <<"translate_error", "done">>, TRUE)
      PROVE  Protocol!Fail(r)
  <2>1. <<>> \o <<"translate_error", "done">> = <<"translate_error", "done">>
      OBVIOUS
  <2>2. /\ events' = [events EXCEPT ![r] = <<"translate_error", "done">>]
        /\ ended' = [ended EXCEPT ![r] = TRUE]
      BY <1>1, <1>4, <2>1 DEF Stream, TypeOK
  <2>3. Answers' = [Answers EXCEPT ![r] = "closed"]
      BY <1>1, <1>4, <2>2, OneAnswer
  <2> QED BY <1>1, <2>2, <2>3, WireFail
<1> QED BY <1>2, <1>3, <1>4

\* Every step of the server is a step of the contract or none.
LEMMA NextWire == WInv /\ [Next]_vars => [Protocol!PNext]_Protocol!pvars
<1> DEFINE Quiet == UNCHANGED <<Answers, events>>
<1>0. Protocol!pvars = <<Answers, events>> /\ Protocol!pvars' = <<Answers, events>>'
    BY DEF Protocol!pvars, Answers, AnswerOf
<1> SUFFICES ASSUME WInv, [Next]_vars PROVE Quiet \/ Protocol!PNext
    BY <1>0
<1>1. ASSUME UNCHANGED <<status, events, ended>> PROVE Quiet
    BY <1>1 DEF Answers
<1>2. CASE Next
  <2> PICK r \in Requests :
        \/ Route(r) \/ Refuse(r) \/ Admit(r)
        \/ BodyEnds(r) \/ MkdtempEnds(r) \/ WriteEnds(r) \/ CompileEnds(r)
        \/ ChildOutput(r) \/ ChildExits(r) \/ ChildEnds(r)
        \/ TimeoutFires(r) \/ EscalationFires(r) \/ CloseEvent(r)
        \/ Cleanup(r) \/ Disconnect(r)
      BY <1>2 DEF Next
  <2> DEFINE Wire == Protocol!Answer(r) \/ Protocol!Open(r) \/ Protocol!Fail(r)
                       \/ Protocol!Emit(r) \/ Protocol!Finish(r)
  <2>0. Wire => Protocol!PNext
      BY DEF Protocol!PNext
  <2>1. TypeOK
      BY DEF WInv, IInv
  <2>2. CASE \/ Route(r) \/ Refuse(r) \/ BodyFails(r) \/ BodyInvalid(r) \/ MkdtempFails(r)
    <3>1. status[r] = "none" /\ ~ended[r] /\ events[r] = <<>>
        BY <2>2 DEF WInv, ResponseFollows, FollowsAt, Route, Refuse, BodyFails, BodyInvalid,
                    MkdtempFails, Goto
    <3>2. \E s \in Statuses \ {"none", "stream"} : SendJson(r, s)
        BY <2>2 DEF Route, Refuse, BodyFails, BodyInvalid, MkdtempFails, Statuses
    <3> QED BY <2>0, <2>1, <3>1, <3>2, FirstSteps
  <2>3. CASE Translate(r)
    <3>1. status[r] = "none" /\ ~ended[r] /\ events[r] = <<>>
        BY <2>3 DEF WInv, ResponseFollows, FollowsAt, Translate, Goto
    <3>2. /\ status' = [status EXCEPT ![r] = "stream"]
          /\ Stream(r, <<>>, FALSE) \/ Stream(r, <<"translate_error", "done">>, TRUE)
        BY <2>3 DEF Translate
    <3> QED BY <2>0, <2>1, <3>1, <3>2, FirstSteps
  <2>4. CASE CompileFails(r)
    <3>1. status[r] = "stream" /\ ~ended[r] /\ events[r] = <<>>
        BY <2>4 DEF WInv, ResponseFollows, FollowsAt, CompileFails, Goto
    <3>2. Stream(r, <<"compile_error", "done">>, TRUE) /\ UNCHANGED status
        BY <2>4 DEF CompileFails
    <3> QED BY <2>0, <2>1, <3>1, <3>2, StreamSteps
  <2>5. CASE ChildOutput(r)
    <3>1. status[r] = "stream" /\ ~ended[r]
        BY <2>5 DEF WInv, ResponseFollows, FollowsAt, ChildOutput
    <3>2. /\ \E e \in {"stdout", "stderr"} : Stream(r, <<e>>, FALSE)
          /\ UNCHANGED status
        BY <2>5 DEF ChildOutput
    <3> QED BY <2>0, <2>1, <3>1, <3>2, StreamSteps
  <2>6. CASE ChildError(r)
    <3>1. status[r] = "stream" /\ ~ended[r]
        BY <2>6 DEF WInv, ResponseFollows, FollowsAt, ChildError
    <3>2. Stream(r, <<"stderr", "done">>, TRUE) /\ UNCHANGED status
        BY <2>6 DEF ChildError
    <3> QED BY <2>0, <2>1, <3>1, <3>2, StreamSteps
  <2>7. CASE ChildClose(r) /\ child[r] = "exited"
    <3>1. status[r] = "stream" /\ ~ended[r]
        BY <2>7 DEF WInv, ResponseFollows, FollowsAt
    <3>2. <<"stderr">> \o <<"done">> = <<"stderr", "done">> /\ <<>> \o <<"done">> = <<"done">>
      <4>1. Append(<<"stderr">>, "done") = <<"stderr">> \o <<"done">>
          OBVIOUS
      <4>2. Append(<<"stderr">>, "done") = <<"stderr", "done">>
        <5> DEFINE a == Append(<<"stderr">>, "done")
                   b == <<"stderr", "done">>
        <5>1. a \in Seq({"stderr", "done"}) /\ b \in Seq({"stderr", "done"})
            OBVIOUS
        <5>2. Len(a) = 2 /\ Len(b) = 2
            OBVIOUS
        <5>3. a[1] = b[1] /\ a[2] = b[2]
            OBVIOUS
        <5>4. \A i \in 1 .. Len(a) : a[i] = b[i]
            BY <5>2, <5>3
        <5> HIDE DEF a, b
        <5>5. a = b
            BY <5>1, <5>2, <5>4, SeqEqual
        <5> QED BY <5>5 DEF a, b
      <4>3. <<>> \o <<"done">> = <<"done">>
          OBVIOUS
      <4> QED BY <4>1, <4>2, <4>3
    <3>3. \E last \in {<<"done">>, <<"stderr", "done">>} : Stream(r, last, TRUE)
        BY <2>7, <3>2 DEF ChildClose
    <3>4. UNCHANGED status
        BY <2>7 DEF ChildClose
    <3> QED BY <2>0, <2>1, <3>1, <3>3, <3>4, StreamSteps
  <2>8. CASE ChildClose(r) /\ child[r] # "exited"
    \* The second "done" of a child that could not be started is not sent.
    <3>1. ended[r] = TRUE
        BY <2>1, <2>8 DEF WInv, ResponseFollows, FollowsAt, ChildClose, TypeOK
    <3>2. UNCHANGED <<status, events, ended>>
        BY <2>1, <2>8, <3>1 DEF ChildClose, Stream, TypeOK
    <3> QED BY <1>1, <3>2
  <2>9. CASE \/ Admit(r) \/ BodyValid(r) \/ WriteFails(r) \/ WriteDone(r) \/ Spawn(r)
             \/ SpawnThrows(r) \/ ChildExits(r) \/ TimeoutFires(r) \/ EscalationFires(r)
             \/ CloseEvent(r) \/ Cleanup(r) \/ Disconnect(r)
    <3>1. UNCHANGED <<status, events, ended>>
        BY <2>9 DEF resVars, Admit, BodyValid, WriteFails, WriteDone, Spawn, SpawnThrows,
                    ChildExits, TimeoutFires, EscalationFires, CloseEvent, Cleanup, Disconnect
    <3> QED BY <1>1, <3>1
  <2> QED BY <2>2, <2>3, <2>4, <2>5, <2>6, <2>7, <2>8, <2>9
          DEF BodyEnds, MkdtempEnds, WriteEnds, CompileEnds, ChildEnds, KilledChildDies
<1> QED BY <1>1, <1>2 DEF vars, resVars

LEMMA StreamEffect ==
    ASSUME TypeOK, NEW r \in Requests, NEW evs, NEW last \in BOOLEAN, Stream(r, evs, last)
    PROVE  /\ \A q \in Requests \ {r} : events'[q] = events[q] /\ ended'[q] = ended[q]
           /\ ended'[r] = (ended[r] \/ last)
BY DEF TypeOK, Stream

\* A handler that starts its child, or leaves before, leaves its response as
\* ResponseFollows says; every later event is the child's.
LEMMA NextResponse == WInv /\ [Next]_vars => ResponseFollows'
<1> SUFFICES ASSUME WInv, [Next]_vars PROVE ResponseFollows'
    OBVIOUS
<1>0. \A r \in Requests, last \in BOOLEAN : \A evs : Stream(r, evs, last) =>
         /\ \A q \in Requests \ {r} : events'[q] = events[q] /\ ended'[q] = ended[q]
         /\ ended'[r] = (ended[r] \/ last)
    BY StreamEffect DEF WInv, IInv
<1> USE DEF WInv, IInv, TypeOK, EscalationIsLate, Anchored, ResponseFollows, FollowsAt, vars,
            reqVars, resVars, procVars, netVars, Goto
<1>1. CASE UNCHANGED vars
    BY <1>1
<1>2. CASE Next
  <2> PICK r \in Requests :
        \/ Route(r) \/ Refuse(r) \/ Admit(r)
        \/ BodyEnds(r) \/ MkdtempEnds(r) \/ WriteEnds(r) \/ CompileEnds(r)
        \/ ChildOutput(r) \/ ChildExits(r) \/ ChildEnds(r)
        \/ TimeoutFires(r) \/ EscalationFires(r) \/ CloseEvent(r)
        \/ Cleanup(r) \/ Disconnect(r)
      BY <1>2 DEF Next
  <2>1. CASE Route(r)
      BY <2>1 DEF Route, SendJson
  <2>2. CASE Refuse(r)
      BY <2>2 DEF Refuse, SendJson
  <2>3. CASE Admit(r)
      BY <2>3 DEF Admit
  <2>4. CASE BodyFails(r)
      BY <2>4 DEF BodyFails, SendJson
  <2>5. CASE BodyInvalid(r)
      BY <2>5 DEF BodyInvalid, SendJson
  <2>6. CASE BodyValid(r)
      BY <2>6 DEF BodyValid
  <2>7. CASE MkdtempFails(r)
      BY <2>7 DEF MkdtempFails, SendJson
  <2>8. CASE Translate(r)
      BY <2>8 DEF Translate, Stream
  <2>9. CASE WriteFails(r)
      BY <2>9 DEF WriteFails
  <2>10. CASE WriteDone(r)
      BY <2>10 DEF WriteDone
  <2>11. CASE CompileFails(r)
    <3>0. Stream(r, <<"compile_error", "done">>, TRUE)
        BY <2>11 DEF CompileFails
    <3>1. \A q \in Requests \ {r} : events'[q] = events[q] /\ ended'[q] = ended[q]
        BY <1>0, <3>0, Zenon
    <3>2. Goto(r, "compile", "cleanup") /\ UNCHANGED <<status, child>>
        BY <2>11 DEF CompileFails
    <3>3. child[r] = "none"
        BY <3>2
    <3>4. ASSUME NEW q \in Requests \ {r} PROVE FollowsAt(q)'
        BY <3>1, <3>2
    <3>5. FollowsAt(r)'
        BY <3>2, <3>3
    <3> QED BY <3>4, <3>5
  <2>12. CASE SpawnThrows(r)
      BY <2>12 DEF SpawnThrows
  <2>13. CASE Spawn(r)
    <3>1. PICK c \in {"alive", "spawn_failed"} : child' = [child EXCEPT ![r] = c]
        BY <2>13, Zenon DEF Spawn
    <3>2. Goto(r, "compile", "run") /\ UNCHANGED <<status, events, ended>>
        BY <2>13 DEF Spawn
    <3>3. status[r] = "stream" /\ ~ended[r]
        BY <3>2
    <3> QED BY <3>1, <3>2, <3>3
  <2>14. CASE ChildOutput(r)
    <3>1. PICK e \in {"stdout", "stderr"} : Stream(r, <<e>>, FALSE)
        BY <2>14 DEF ChildOutput
    <3>2. /\ \A q \in Requests \ {r} : events'[q] = events[q] /\ ended'[q] = ended[q]
          /\ ended'[r] = (ended[r] \/ FALSE)
        BY <1>0, <3>1, Zenon
    <3>3. pc[r] \notin {"idle", "body", "mkdtemp", "write", "compile"}
        BY <2>14 DEF ChildOutput
    <3>4. UNCHANGED <<pc, status, child>>
        BY <2>14 DEF ChildOutput
    <3>5. ended'[r] <=> ended[r]
        BY <3>2
    <3>6. ASSUME NEW q \in Requests \ {r} PROVE FollowsAt(q)'
        BY <3>2, <3>4
    <3>7. FollowsAt(r)'
        BY <3>3, <3>4, <3>5
    <3> QED BY <3>6, <3>7
  <2>15. CASE ChildExits(r)
      BY <2>15 DEF ChildExits
  <2>16. CASE ChildError(r)
    <3>1. /\ \A q \in Requests \ {r} : events'[q] = events[q] /\ ended'[q] = ended[q]
          /\ ended'[r] = TRUE
        BY <1>0, <2>16 DEF ChildError
    <3>2. pc[r] \notin {"idle", "body", "mkdtemp", "write", "compile"} /\ status[r] = "stream"
        BY <2>16 DEF ChildError
    <3>3. /\ child' = [child EXCEPT ![r] = "error_seen"]
          /\ pc' = [pc EXCEPT ![r] = IF @ = "run" THEN "cleanup" ELSE @]
          /\ UNCHANGED status
        BY <2>16 DEF ChildError, Resolve
    <3> QED BY <3>1, <3>2, <3>3
  <2>17. CASE ChildClose(r)
    <3>1. /\ \A q \in Requests \ {r} : events'[q] = events[q] /\ ended'[q] = ended[q]
          /\ ended'[r] = TRUE
        BY <1>0, <2>17 DEF ChildClose
    <3>2. pc[r] \notin {"idle", "body", "mkdtemp", "write", "compile"} /\ status[r] = "stream"
        BY <2>17 DEF ChildClose
    <3>3. /\ child' = [child EXCEPT ![r] = "closed"]
          /\ pc' = [pc EXCEPT ![r] = IF @ = "run" THEN "cleanup" ELSE @]
          /\ UNCHANGED status
        BY <2>17 DEF ChildClose, Resolve
    <3> QED BY <3>1, <3>2, <3>3
  <2>18. CASE TimeoutFires(r) \/ EscalationFires(r) \/ CloseEvent(r) \/ Disconnect(r)
    <3>1. UNCHANGED <<pc, status, events, ended, child>>
        BY <2>18 DEF TimeoutFires, EscalationFires, CloseEvent, Disconnect
    <3> QED BY <3>1
  <2>19. CASE Cleanup(r)
      BY <2>19 DEF Cleanup
  <2> HIDE DEF WInv, IInv, TypeOK, EscalationIsLate, Anchored, ResponseFollows, FollowsAt, vars,
               reqVars, resVars, procVars, netVars, Goto
  <2> QED BY <2>1, <2>2, <2>3, <2>4, <2>5, <2>6, <2>7, <2>8, <2>9, <2>10, <2>11, <2>12,
             <2>13, <2>14, <2>15, <2>16, <2>17, <2>18, <2>19
          DEF BodyEnds, MkdtempEnds, WriteEnds, CompileEnds, ChildEnds, KilledChildDies
<1> QED BY <1>1, <1>2

LEMMA Contract == Spec => []WInv
<1>1. Init => WInv
  <2>1. Init => ResponseFollows
      BY DEF Init, ResponseFollows, FollowsAt
  <2> QED BY <2>1, InitIInv DEF WInv
<1>2. WInv /\ [Next]_vars => WInv'
    BY NextIInv, NextResponse DEF WInv
<1> QED BY <1>1, <1>2, PTL DEF Spec

\* The server keeps its wire contract, for any number of requests, any cap, any
\* length of output and either meaning of 'close': it implements RunProtocol
\* under the mapping Protocol.
THEOREM Implements == Spec => ImplementsProtocol
<1>1. Init => Protocol!PInit
  <2> SUFFICES ASSUME Init PROVE Protocol!PInit
      OBVIOUS
  <2>1. Answers = [r \in Requests |-> "none"]
      BY AnswerValues DEF Init, Answers
  <2> QED BY <2>1 DEF Init, Protocol!PInit, Answers, AnswerOf
<1> QED BY <1>1, Contract, NextWire, PTL DEF Spec, ImplementsProtocol, Protocol!PSpec

\* Nothing is written behind the end of a response but the second "done" of a
\* child that could not be started.
THEOREM LateWrites == Spec => LateWritesAreSpawnErrors
<1> DEFINE Late == \A r \in Requests : ~lateWrite[r] /\ lateWrite'[r] => child[r] = "error_seen"
<1>1. WInv /\ [Next]_vars => [Late]_vars
  <2> SUFFICES ASSUME WInv, Next PROVE Late
      OBVIOUS
  <2> PICK r \in Requests :
        \/ Route(r) \/ Refuse(r) \/ Admit(r)
        \/ BodyEnds(r) \/ MkdtempEnds(r) \/ WriteEnds(r) \/ CompileEnds(r)
        \/ ChildOutput(r) \/ ChildExits(r) \/ ChildEnds(r)
        \/ TimeoutFires(r) \/ EscalationFires(r) \/ CloseEvent(r)
        \/ Cleanup(r) \/ Disconnect(r)
      BY DEF Next
  <2> USE DEF WInv, IInv, TypeOK
  <2>1. ASSUME NEW evs, NEW last, Stream(r, evs, last), ~ended[r] PROVE Late
      BY <2>1 DEF Stream
  <2>2. CASE Translate(r)
    <3>1. ~ended[r]
        BY <2>2 DEF Translate, Goto, ResponseFollows, FollowsAt
    <3>2. \E evs, last : Stream(r, evs, last)
        BY <2>2 DEF Translate
    <3> QED BY <2>1, <3>1, <3>2
  <2>3. CASE CompileFails(r)
    <3>1. ~ended[r]
        BY <2>3 DEF CompileFails, Goto, ResponseFollows, FollowsAt
    <3> QED BY <2>1, <2>3, <3>1 DEF CompileFails
  <2>4. CASE ChildOutput(r)
    <3>1. ~ended[r]
        BY <2>4 DEF ChildOutput, ResponseFollows, FollowsAt
    <3> QED BY <2>1, <2>4, <3>1 DEF ChildOutput
  <2>5. CASE ChildError(r)
    <3>1. ~ended[r]
        BY <2>5 DEF ChildError, ResponseFollows, FollowsAt
    <3> QED BY <2>1, <2>5, <3>1 DEF ChildError
  <2>6. CASE ChildClose(r)
    <3>1. CASE child[r] = "error_seen"
      <4>1. \A q \in Requests \ {r} : lateWrite'[q] = lateWrite[q]
          BY <2>6 DEF ChildClose, Stream
      <4> QED BY <3>1, <4>1
    <3>2. CASE child[r] = "exited"
      <4>1. ~ended[r]
          BY <3>2 DEF ResponseFollows, FollowsAt
      <4> QED BY <2>1, <2>6, <4>1 DEF ChildClose
    <3> QED BY <2>6, <3>1, <3>2 DEF ChildClose
  <2>7. CASE UNCHANGED lateWrite
      BY <2>7
  <2>8. \/ UNCHANGED lateWrite \/ Translate(r) \/ CompileFails(r) \/ ChildOutput(r)
        \/ ChildError(r) \/ ChildClose(r)
      BY DEF resVars, Route, Refuse, Admit, BodyEnds, BodyFails, BodyInvalid, BodyValid,
             SendJson, MkdtempEnds, MkdtempFails, WriteEnds, WriteFails, WriteDone,
             CompileEnds, Spawn, SpawnThrows, ChildExits, ChildEnds, KilledChildDies,
             TimeoutFires, EscalationFires, CloseEvent, Cleanup, Disconnect
  <2> QED BY <2>2, <2>3, <2>4, <2>5, <2>6, <2>7, <2>8
<1>2. Spec => [][Late]_vars
    BY <1>1, Contract, PTL DEF Spec
<1> QED BY <1>2 DEF LateWritesAreSpawnErrors
=============================================================================
