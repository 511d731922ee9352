-------------------------- MODULE RunClient_proofs --------------------------
(***************************************************************************)
(* What holds of the IDE's run client for any number of runs, against any  *)
(* server that keeps RunProtocol, any compile service and any program.     *)
(***************************************************************************)
EXTENDS RunClient, SequenceTheorems, TLAPS

\* Where the run stands decides status, abortRef and the worker.
Control == StopReachesTheRun /\ WorkersAreStopped /\ CompilingMeansNetwork

-----------------------------------------------------------------------------
(* Type correctness.                                                        *)

\* The events of one call of onEvent make well-typed lines.
LEMMA LinesType ==
    ASSUME NEW r \in Runs, NEW evs \in Seq(Events), evs # <<>>
    PROVE  Lines(r, evs) \in Seq([run : Runs, channel : Channels])
<1> DEFINE n == IF Last(evs) = "done" THEN Len(evs) - 1 ELSE Len(evs)
<1>1. n \in Nat /\ n <= Len(evs)
    BY EmptySeq DEF Last
<1>2. \A i \in 1..n : [run |-> r, channel |-> evs[i]] \in [run : Runs, channel : Channels]
    BY <1>1 DEF Channels
<1> QED BY <1>1, <1>2 DEF Lines

\* A line more is still a console.
LEMMA LineType ==
    ASSUME TypeOK, NEW r \in Runs, NEW channel \in Channels
    PROVE  Append(lines, [run |-> r, channel |-> channel]) \in Seq([run : Runs, channel : Channels])
<1>1. \A S : \A q \in Seq(S), e \in S : Append(q, e) \in Seq(S)
    OBVIOUS
<1>2. [run |-> r, channel |-> channel] \in [run : Runs, channel : Channels]
    OBVIOUS
<1>3. lines \in Seq([run : Runs, channel : Channels])
    BY DEF TypeOK
<1> HIDE DEF TypeOK
<1> QED BY <1>1, <1>2, <1>3

\* So Hear keeps heard and lines well typed.
LEMMA HearType ==
    ASSUME TypeOK, NEW r \in Runs, NEW evs \in Seq(Events), evs # <<>>,
           NEW own \in Seq([run : Runs, channel : Channels]), Hear(r, evs, own)
    PROVE  /\ heard' \in [Runs -> Seq(Events)]
           /\ lines' \in Seq([run : Runs, channel : Channels])
<1>1. Lines(r, evs) \in Seq([run : Runs, channel : Channels])
    BY LinesType
<1>2. heard[r] \o evs \in Seq(Events)
    BY DEF TypeOK
<1>3. \A S : \A p, q \in Seq(S) : p \o q \in Seq(S)
    OBVIOUS
<1>4. lines' \in Seq([run : Runs, channel : Channels])
    BY <1>1, <1>3 DEF TypeOK, Hear
<1> QED BY <1>2, <1>4 DEF TypeOK, Hear

\* What the hook adds about a worker that failed is a line of that run.
LEMMA WasmErrorType ==
    ASSUME NEW r \in Runs, NEW msg
    PROVE  WasmError(r, msg) \in Seq([run : {r}, channel : Channels])
<1> DEFINE l == [run |-> r, channel |-> "info"]
<1>1. l \in [run : {r}, channel : Channels]
    BY DEF Channels
<1> HIDE DEF l
<1>2. <<l>> \in Seq([run : {r}, channel : Channels])
    BY <1>1
<1>3. <<>> \in Seq([run : {r}, channel : Channels])
    OBVIOUS
<1> QED BY <1>2, <1>3 DEF WasmError, l

\* A message of the worker is heard as one or two events.
LEMMA HeardType ==
    ASSUME NEW msg \in Messages
    PROVE  Heard(msg) \in Seq(Events) /\ Heard(msg) # <<>>
<1>1. /\ <<"done">> \in Seq(Events) /\ <<"stderr", "done">> \in Seq(Events)
      /\ \A e \in Server!Output : <<e>> \in Seq(Events)
    BY DEF Events, Server!Output
<1>2. \/ msg \in Server!Output /\ Heard(msg) = <<msg>>
      \/ Heard(msg) = <<"stderr", "done">>
      \/ Heard(msg) = <<"done">>
    BY DEF Heard
<1>3. CASE msg \in Server!Output /\ Heard(msg) = <<msg>>
  <2>1. <<msg>> \in Seq(Events)
      BY <1>1, <1>3
  <2>2. <<msg>> # <<>>
      OBVIOUS
  <2> QED BY <1>3, <2>1, <2>2
<1>4. CASE Heard(msg) = <<"stderr", "done">> \/ Heard(msg) = <<"done">>
  <2>1. <<"stderr", "done">> # <<>> /\ <<"done">> # <<>>
      OBVIOUS
  <2> QED BY <1>1, <1>4, <2>1
<1> QED BY <1>2, <1>3, <1>4

\* Finish keeps its variables well typed.
LEMMA FinishType ==
    ASSUME TypeOK, NEW r \in Runs, NEW next \in Terminal, Finish(r, next)
    PROVE  /\ pc' \in [Runs -> Steps]
           /\ outcome' \in [Runs -> Terminal \cup {"none"}]
           /\ status' \in Busy \cup Terminal \cup {"idle"}
           /\ current' \in Runs \cup {NoRun}
BY DEF TypeOK, Finish, Goto, ClearAbortRef, Steps

\* So does FinishWith.
LEMMA FinishWithType ==
    ASSUME TypeOK, NEW r \in Runs, NEW next \in Terminal, NEW channel \in Channels,
           FinishWith(r, next, channel)
    PROVE  /\ pc' \in [Runs -> Steps]
           /\ outcome' \in [Runs -> Terminal \cup {"none"}]
           /\ status' \in Busy \cup Terminal \cup {"idle"}
           /\ current' \in Runs \cup {NoRun}
           /\ lines' \in Seq([run : Runs, channel : Channels])
           /\ heard' \in [Runs -> Seq(Events)]
<1>1. Finish(r, next) /\ UNCHANGED heard
    BY DEF FinishWith
<1>2. lines' \in Seq([run : Runs, channel : Channels])
    BY DEF TypeOK, FinishWith
<1> QED BY <1>1, <1>2, FinishType DEF TypeOK

\* The hook starts with every variable in its type.
LEMMA InitType == Init => TypeOK
<1> SUFFICES ASSUME Init PROVE TypeOK
    OBVIOUS
<1>1. /\ answer \in [Runs -> {"none", "answered", "open", "closed"}]
      /\ log \in [Runs -> Seq(Events)]
    BY DEF Init, Server!PInit
<1>2. pings \in Seq(Targets) /\ target \in Targets
    BY DEF Init
<1> QED BY <1>1, <1>2 DEF Init, TypeOK, Steps

\* The server's side of an exchange keeps RunProtocol's variables well typed.
LEMMA ServerType ==
    ASSUME TypeOK, NEW r \in Runs, ServerMoves(r)
    PROVE  /\ answer' \in [Runs -> {"none", "answered", "open", "closed"}]
           /\ log' \in [Runs -> Seq(Events)]
<1> USE DEF TypeOK
<1>1. CASE Server!Answer(r) \/ Server!Open(r)
    BY <1>1 DEF Server!Answer, Server!Open
<1>2. CASE Server!Fail(r)
  <2>1. /\ <<"translate_error", "done">> \in Seq(Events)
        /\ <<"compile_error", "done">> \in Seq(Events)
      BY DEF Events, Server!Failure
  <2> QED BY <1>2, <2>1 DEF Server!Fail
<1>3. CASE Server!Finish(r)
  <2>1. /\ <<"done">> \in Seq(Events)
        /\ <<"stderr", "done">> \in Seq(Events)
      BY DEF Events, Server!Output
  <2>2. PICK last \in Seq(Events) : log' = [log EXCEPT ![r] = @ \o last]
      BY <1>3, <2>1 DEF Server!Finish
  <2>3. log[r] \o last \in Seq(Events)
      OBVIOUS
  <2> QED BY <1>3, <2>2, <2>3 DEF Server!Finish
<1>4. CASE Server!Emit(r)
  <2>1. PICK e \in Events : log' = [log EXCEPT ![r] = Append(@, e)]
      BY <1>4 DEF Server!Emit, Events
  <2> QED BY <1>4, <2>1 DEF Server!Emit
<1> QED BY <1>1, <1>2, <1>3, <1>4 DEF ServerMoves

\* No step of the client takes a variable out of its type.
LEMMA NextType == TypeOK /\ [Next]_vars => TypeOK'
<1> SUFFICES ASSUME TypeOK, [Next]_vars PROVE TypeOK'
    OBVIOUS
<1> USE DEF netVars, runVars, wasmVars, uiVars, connVars
<1>t. Terminal = {"success", "error", "aborted", "compile_error"}
    BY DEF Terminal
<1>c. {"info", "compile_error", "translate_error"} \subseteq Channels
    BY DEF Channels, Events, Server!Failure
<1>1. CASE UNCHANGED vars
    BY <1>1 DEF TypeOK, vars
<1>2. ASSUME NEW r \in Runs, StartNative(r) \/ StartWasm(r) \/ TranslateThrows(r) PROVE TypeOK'
  <2>1. pc' \in [Runs -> Steps]
    <3>1. Goto(r, "fetch") \/ Goto(r, "cache") \/ Goto(r, "thrown")
        BY <1>2 DEF StartNative, StartWasm, TranslateThrows
    <3> QED BY <3>1 DEF TypeOK, Goto, Steps, NativeSteps
  <2>2. /\ status' = "running" /\ lines' = <<>> /\ current' = r
        /\ UNCHANGED <<outcome, heard, wasmVars, netVars, aborted, exit, connVars>>
      BY <1>2 DEF StartNative, StartWasm, TranslateThrows, Start
  <2> QED BY <2>1, <2>2 DEF TypeOK, Busy
<1>3. ASSUME NEW r \in Runs, StartWasmFails(r) PROVE TypeOK'
  <2>1. lines' \in Seq([run : Runs, channel : Channels])
      BY <1>3, <1>c DEF StartWasmFails
  <2> QED BY <1>3, <1>t, <2>1, FinishType DEF StartWasmFails, TypeOK
<1>4. ASSUME NEW r \in Runs, FetchRejected(r) \/ ErrBodyEnds(r) \/ StreamRejected(r) PROVE TypeOK'
  <2>1. PICK next \in Terminal : FinishWith(r, next, "info")
      BY <1>4, <1>t DEF FetchRejected, ErrBodyEnds, StreamRejected
  <2> QED BY <1>4, <1>c, <2>1, FinishWithType DEF TypeOK, FetchRejected, ErrBodyEnds, StreamRejected
<1>5. ASSUME NEW r \in Runs, FetchResolved(r) \/ CompileResolved(r) \/ DecodeThrows(r) PROVE TypeOK'
    BY <1>5 DEF TypeOK, FetchResolved, CompileResolved, DecodeThrows, Goto, Steps, NativeSteps, CompileSteps
<1>6. ASSUME NEW r \in Runs, Read(r) PROVE TypeOK'
  <2> DEFINE evs == <<log[r][Len(heard[r]) + 1]>>
  <2>1. Len(heard[r]) + 1 \in DOMAIN log[r]
      BY <1>6 DEF Read, TypeOK
  <2>2. evs \in Seq(Events) /\ evs # <<>>
      BY <2>1 DEF TypeOK
  <2>3. Hear(r, evs, <<>>) /\ <<>> \in Seq([run : Runs, channel : Channels])
      BY <1>6 DEF Read
  <2> HIDE DEF evs
  <2>4. /\ heard' \in [Runs -> Seq(Events)]
        /\ lines' \in Seq([run : Runs, channel : Channels])
      BY <2>2, <2>3, HearType
  <2> QED BY <1>6, <2>4 DEF TypeOK, Read
<1>7. ASSUME NEW r \in Runs, StreamClosed(r) PROVE TypeOK'
  <2>1. PICK next \in Terminal : Finish(r, next)
      BY <1>7, <1>t DEF StreamClosed
  <2> QED BY <1>7, <2>1, FinishType DEF TypeOK, StreamClosed
<1>8. ASSUME NEW r \in Runs, Launch(r), UNCHANGED <<netVars, aborted, exit, connVars>> PROVE TypeOK'
    BY <1>8 DEF TypeOK, Launch, Goto, Steps, Busy
<1>9. ASSUME NEW r \in Runs, Stopped(r), UNCHANGED <<netVars, aborted, exit, connVars>> PROVE TypeOK'
    BY <1>9, <1>t, <1>c, FinishWithType DEF TypeOK, Stopped
<1>10. ASSUME NEW r \in Runs, CacheHit(r) \/ CacheMiss(r) PROVE TypeOK'
  <2>1. CASE CacheHit(r)
      BY <2>1, <1>8, <1>9 DEF CacheHit
  <2>2. CASE CacheMiss(r) /\ aborted[r]
      BY <2>2, <1>9 DEF CacheMiss
  <2>3. CASE CacheMiss(r) /\ ~aborted[r]
    <3>1. lines' \in Seq([run : Runs, channel : Channels])
      <4>1. lines' = Append(lines, [run |-> r, channel |-> "info"])
          BY <2>3 DEF CacheMiss
      <4> QED BY <4>1, <1>c, LineType
    <3>2. pc' \in [Runs -> Steps] /\ status' \in Busy
        BY <2>3 DEF TypeOK, CacheMiss, Goto, Steps, CompileSteps, Busy
    <3> QED BY <2>3, <3>1, <3>2 DEF TypeOK, CacheMiss
  <2> QED BY <1>10, <2>1, <2>2, <2>3
<1>11. ASSUME NEW r \in Runs, CompileRejected(r) \/ CompileBodyFails(r) \/ CompileDiagnosed(r) PROVE TypeOK'
  <2>1. PICK next \in Terminal, channel \in Channels : FinishWith(r, next, channel)
      BY <1>11, <1>t, <1>c DEF CompileRejected, CompileBodyFails, CompileDiagnosed
  <2> QED BY <1>11, <2>1, FinishWithType DEF TypeOK, CompileRejected, CompileBodyFails, CompileDiagnosed
<1>12. ASSUME NEW r \in Runs, CompileBuilt(r) PROVE TypeOK'
    BY <1>12, <1>8 DEF CompileBuilt
<1>13. ASSUME NEW r \in Runs, Deliver(r) PROVE TypeOK'
  <2> DEFINE msg == Head(mailbox[r])
  <2>1. msg \in Messages /\ Tail(mailbox[r]) \in Seq(Messages)
      BY <1>13 DEF Deliver, TypeOK
  <2>2. Heard(msg) \in Seq(Events) /\ Heard(msg) # <<>>
      BY <2>1, HeardType
  <2>3. /\ heard' \in [Runs -> Seq(Events)]
        /\ lines' \in Seq([run : Runs, channel : Channels])
    <3> DEFINE own == WasmError(r, msg)
    <3>1. own \in Seq([run : {r}, channel : Channels])
        BY WasmErrorType
    <3> HIDE DEF own
    <3>2. own \in Seq([run : Runs, channel : Channels])
      <4>1. \A l \in [run : {r}, channel : Channels] : l \in [run : Runs, channel : Channels]
          OBVIOUS
      <4> DEFINE A == [run : {r}, channel : Channels]  B == [run : Runs, channel : Channels]
      <4>2. own \in Seq(A) /\ \A l \in A : l \in B
          BY <3>1, <4>1
      <4> HIDE DEF A, B
      <4>3. own \in Seq(B)
          BY <4>2
      <4> QED BY <4>3 DEF B
    <3>3. Hear(r, Heard(msg), own)
        BY <1>13 DEF Deliver, own
    <3> HIDE DEF msg
    <3> QED BY <2>2, <3>2, <3>3, HearType
  <2>4. CASE UNCHANGED <<pc, outcome, status, current, worker>>
      BY <1>13, <2>1, <2>3, <2>4 DEF Deliver, Terminate, TypeOK
  <2>5. CASE \E next \in Terminal : Finish(r, next) /\ Terminate(r)
    <3>1. mailbox' \in [Runs -> Seq(Messages)] /\ worker' \in [Runs -> {"none", "alive", "returned", "terminated"}]
        BY <2>5 DEF Terminate, TypeOK
    <3> QED BY <1>13, <2>3, <2>5, <3>1, FinishType DEF Deliver, TypeOK
  <2> QED BY <1>13, <1>t, <2>4, <2>5 DEF Deliver
<1>14. ASSUME NEW r \in Runs, ServerMoves(r) PROVE TypeOK'
    BY <1>14, ServerType DEF TypeOK, ServerMoves
<1>15. ASSUME NEW r \in Runs, WorkerPosts(r) PROVE TypeOK'
  <2>1. PICK msg \in Messages :
          /\ mailbox' = [mailbox EXCEPT ![r] = Append(@, msg)]
          /\ worker' \in {[worker EXCEPT ![r] = "returned"], worker}
      BY <1>15 DEF WorkerPosts, Messages
  <2> QED BY <1>15, <2>1 DEF TypeOK, WorkerPosts
<1>16. ASSUME Stop PROVE TypeOK'
  <2>1. current \in Runs
      BY <1>16 DEF Stop, TypeOK
  <2>2. CASE pc[current] = "worker"
    <3>1. Finish(current, "aborted") /\ Terminate(current)
        BY <1>16, <2>2 DEF Stop
    <3>2. heard' \in [Runs -> Seq(Events)]
      <4>1. "done" \in Events
          BY DEF Events
      <4>2. Append(heard[current], "done") \in Seq(Events)
          BY <2>1, <4>1 DEF TypeOK
      <4> QED BY <1>16, <2>1, <2>2, <4>2 DEF Stop, TypeOK
    <3>3. lines' \in Seq([run : Runs, channel : Channels])
      <4>1. lines' = Append(lines, [run |-> current, channel |-> "info"])
          BY <1>16, <2>2 DEF Stop
      <4> QED BY <4>1, <1>c, <2>1, LineType
    <3>4. mailbox' \in [Runs -> Seq(Messages)] /\ worker' \in [Runs -> {"none", "alive", "returned", "terminated"}]
        BY <2>1, <3>1 DEF Terminate, TypeOK
    <3> QED BY <1>16, <1>t, <2>1, <3>1, <3>2, <3>3, <3>4, FinishType DEF Stop, TypeOK
  <2> QED BY <1>16, <2>1, <2>2 DEF Stop, TypeOK
<1>17. ASSUME NEW t \in Targets, CheckConnection(t) PROVE TypeOK'
    BY <1>17 DEF TypeOK, CheckConnection
<1>18. ASSUME NEW i \in 1..MaxPings, PingAnswered(i) PROVE TypeOK'
  <2>1. pings' \in Seq(Targets)
    <3>1. SubSeq(pings, 1, i - 1) \in Seq(Targets) /\ SubSeq(pings, i + 1, Len(pings)) \in Seq(Targets)
        BY <1>18 DEF TypeOK, PingAnswered
    <3> QED BY <1>18, <3>1 DEF PingAnswered, RemoveAt
  <2> QED BY <1>18, <2>1 DEF TypeOK, PingAnswered
<1> QED BY <1>1, <1>2, <1>3, <1>4, <1>5, <1>6, <1>7, <1>10, <1>11, <1>12, <1>13,
           <1>14, <1>15, <1>16, <1>17, <1>18 DEF Next, Settle

\* Every variable keeps its type, for any number of runs.
THEOREM TypeCorrect == Spec => []TypeOK
<1>1. TypeOK /\ [Next]_vars => TypeOK'
    BY NextType
<1> QED BY InitType, <1>1, PTL DEF Spec

-----------------------------------------------------------------------------
(* One run at a time: status, abortRef and workers.                         *)

\* A live run that finishes leaves nothing live behind, if its worker, when it
\* has one, is stopped.
LEMMA FinishControl ==
    ASSUME TypeOK, Control, NEW r \in Runs, Live(r), NEW next \in Terminal, Finish(r, next),
           \/ worker' = [worker EXCEPT ![r] = "terminated"]
           \/ worker' = worker /\ pc[r] # "worker"
    PROVE  Control'
<1>1. pc' = [pc EXCEPT ![r] = "ended"] /\ status' = next /\ current' = NoRun
    BY DEF Finish, Goto, ClearAbortRef
<1>2. \A x \in Runs : ~Live(x)'
    BY <1>1 DEF TypeOK, Control, StopReachesTheRun, Live
<1>3. StopReachesTheRun'
    BY <1>1, <1>2, ClientAssumption DEF StopReachesTheRun, Busy, Terminal
<1>4. WorkersAreStopped'
    BY <1>1 DEF TypeOK, Control, WorkersAreStopped
<1>5. CompilingMeansNetwork'
    BY <1>1, <1>2 DEF CompilingMeansNetwork, CompileSteps, Terminal, Live
<1> QED BY <1>3, <1>4, <1>5 DEF Control

\* Handing a build over to a worker keeps the run the only one.
LEMMA LaunchControl ==
    ASSUME TypeOK, Control, NEW r \in Runs, Live(r), Launch(r)
    PROVE  Control'
<1>1. /\ pc' = [pc EXCEPT ![r] = "worker"] /\ worker' = [worker EXCEPT ![r] = "alive"]
      /\ status' = "running" /\ current' = current
    BY DEF Launch, Goto
<1>2. r = current
    BY DEF Control, StopReachesTheRun
<1>3. \A x \in Runs : Live(x)' <=> x = current
    BY <1>1, <1>2 DEF TypeOK, Control, StopReachesTheRun, Live
<1>4. StopReachesTheRun'
    BY <1>1, <1>2, <1>3, ClientAssumption DEF Control, StopReachesTheRun, Busy
<1>5. WorkersAreStopped'
    BY <1>1 DEF TypeOK, Control, WorkersAreStopped
<1>6. \A x \in Runs : pc'[x] \notin CompileSteps
    BY <1>1, <1>2, <1>3 DEF TypeOK, Live, CompileSteps
<1>7. CompilingMeansNetwork'
    BY <1>1, <1>6 DEF CompilingMeansNetwork
<1> QED BY <1>4, <1>5, <1>7 DEF Control

\* A step inside one leg of a live run changes none of what Control says.
LEMMA MoveControl ==
    ASSUME TypeOK, Control, NEW r \in Runs, Live(r), NEW to \in Steps \ {"idle", "ended", "thrown"},
           Goto(r, to),
           pc[r] # "worker", worker' = worker, current' = current,
           \/ status' = status /\ (to \in CompileSteps <=> pc[r] \in CompileSteps)
           \/ status' = "compiling" /\ to \in CompileSteps
    PROVE  Control'
<1>1. pc' = [pc EXCEPT ![r] = to]
    BY DEF Goto
<1>2. r = current /\ status \in Busy
    BY ClientAssumption DEF Control, StopReachesTheRun
<1>3. \A x \in Runs : Live(x)' <=> Live(x)
    BY <1>1 DEF TypeOK, Live
<1>4. StopReachesTheRun'
    BY <1>2, <1>3 DEF Control, StopReachesTheRun, Busy
<1>5. WorkersAreStopped'
    BY <1>1 DEF TypeOK, Control, WorkersAreStopped
<1>6. \A x \in Runs \ {r} : pc'[x] \notin CompileSteps /\ pc[x] \notin CompileSteps
    BY <1>1, <1>2 DEF TypeOK, Control, StopReachesTheRun, Live, CompileSteps
<1>7. current \in Runs /\ pc'[current] = to /\ pc[r] # "thrown" /\ to # "thrown"
    BY <1>1, <1>2 DEF TypeOK, Live
<1>8. CompilingMeansNetwork'
    BY <1>1, <1>2, <1>6, <1>7 DEF TypeOK, Control, CompilingMeansNetwork
<1> QED BY <1>4, <1>5, <1>8 DEF Control

\* What Control says depends on four variables.
LEMMA SameControl ==
    ASSUME Control, pc' = pc, worker' = worker, status' = status, current' = current
    PROVE  Control'
BY DEF Control, StopReachesTheRun, WorkersAreStopped, CompilingMeansNetwork, Live

\* Nothing is live before the first run.
LEMMA InitControl == Init => Control
BY ClientAssumption DEF Init, Control, StopReachesTheRun, WorkersAreStopped, CompilingMeansNetwork,
   Live, Busy, CompileSteps

\* Every step of the client keeps run, abortRef, status and worker in accord.
LEMMA NextControl == TypeOK /\ Control /\ [Next]_vars => Control'
<1> SUFFICES ASSUME TypeOK, Control, [Next]_vars PROVE Control'
    OBVIOUS
<1> USE DEF netVars, runVars, wasmVars, uiVars, connVars
<1>t. Terminal = {"success", "error", "aborted", "compile_error"}
    BY DEF Terminal
<1>1. CASE UNCHANGED vars
    BY <1>1, SameControl DEF vars
<1>2. ASSUME NEW r \in Runs, StartNative(r) \/ StartWasm(r) \/ TranslateThrows(r) PROVE Control'
  <2>1. /\ pc[r] = "idle" /\ status \notin Busy
        /\ current' = r /\ status' = "running" /\ worker' = worker
        /\ \E to \in {"fetch", "cache", "thrown"} : pc' = [pc EXCEPT ![r] = to]
      BY <1>2 DEF StartNative, StartWasm, TranslateThrows, Start, Goto
  <2>2. \A x \in Runs : ~Live(x)
      BY <2>1, ClientAssumption DEF Control, StopReachesTheRun
  <2>3. /\ \A x \in Runs : (Live(x)' => x = r) /\ pc'[x] \notin CompileSteps
        /\ Live(r)' \/ pc'[r] = "thrown"
      BY <2>1, <2>2 DEF TypeOK, Live, CompileSteps
  <2>4. StopReachesTheRun'
      BY <2>1, <2>3, ClientAssumption DEF StopReachesTheRun, Busy
  <2>5. WorkersAreStopped'
      BY <2>1 DEF TypeOK, Control, WorkersAreStopped
  <2>6. CompilingMeansNetwork'
      BY <2>1, <2>3 DEF CompilingMeansNetwork
  <2> QED BY <2>4, <2>5, <2>6 DEF Control
<1>3. ASSUME NEW r \in Runs, StartWasmFails(r) PROVE Control'
  <2>1. /\ pc[r] = "idle" /\ status \notin Busy
        /\ current' = NoRun /\ status' = "error" /\ worker' = worker
        /\ pc' = [pc EXCEPT ![r] = "ended"]
      BY <1>3 DEF StartWasmFails, Finish, Goto, ClearAbortRef
  <2>2. \A x \in Runs : ~Live(x)' /\ pc'[x] \notin CompileSteps
      BY <2>1, ClientAssumption DEF TypeOK, Control, StopReachesTheRun, Live, CompileSteps
  <2>3. StopReachesTheRun'
      BY <2>1, <2>2, ClientAssumption DEF StopReachesTheRun, Busy
  <2>4. WorkersAreStopped'
      BY <2>1 DEF TypeOK, Control, WorkersAreStopped
  <2>5. CompilingMeansNetwork'
      BY <2>1, <2>2 DEF CompilingMeansNetwork
  <2> QED BY <2>3, <2>4, <2>5 DEF Control
<1>4. ASSUME NEW r \in Runs,
             \/ FetchRejected(r) \/ ErrBodyEnds(r) \/ StreamRejected(r) \/ StreamClosed(r)
             \/ CompileRejected(r) \/ CompileBodyFails(r) \/ CompileDiagnosed(r)
      PROVE Control'
  <2>1. \E next \in Terminal : Finish(r, next)
      BY <1>4, <1>t DEF FetchRejected, ErrBodyEnds, StreamRejected, StreamClosed,
         CompileRejected, CompileBodyFails, CompileDiagnosed, FinishWith
  <2>2. Live(r) /\ pc[r] # "worker" /\ worker' = worker
      BY <1>4 DEF FetchRejected, ErrBodyEnds, StreamRejected, StreamClosed, Drained,
         CompileRejected, CompileBodyFails, CompileDiagnosed, Live
  <2> QED BY <2>1, <2>2, FinishControl
<1>5. ASSUME NEW r \in Runs, FetchResolved(r) \/ CompileResolved(r) PROVE Control'
  <2>1. PICK to \in Steps \ {"idle", "ended", "thrown"} :
          Goto(r, to) /\ (to \in CompileSteps <=> pc[r] \in CompileSteps)
      BY <1>5 DEF FetchResolved, CompileResolved, Steps, NativeSteps, CompileSteps
  <2>2. /\ Live(r) /\ pc[r] # "worker" /\ worker' = worker
        /\ current' = current /\ status' = status
      BY <1>5 DEF FetchResolved, CompileResolved, Live
  <2> QED BY <2>1, <2>2, MoveControl
<1>d. ASSUME NEW r \in Runs, DecodeThrows(r) PROVE Control'
  <2>1. /\ Live(r) /\ pc[r] = "compileBody" /\ pc' = [pc EXCEPT ![r] = "thrown"]
        /\ worker' = worker /\ current' = current /\ status' = status
      BY <1>d DEF DecodeThrows, Live, Goto
  <2>2. r = current /\ status = "compiling"
      BY <2>1 DEF Control, StopReachesTheRun, CompilingMeansNetwork, CompileSteps
  <2>3. \A x \in Runs : ~Live(x)' /\ pc'[x] \notin CompileSteps
      BY <2>1, <2>2 DEF TypeOK, Control, StopReachesTheRun, Live, CompileSteps
  <2>4. pc'[current] = "thrown"
      BY <2>1, <2>2 DEF TypeOK
  <2>5. StopReachesTheRun'
      BY <2>1, <2>3, <2>4 DEF Control, StopReachesTheRun
  <2>6. WorkersAreStopped'
      BY <2>1 DEF TypeOK, Control, WorkersAreStopped
  <2>7. CompilingMeansNetwork'
      BY <2>1, <2>3, <2>4 DEF CompilingMeansNetwork
  <2> QED BY <2>5, <2>6, <2>7 DEF Control
<1>6. ASSUME NEW r \in Runs, Read(r) PROVE Control'
    BY <1>6, SameControl DEF Read
<1>7. ASSUME NEW r \in Runs, CacheHit(r) \/ CacheMiss(r) PROVE Control'
  <2>1. Live(r) /\ pc[r] = "cache"
      BY <1>7 DEF CacheHit, CacheMiss, Live
  <2>2. CASE Stopped(r)
    <3>1. Finish(r, "aborted") /\ worker' = worker
        BY <2>2 DEF Stopped, FinishWith
    <3> QED BY <2>1, <3>1, <1>t, FinishControl
  <2>3. CASE Launch(r)
      BY <2>1, <2>3, LaunchControl
  <2>4. CASE CacheMiss(r) /\ ~aborted[r]
    <3>1. Goto(r, "compile") /\ status' = "compiling" /\ current' = current /\ worker' = worker
        BY <2>4 DEF CacheMiss
    <3>2. "compile" \in CompileSteps /\ "compile" \in Steps \ {"idle", "ended", "thrown"}
        BY DEF CompileSteps, Steps
    <3> QED BY <2>1, <3>1, <3>2, MoveControl
  <2> QED BY <1>7, <2>2, <2>3, <2>4 DEF CacheHit, CacheMiss
<1>8. ASSUME NEW r \in Runs, CompileBuilt(r) PROVE Control'
    BY <1>8, LaunchControl DEF CompileBuilt, Live
<1>9. ASSUME NEW r \in Runs, Deliver(r) PROVE Control'
  <2>1. pc[r] = "worker" /\ Live(r)
      BY <1>9 DEF Deliver, Control, WorkersAreStopped, Live
  <2>2. CASE UNCHANGED <<pc, outcome, status, current, worker>>
      BY <2>2, SameControl
  <2>3. CASE Terminate(r) /\ \E next \in Terminal : Finish(r, next)
      BY <2>1, <2>3, FinishControl DEF Terminate
  <2> QED BY <1>9, <1>t, <2>2, <2>3 DEF Deliver
<1>10. ASSUME NEW r \in Runs, ServerMoves(r) PROVE Control'
    BY <1>10, SameControl DEF ServerMoves
<1>11. ASSUME NEW r \in Runs, WorkerPosts(r) PROVE Control'
  <2>1. /\ pc' = pc /\ status' = status /\ current' = current /\ worker[r] = "alive"
        /\ worker' \in {worker, [worker EXCEPT ![r] = "returned"]}
      BY <1>11 DEF WorkerPosts
  <2>2. WorkersAreStopped'
      BY <2>1 DEF TypeOK, Control, WorkersAreStopped
  <2> QED BY <2>1, <2>2 DEF Control, StopReachesTheRun, CompilingMeansNetwork, Live
<1>12. ASSUME Stop PROVE Control'
  <2>1. current \in Runs
      BY <1>12 DEF Stop, TypeOK
  <2>2. CASE pc[current] = "worker"
      BY <1>12, <1>t, <2>1, <2>2, FinishControl DEF Stop, Terminate, Live
  <2>3. CASE pc[current] # "worker"
      BY <1>12, <2>3, SameControl DEF Stop
  <2> QED BY <2>2, <2>3
<1>13. ASSUME NEW t \in Targets, CheckConnection(t) PROVE Control'
    BY <1>13, SameControl DEF CheckConnection
<1>14. ASSUME NEW i \in 1..MaxPings, PingAnswered(i) PROVE Control'
    BY <1>14, SameControl DEF PingAnswered
<1> QED BY <1>1, <1>2, <1>3, <1>4, <1>5, <1>d, <1>6, <1>7, <1>8, <1>9, <1>10, <1>11, <1>12,
           <1>13, <1>14 DEF Next, Settle

\* TypeOK and Control hold together in every state.
LEMMA ControlHolds == Spec => [](TypeOK /\ Control)
<1>1. Init => TypeOK /\ Control
    BY InitType, InitControl
<1>2. TypeOK /\ Control /\ [Next]_vars => (TypeOK /\ Control)'
    BY NextType, NextControl
<1> QED BY <1>1, <1>2, PTL DEF Spec

\* At most one run is live and Stop reaches it; the button says Stop exactly
\* while abortRef holds a controller, that of the live run or of one that threw.
THEOREM StopHasItsRun == Spec => []StopReachesTheRun
<1>1. TypeOK /\ Control => StopReachesTheRun
    BY DEF Control
<1> QED BY <1>1, ControlHolds, PTL

\* No worker outlives its run.
THEOREM WorkersEnd == Spec => []WorkersAreStopped
<1>1. TypeOK /\ Control => WorkersAreStopped
    BY DEF Control
<1> QED BY <1>1, ControlHolds, PTL

\* "Compiling" is shown during the round trip to the compile service, and
\* otherwise only after a run that has thrown.
THEOREM CompilingIsNetwork == Spec => []CompilingMeansNetwork
<1>1. TypeOK /\ Control => CompilingMeansNetwork
    BY DEF Control
<1> QED BY <1>1, ControlHolds, PTL

-----------------------------------------------------------------------------
(* Who writes to the console.                                               *)

\* lines' is lines and lines of run r, or nothing but lines of run r.
Writes(r) ==
    \E s \in Seq([run : {r}, channel : Channels]) : lines' \in {s, lines \o s}

\* A step that touches the console writes for a run that has not ended.
LEMMA NextWrites ==
    TypeOK /\ Control /\ [Next]_vars
        => lines' = lines \/ \E r \in Runs : pc[r] # "ended" /\ Writes(r)
<1> SUFFICES ASSUME TypeOK, Control, [Next]_vars, lines' # lines
             PROVE  \E r \in Runs : pc[r] # "ended" /\ Writes(r)
    OBVIOUS
<1> USE DEF netVars, runVars, wasmVars, uiVars, connVars
<1>s. lines \in Seq([run : Runs, channel : Channels])
    BY DEF TypeOK
<1>o. \A r \in Runs, channel \in Channels :
        /\ <<[run |-> r, channel |-> channel]>> \in Seq([run : {r}, channel : Channels])
        /\ Append(lines, [run |-> r, channel |-> channel])
              = lines \o <<[run |-> r, channel |-> channel]>>
  <2>1. SUFFICES ASSUME NEW r \in Runs, NEW channel \in Channels
                 PROVE  /\ <<[run |-> r, channel |-> channel]>> \in Seq([run : {r}, channel : Channels])
                        /\ Append(lines, [run |-> r, channel |-> channel])
                              = lines \o <<[run |-> r, channel |-> channel]>>
      OBVIOUS
  <2>2. [run |-> r, channel |-> channel] \in [run : {r}, channel : Channels]
      OBVIOUS
  <2> DEFINE l == [run |-> r, channel |-> channel]
  <2>3. l \in [run : {r}, channel : Channels] /\ l \in [run : Runs, channel : Channels]
      BY <2>2
  <2> HIDE DEF l
  <2>4. <<l>> \in Seq([run : {r}, channel : Channels]) /\ Append(lines, l) = lines \o <<l>>
      BY <2>3, <1>s
  <2> QED BY <2>4 DEF l
<1>w. ASSUME NEW r \in Runs, NEW channel \in Channels,
             \/ lines' = Append(lines, [run |-> r, channel |-> channel])
             \/ lines' = <<[run |-> r, channel |-> channel]>>
      PROVE Writes(r)
  <2> DEFINE s == <<[run |-> r, channel |-> channel]>>
  <2>1. s \in Seq([run : {r}, channel : Channels]) /\ lines' \in {s, lines \o s}
      BY <1>w, <1>o
  <2> HIDE DEF s
  <2> QED BY <2>1 DEF Writes
<1>h. ASSUME NEW r \in Runs, NEW evs \in Seq(Events), evs # <<>>,
             NEW own \in Seq([run : {r}, channel : Channels]), Hear(r, evs, own)
      PROVE Writes(r)
  <2>1. Lines(r, evs) \in Seq([run : {r}, channel : Channels])
    <3> DEFINE n == IF Last(evs) = "done" THEN Len(evs) - 1 ELSE Len(evs)
    <3>1. n \in Nat /\ n <= Len(evs)
        BY <1>h, EmptySeq DEF Last
    <3>2. \A i \in 1..n : [run |-> r, channel |-> evs[i]] \in [run : {r}, channel : Channels]
        BY <1>h, <3>1 DEF Channels
    <3> QED BY <3>1, <3>2 DEF Lines
  <2> DEFINE L == Lines(r, evs)  S == [run : {r}, channel : Channels]
             A == [run : Runs, channel : Channels]
  <2>2. L \in Seq(S) /\ own \in Seq(S) /\ lines \in Seq(A) /\ \A l \in S : l \in A
      BY <1>h, <1>s, <2>1
  <2>3. lines' = lines \o L \o own
      BY <1>h DEF Hear
  <2> HIDE DEF L, S, A
  <2>4. L \o own \in Seq(S)
      BY <2>2
  <2>5. (lines \o L) \o own = lines \o (L \o own)
    <3>1. L \in Seq(A) /\ own \in Seq(A)
        BY <2>2
    <3> QED BY <2>2, <3>1
  <2> DEFINE s == L \o own
  <2>6. s \in Seq(S) /\ lines' = lines \o s
      BY <2>3, <2>4, <2>5
  <2> HIDE DEF s
  <2> QED BY <2>6 DEF Writes, S
<1>c. {"info", "compile_error", "translate_error"} \subseteq Channels
    BY DEF Channels, Events, Server!Failure
<1>0. ~UNCHANGED vars
    BY DEF vars
<1>1. ASSUME NEW r \in Runs, StartNative(r) \/ StartWasm(r) \/ TranslateThrows(r)
      PROVE pc[r] # "ended" /\ Writes(r)
  <2>1. pc[r] = "idle" /\ lines' = <<>>
      BY <1>1 DEF StartNative, StartWasm, TranslateThrows, Start
  <2>2. <<>> \in Seq([run : {r}, channel : Channels])
      OBVIOUS
  <2> QED BY <2>1, <2>2 DEF Writes
<1>2. ASSUME NEW r \in Runs, StartWasmFails(r) PROVE pc[r] # "ended" /\ Writes(r)
    BY <1>2, <1>w, <1>c DEF StartWasmFails
<1>3. ASSUME NEW r \in Runs,
             \/ FetchRejected(r) \/ ErrBodyEnds(r) \/ StreamRejected(r)
             \/ CompileRejected(r) \/ CompileBodyFails(r) \/ CompileDiagnosed(r)
      PROVE pc[r] # "ended" /\ Writes(r)
  <2>1. pc[r] # "ended"
      BY <1>3 DEF FetchRejected, ErrBodyEnds, StreamRejected, CompileRejected,
         CompileBodyFails, CompileDiagnosed
  <2>2. \E channel \in {"info", "compile_error"} :
          lines' = Append(lines, [run |-> r, channel |-> channel])
      BY <1>3 DEF FetchRejected, ErrBodyEnds, StreamRejected, CompileRejected,
         CompileBodyFails, CompileDiagnosed, FinishWith
  <2> QED BY <2>1, <2>2, <1>w, <1>c
<1>4. ASSUME NEW r \in Runs, FetchResolved(r) \/ CompileResolved(r) \/ StreamClosed(r)
             \/ CompileBuilt(r) \/ DecodeThrows(r) \/ ServerMoves(r) \/ WorkerPosts(r)
      PROVE FALSE
    BY <1>4 DEF FetchResolved, CompileResolved, StreamClosed, CompileBuilt, Launch, DecodeThrows,
       ServerMoves, WorkerPosts
<1>5. ASSUME NEW r \in Runs, Read(r) PROVE pc[r] # "ended" /\ Writes(r)
  <2> DEFINE evs == <<log[r][Len(heard[r]) + 1]>>
  <2>1. evs \in Seq(Events) /\ evs # <<>> /\ Hear(r, evs, <<>>) /\ pc[r] = "stream"
      BY <1>5 DEF Read, TypeOK
  <2>2. <<>> \in Seq([run : {r}, channel : Channels])
      OBVIOUS
  <2> HIDE DEF evs
  <2> QED BY <2>1, <2>2, <1>h
<1>6. ASSUME NEW r \in Runs, CacheHit(r) \/ CacheMiss(r) PROVE pc[r] # "ended" /\ Writes(r)
    BY <1>6, <1>w, <1>c DEF CacheHit, CacheMiss, Stopped, FinishWith, Launch
<1>7. ASSUME NEW r \in Runs, Deliver(r) PROVE pc[r] # "ended" /\ Writes(r)
  <2>1. pc[r] = "worker"
      BY <1>7 DEF Deliver, Control, WorkersAreStopped
  <2>2. PICK msg \in Server!Output \cup {"error", "onerror", "done"} :
          Hear(r, Heard(msg), WasmError(r, msg))
      BY <1>7 DEF Deliver, TypeOK, Messages
  <2>3. Heard(msg) \in Seq(Events) /\ Heard(msg) # <<>>
      BY <2>2, HeardType DEF Messages
  <2> QED BY <2>1, <2>2, <2>3, <1>h, WasmErrorType
<1>8. ASSUME Stop PROVE pc[current] # "ended" /\ Writes(current) /\ current \in Runs
    BY <1>8, <1>w, <1>c DEF Stop, TypeOK
<1>9. ASSUME NEW t \in Targets, CheckConnection(t) PROVE FALSE
    BY <1>9 DEF CheckConnection
<1>10. ASSUME NEW i \in 1..MaxPings, PingAnswered(i) PROVE FALSE
    BY <1>10 DEF PingAnswered
<1> QED BY <1>0, <1>1, <1>2, <1>3, <1>4, <1>5, <1>6, <1>7, <1>8, <1>9, <1>10 DEF Next, Settle

\* A line of a run that has ended was there before.
THEOREM EndedRunsAreSilent == Spec => NoStrayLines
<1>1. TypeOK /\ Control /\ [Next]_vars =>
        [\A r \in Runs : pc[r] = "ended" =>
           \A i \in DOMAIN lines' : lines'[i].run = r => i \in DOMAIN lines /\ lines[i] = lines'[i]]_vars
  <2> SUFFICES ASSUME TypeOK, Control, [Next]_vars, NEW r \in Runs, pc[r] = "ended",
                      NEW i \in DOMAIN lines', lines'[i].run = r
               PROVE  i \in DOMAIN lines /\ lines[i] = lines'[i]
      OBVIOUS
  <2>1. lines \in Seq([run : Runs, channel : Channels])
      BY DEF TypeOK
  <2>2. CASE lines' = lines
      BY <2>2
  <2>3. ASSUME NEW x \in Runs, pc[x] # "ended", Writes(x)
        PROVE  i \in DOMAIN lines /\ lines[i] = lines'[i]
    <3>1. x # r
        BY <2>3
    <3>2. PICK s \in Seq([run : {x}, channel : Channels]) : lines' \in {s, lines \o s}
        BY <2>3 DEF Writes
    <3>3. \A j \in DOMAIN s : s[j].run = x
      <4> DEFINE L == [run : {x}, channel : Channels]
      <4>1. \A l \in L : l.run = x
          OBVIOUS
      <4>2. s \in Seq(L)
          BY <3>2
      <4> HIDE DEF L
      <4>3. \A j \in DOMAIN s : s[j] \in L
          BY <4>2
      <4> QED BY <4>1, <4>3
    <3>4. CASE lines' = s
        BY <3>1, <3>3, <3>4
    <3>5. CASE lines' = lines \o s
      <4>1. i \in 1..(Len(lines) + Len(s))
          BY <2>1, <3>2, <3>5
      <4>2. CASE i \in 1..Len(lines)
          BY <2>1, <3>2, <3>5, <4>2
      <4>3. CASE i > Len(lines)
        <5>1. i - Len(lines) \in DOMAIN s /\ lines'[i] = s[i - Len(lines)]
            BY <2>1, <3>2, <3>5, <4>1, <4>3
        <5> QED BY <5>1, <3>1, <3>3
      <4> QED BY <2>1, <4>1, <4>2, <4>3
    <3> QED BY <3>2, <3>4, <3>5
  <2> QED BY <2>2, <2>3, NextWrites
<1> QED BY <1>1, ControlHolds, PTL DEF Spec, NoStrayLines

-----------------------------------------------------------------------------
(* What a success takes.                                                    *)

\* The answer the server gave: a stream is closed by a "done".
ClosedByDone == \A r \in Runs : answer[r] = "closed" => log[r] # <<>> /\ Last(log[r]) = "done"

\* What a run at await p with outcome o, events h, signal a and exit code e is
\* like.  Only a stream brings the failure of a phase, and only the end of a run
\* an outcome.
Plain(h) == \A e \in Server!Failure : \A i \in DOMAIN h : h[i] # e

Honest(p, o, h, a, e) ==
    /\ p \notin {"stream", "ended"} => Plain(h)
    /\ p # "ended" => o = "none"
    /\ o = "success" => h # <<>> /\ Last(h) = "done" /\ e = 0 /\ ~a /\ Plain(h)

Earned ==
    /\ ClosedByDone
    /\ \A r \in Runs : Honest(pc[r], outcome[r], heard[r], aborted[r], exit[r])

\* A step that concerns one run leaves the others as they are.
LEMMA EarnedAt ==
    ASSUME TypeOK, Earned, NEW r \in Runs,
           NEW p, pc' = [pc EXCEPT ![r] = p],
           NEW o, outcome' = [outcome EXCEPT ![r] = o],
           NEW h, heard' = [heard EXCEPT ![r] = h],
           NEW a, aborted' = [aborted EXCEPT ![r] = a],
           exit' = exit, answer' = answer, log' = log,
           Honest(p, o, h, a, exit[r])
    PROVE  Earned'
<1>1. ClosedByDone'
    BY DEF Earned, ClosedByDone
<1>2. ASSUME NEW x \in Runs
      PROVE  Honest(pc'[x], outcome'[x], heard'[x], aborted'[x], exit'[x])
  <2>1. CASE x = r
    <3>1. pc'[x] = p /\ outcome'[x] = o /\ heard'[x] = h /\ aborted'[x] = a
        BY <2>1 DEF TypeOK
    <3> QED BY <2>1, <3>1
  <2>2. CASE x # r
    <3>1. /\ pc'[x] = pc[x] /\ outcome'[x] = outcome[x] /\ heard'[x] = heard[x]
          /\ aborted'[x] = aborted[x]
        BY <2>2 DEF TypeOK
    <3> QED BY <3>1 DEF Earned
  <2> QED BY <2>1, <2>2
<1> QED BY <1>1, <1>2 DEF Earned

\* A run that ends without success and hears nothing needs nothing.
LEMMA EarnedOnFailure ==
    ASSUME TypeOK, Earned, NEW r \in Runs, NEW next \in Terminal \ {"success"}, Finish(r, next),
           UNCHANGED <<answer, log, aborted, exit, heard>>
    PROVE  Earned'
<1>1. /\ pc' = [pc EXCEPT ![r] = "ended"] /\ outcome' = [outcome EXCEPT ![r] = next]
      /\ heard' = [heard EXCEPT ![r] = heard[r]] /\ aborted' = [aborted EXCEPT ![r] = aborted[r]]
    BY DEF TypeOK, Finish, Goto
<1>2. Honest("ended", next, heard[r], aborted[r], exit[r])
    BY DEF Honest
<1> QED BY <1>1, <1>2, EarnedAt

\* Nor does one that goes on to its next await.
LEMMA EarnedOnMove ==
    ASSUME TypeOK, Earned, NEW r \in Runs, NEW to \in Steps \ {"ended"}, Goto(r, to),
           pc[r] \notin {"stream", "ended"},
           UNCHANGED <<answer, log, aborted, exit, heard, outcome>>
    PROVE  Earned'
<1>1. /\ pc' = [pc EXCEPT ![r] = to] /\ outcome' = [outcome EXCEPT ![r] = outcome[r]]
      /\ heard' = [heard EXCEPT ![r] = heard[r]] /\ aborted' = [aborted EXCEPT ![r] = aborted[r]]
    BY DEF TypeOK, Goto
<1>2. Honest(to, outcome[r], heard[r], aborted[r], exit[r])
    BY DEF Honest, Earned
<1> QED BY <1>1, <1>2, EarnedAt

\* Steps that leave the runs and the exchanges alone do nothing to Earned.
LEMMA EarnedStays ==
    ASSUME Earned, UNCHANGED <<answer, log, pc, aborted, outcome, heard, exit>>
    PROVE  Earned'
BY DEF Earned, ClosedByDone

\* At the start nothing has been heard.
LEMMA InitEarned == Init => Earned
<1> SUFFICES ASSUME Init, NEW r \in Runs
             PROVE  /\ answer[r] # "closed"
                    /\ Honest(pc[r], outcome[r], heard[r], aborted[r], exit[r])
    BY DEF Earned, ClosedByDone
<1>1. answer[r] = "none" /\ pc[r] = "idle" /\ outcome[r] = "none" /\ heard[r] = <<>>
    BY DEF Init, Server!PInit
<1> QED BY <1>1 DEF Honest, Plain

\* The server closes a stream with its "done".
LEMMA ServerEarned ==
    ASSUME TypeOK, Earned, NEW r \in Runs, ServerMoves(r)
    PROVE  Earned'
<1> USE DEF netVars, runVars
<1>1. SUFFICES ClosedByDone'
    BY DEF Earned, ServerMoves
<1>2. ASSUME NEW evs \in Seq(Events), evs # <<>>, Last(evs) = "done"
      PROVE  evs # <<>> /\ Last(log[r] \o evs) = "done" /\ log[r] \o evs # <<>>
    BY <1>2, EmptySeq DEF TypeOK, Last
<1>3. \A evs \in {<<"done">>, <<"stderr", "done">>, <<"translate_error", "done">>, <<"compile_error", "done">>} :
        evs \in Seq(Events) /\ evs # <<>> /\ Last(evs) = "done"
  <2>1. \A f \in Events : <<f, "done">> \in Seq(Events) /\ <<f, "done">> # <<>> /\ Last(<<f, "done">>) = "done"
      BY DEF Events, Last
  <2>2. <<"done">> \in Seq(Events) /\ <<"done">> # <<>> /\ Last(<<"done">>) = "done"
      BY DEF Events, Last
  <2>3. "stderr" \in Events /\ "translate_error" \in Events /\ "compile_error" \in Events
      BY DEF Events, Server!Output, Server!Failure
  <2> QED BY <2>1, <2>2, <2>3
<1>4. CASE Server!Answer(r) \/ Server!Open(r)
    BY <1>4 DEF Server!Answer, Server!Open, TypeOK, Earned, ClosedByDone
<1>5. CASE Server!Emit(r)
    BY <1>5 DEF Server!Emit, TypeOK, Earned, ClosedByDone
<1>6. CASE Server!Fail(r)
  <2>1. PICK evs \in {<<"translate_error", "done">>, <<"compile_error", "done">>} :
          log' = [log EXCEPT ![r] = evs]
      BY <1>6 DEF Server!Fail
  <2>2. evs # <<>> /\ Last(evs) = "done" /\ answer' = [answer EXCEPT ![r] = "closed"]
      BY <1>3, <1>6 DEF Server!Fail
  <2> QED BY <2>1, <2>2 DEF TypeOK, Earned, ClosedByDone
<1>7. CASE Server!Finish(r)
  <2>1. PICK last \in {<<"done">>, <<"stderr", "done">>} : log' = [log EXCEPT ![r] = log[r] \o last]
      BY <1>7 DEF Server!Finish
  <2>2. last \in Seq(Events) /\ last # <<>> /\ Last(last) = "done"
      BY <1>3
  <2>3. answer' = [answer EXCEPT ![r] = "closed"]
      BY <1>7 DEF Server!Finish
  <2>4. Last(log[r] \o last) = "done" /\ log[r] \o last # <<>>
      BY <1>2, <2>2
  <2> DEFINE new == log[r] \o last
  <2> HIDE DEF new
  <2>5. log' = [log EXCEPT ![r] = new] /\ Last(new) = "done" /\ new # <<>>
      BY <2>1, <2>4 DEF new
  <2> QED BY <2>3, <2>5 DEF TypeOK, Earned, ClosedByDone
<1> QED BY <1>4, <1>5, <1>6, <1>7 DEF ServerMoves

\* What a worker makes onEvent hear is no failure of a phase, and it is a
\* successful "done" only if it ends that way.
LEMMA HeardPlain ==
    ASSUME NEW msg \in Messages, NEW h \in Seq(Events), Plain(h)
    PROVE  /\ Plain(h \o Heard(msg))
           /\ msg = "done" => h \o Heard(msg) # <<>> /\ Last(h \o Heard(msg)) = "done"
<1> DEFINE evs == Heard(msg)
<1>1. evs \in Seq(Events) /\ evs # <<>>
    BY HeardType
<1>2. Plain(evs)
  <2>1. CASE msg \in Server!Output
    <3>1. evs = <<msg>>
        BY <2>1 DEF Heard, Server!Output
    <3> QED BY <2>1, <3>1 DEF Plain, Server!Output, Server!Failure
  <2>2. CASE msg \in {"error", "onerror"}
    <3>1. evs = <<"stderr", "done">>
        BY <2>2 DEF Heard, Server!Output
    <3> QED BY <3>1 DEF Plain, Server!Failure
  <2>3. CASE msg = "done"
    <3>1. evs = <<"done">>
        BY <2>3 DEF Heard, Server!Output
    <3> QED BY <3>1 DEF Plain, Server!Failure
  <2> QED BY <2>1, <2>2, <2>3 DEF Messages
<1>3. msg = "done" => evs = <<"done">>
    BY DEF Heard, Server!Output
<1> HIDE DEF evs
<1>4. Plain(h \o evs)
  <2>1. SUFFICES ASSUME NEW e \in Server!Failure, NEW i \in DOMAIN (h \o evs)
                 PROVE  (h \o evs)[i] # e
      BY DEF Plain
  <2>2. i \in 1..(Len(h) + Len(evs))
      BY <1>1
  <2>3. CASE i <= Len(h)
      BY <1>1, <2>2, <2>3 DEF Plain
  <2>4. CASE i > Len(h)
    <3>1. i - Len(h) \in DOMAIN evs /\ (h \o evs)[i] = evs[i - Len(h)]
        BY <1>1, <2>2, <2>4
    <3> QED BY <1>2, <3>1 DEF Plain
  <2> QED BY <2>2, <2>3, <2>4
<1>5. msg = "done" => h \o evs # <<>> /\ Last(h \o evs) = "done"
  <2>1. <<"done">> \in Seq(Events) /\ Len(h) \in Nat
      BY DEF Events
  <2>2. Len(h \o <<"done">>) = Len(h) + 1 /\ (h \o <<"done">>)[Len(h) + 1] = "done"
      BY <2>1
  <2>3. h \o <<"done">> \in Seq(Events)
      BY <2>1
  <2> DEFINE q == h \o <<"done">>
  <2>4. q \in Seq(Events) /\ Len(q) = Len(h) + 1 /\ q[Len(h) + 1] = "done"
      BY <2>2, <2>3
  <2> HIDE DEF q
  <2>5. q # <<>> /\ Last(q) = "done"
      BY <2>1, <2>4 DEF Last
  <2> QED BY <1>3, <2>5 DEF q
<1> QED BY <1>4, <1>5 DEF evs

\* No step of the client makes a success that was not earned.
LEMMA NextEarned == TypeOK /\ Control /\ Earned /\ [Next]_vars => Earned'
<1> SUFFICES ASSUME TypeOK, Control, Earned, [Next]_vars PROVE Earned'
    OBVIOUS
<1> USE DEF netVars, runVars, wasmVars, uiVars, connVars
<1>t. {"aborted", "error", "compile_error"} \subseteq Terminal \ {"success"}
    BY DEF Terminal
<1>1. CASE UNCHANGED vars
    BY <1>1, EarnedStays DEF vars
<1>2. ASSUME NEW r \in Runs, StartNative(r) \/ StartWasm(r) \/ TranslateThrows(r) PROVE Earned'
  <2>1. \E to \in Steps \ {"ended"} : Goto(r, to)
      BY <1>2 DEF StartNative, StartWasm, TranslateThrows, Steps, NativeSteps
  <2> QED BY <1>2, <2>1, EarnedOnMove DEF StartNative, StartWasm, TranslateThrows, Start
<1>3. ASSUME NEW r \in Runs,
             \/ StartWasmFails(r) \/ FetchRejected(r) \/ ErrBodyEnds(r) \/ StreamRejected(r)
             \/ CompileRejected(r) \/ CompileBodyFails(r) \/ CompileDiagnosed(r)
      PROVE Earned'
  <2>1. \E next \in {"aborted", "error", "compile_error"} : Finish(r, next)
      BY <1>3 DEF StartWasmFails, FetchRejected, ErrBodyEnds, StreamRejected, CompileRejected,
         CompileBodyFails, CompileDiagnosed, FinishWith
  <2>2. UNCHANGED <<answer, log, aborted, exit, heard>>
      BY <1>3 DEF StartWasmFails, FetchRejected, ErrBodyEnds, StreamRejected, CompileRejected,
         CompileBodyFails, CompileDiagnosed, FinishWith
  <2> QED BY <2>1, <2>2, <1>t, EarnedOnFailure
<1>4. ASSUME NEW r \in Runs, FetchResolved(r) \/ CompileResolved(r) \/ DecodeThrows(r) PROVE Earned'
  <2>1. \E to \in Steps \ {"ended"} : Goto(r, to)
      BY <1>4 DEF FetchResolved, CompileResolved, DecodeThrows, Steps, NativeSteps, CompileSteps
  <2> QED BY <1>4, <2>1, EarnedOnMove DEF FetchResolved, CompileResolved, DecodeThrows
<1>5. ASSUME NEW r \in Runs, Read(r) PROVE Earned'
  <2> DEFINE h == heard[r] \o <<log[r][Len(heard[r]) + 1]>>
  <2>1. /\ pc' = [pc EXCEPT ![r] = "stream"] /\ outcome' = [outcome EXCEPT ![r] = outcome[r]]
        /\ heard' = [heard EXCEPT ![r] = h] /\ aborted' = [aborted EXCEPT ![r] = aborted[r]]
        /\ exit' = exit /\ answer' = answer /\ log' = log /\ pc[r] = "stream"
      BY <1>5 DEF Read, Hear, TypeOK
  <2> HIDE DEF h
  <2>2. Honest("stream", outcome[r], h, aborted[r], exit[r])
      BY <2>1 DEF Earned, Honest
  <2> QED BY <2>1, <2>2, EarnedAt
<1>6. ASSUME NEW r \in Runs, StreamClosed(r) PROVE Earned'
  <2>1. /\ Drained(r) /\ pc' = [pc EXCEPT ![r] = "ended"]
        /\ outcome' = [outcome EXCEPT ![r] = IF Succeeded(r) THEN "success" ELSE "error"]
        /\ heard' = [heard EXCEPT ![r] = heard[r]] /\ aborted' = [aborted EXCEPT ![r] = aborted[r]]
        /\ exit' = exit /\ answer' = answer /\ log' = log
      BY <1>6 DEF StreamClosed, Finish, Goto, TypeOK
  <2>2. ASSUME Succeeded(r) PROVE exit[r] = 0 /\ Plain(heard[r])
    <3>1. Range(log[r]) \cap Server!Failure = {} /\ exit[r] = 0
        BY <2>2 DEF Succeeded, DoneCode
    <3>2. Plain(log[r])
        BY <3>1 DEF Plain, Range
    <3> QED BY <2>1, <3>1, <3>2 DEF Drained
  <2>3. heard[r] # <<>> /\ Last(heard[r]) = "done" /\ ~aborted[r]
      BY <2>1 DEF Drained, Earned, ClosedByDone
  <2>4. Honest("ended", IF Succeeded(r) THEN "success" ELSE "error", heard[r], aborted[r], exit[r])
      BY <2>2, <2>3 DEF Honest
  <2> QED BY <2>1, <2>4, EarnedAt
<1>7. ASSUME NEW r \in Runs, CacheHit(r) \/ CacheMiss(r) PROVE Earned'
  <2>1. CASE Stopped(r)
    <3>1. Finish(r, "aborted") /\ UNCHANGED <<answer, log, aborted, exit, heard>>
        BY <1>7, <2>1 DEF Stopped, FinishWith, CacheHit, CacheMiss
    <3> QED BY <3>1, <1>t, EarnedOnFailure
  <2>2. CASE ~Stopped(r)
    <3>1. /\ \E to \in Steps \ {"ended"} : Goto(r, to)
          /\ pc[r] = "cache" /\ UNCHANGED <<answer, log, aborted, exit, heard, outcome>>
        BY <1>7, <2>2 DEF CacheHit, CacheMiss, Launch, Steps, CompileSteps
    <3> QED BY <3>1, EarnedOnMove
  <2> QED BY <2>1, <2>2
<1>8. ASSUME NEW r \in Runs, CompileBuilt(r) PROVE Earned'
  <2>1. /\ Goto(r, "worker") /\ "worker" \in Steps \ {"ended"}
        /\ pc[r] = "compileBody" /\ UNCHANGED <<answer, log, aborted, exit, heard, outcome>>
      BY <1>8 DEF CompileBuilt, Launch, Steps
  <2> QED BY <2>1, EarnedOnMove
<1>9. ASSUME NEW r \in Runs, Deliver(r) PROVE Earned'
  <2> DEFINE msg == Head(mailbox[r])
  <2> DEFINE h == heard[r] \o Heard(msg)
  <2>1. /\ pc[r] = "worker" /\ ~aborted[r] /\ msg \in Messages /\ heard[r] \in Seq(Events)
        /\ heard' = [heard EXCEPT ![r] = h] /\ aborted' = [aborted EXCEPT ![r] = aborted[r]]
        /\ exit' = exit /\ answer' = answer /\ log' = log
      BY <1>9 DEF Deliver, Hear, TypeOK, Control, WorkersAreStopped
  <2>2. Plain(heard[r]) /\ outcome[r] = "none"
      BY <2>1 DEF Earned, Honest
  <2>3. Plain(h) /\ (msg = "done" => h # <<>> /\ Last(h) = "done")
      BY <2>1, <2>2, HeardPlain
  <2>4. \/ UNCHANGED <<pc, outcome>>
        \/ \E next \in Terminal : /\ Finish(r, next)
                                  /\ next = "success" => msg = "done" /\ exit[r] = 0
      BY <1>9 DEF Deliver, Terminal
  <2> HIDE DEF msg, h
  <2>5. CASE UNCHANGED <<pc, outcome>>
    <3>1. pc' = [pc EXCEPT ![r] = "worker"] /\ outcome' = [outcome EXCEPT ![r] = "none"]
        BY <2>1, <2>2, <2>5 DEF TypeOK
    <3>2. Honest("worker", "none", h, aborted[r], exit[r])
        BY <2>3 DEF Honest
    <3> QED BY <2>1, <3>1, <3>2, EarnedAt
  <2>6. ASSUME NEW next \in Terminal, Finish(r, next), next = "success" => msg = "done" /\ exit[r] = 0
        PROVE  Earned'
    <3>1. pc' = [pc EXCEPT ![r] = "ended"] /\ outcome' = [outcome EXCEPT ![r] = next]
        BY <2>6 DEF Finish, Goto
    <3>2. Honest("ended", next, h, aborted[r], exit[r])
        BY <2>1, <2>3, <2>6 DEF Honest
    <3> QED BY <2>1, <3>1, <3>2, EarnedAt
  <2> QED BY <2>4, <2>5, <2>6
<1>10. ASSUME NEW r \in Runs, ServerMoves(r) PROVE Earned'
    BY <1>10, ServerEarned
<1>11. ASSUME NEW r \in Runs, WorkerPosts(r) PROVE Earned'
    BY <1>11, EarnedStays DEF WorkerPosts
<1>12. ASSUME Stop PROVE Earned'
  <2>1. current \in Runs /\ pc[current] # "ended"
      BY <1>12 DEF Stop, TypeOK, Control, StopReachesTheRun, Live
  <2>2. outcome[current] = "none"
      BY <2>1 DEF Earned, Honest
  <2>3. aborted' = [aborted EXCEPT ![current] = TRUE] /\ exit' = exit /\ answer' = answer /\ log' = log
      BY <1>12 DEF Stop
  <2>4. CASE pc[current] = "worker"
    <3> DEFINE h == Append(heard[current], "done")
    <3>1. /\ pc' = [pc EXCEPT ![current] = "ended"] /\ outcome' = [outcome EXCEPT ![current] = "aborted"]
          /\ heard' = [heard EXCEPT ![current] = h]
        BY <1>12, <2>4 DEF Stop, Finish, Goto
    <3> HIDE DEF h
    <3>2. Honest("ended", "aborted", h, TRUE, exit[current])
        BY DEF Honest
    <3> QED BY <2>1, <2>3, <3>1, <3>2, EarnedAt
  <2>5. CASE pc[current] # "worker"
    <3>1. /\ pc' = [pc EXCEPT ![current] = pc[current]] /\ outcome' = [outcome EXCEPT ![current] = "none"]
          /\ heard' = [heard EXCEPT ![current] = heard[current]]
        BY <1>12, <2>1, <2>2, <2>5 DEF Stop, TypeOK
    <3>2. Honest(pc[current], "none", heard[current], TRUE, exit[current])
        BY <2>1 DEF Honest, Earned
    <3> QED BY <2>1, <2>3, <3>1, <3>2, EarnedAt
  <2> QED BY <2>4, <2>5
<1>13. ASSUME NEW t \in Targets, CheckConnection(t) PROVE Earned'
    BY <1>13, EarnedStays DEF CheckConnection
<1>14. ASSUME NEW i \in 1..MaxPings, PingAnswered(i) PROVE Earned'
    BY <1>14, EarnedStays DEF PingAnswered
<1> QED BY <1>1, <1>2, <1>3, <1>4, <1>5, <1>6, <1>7, <1>8, <1>9, <1>10, <1>11, <1>12,
           <1>13, <1>14 DEF Next, Settle

\* A run is a success only if its last event was a "done" with exit code 0,
\* after no failure of a phase and without a stop.
THEOREM SuccessTakesDone == Spec => []SuccessIsEarned
<1>1. Init => TypeOK /\ Control /\ Earned
    BY InitType, InitControl, InitEarned
<1>2. TypeOK /\ Control /\ Earned /\ [Next]_vars => (TypeOK /\ Control /\ Earned)'
    BY NextType, NextControl, NextEarned
<1>3. Earned => SuccessIsEarned
  <2> SUFFICES ASSUME Earned, NEW r \in Runs, outcome[r] = "success"
               PROVE  /\ heard[r] # <<>> /\ Last(heard[r]) = "done" /\ exit[r] = 0
                      /\ ~aborted[r] /\ Range(heard[r]) \cap Server!Failure = {}
      BY DEF SuccessIsEarned
  <2>1. Honest(pc[r], outcome[r], heard[r], aborted[r], exit[r])
      BY DEF Earned
  <2>2. Plain(heard[r]) => Range(heard[r]) \cap Server!Failure = {}
      BY DEF Plain, Range
  <2> QED BY <2>1, <2>2 DEF Honest
<1> QED BY <1>1, <1>2, <1>3, PTL DEF Spec

=============================================================================
