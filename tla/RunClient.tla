------------------------------ MODULE RunClient ------------------------------
(***************************************************************************)
(* The IDE's side of a run: src/hooks/useRemoteExecution.ts over           *)
(* executeRemoteRun (src/utils/remoteExecution.ts), buildWasm and runWasm  *)
(* (src/utils/wasmExecution.ts).  A run is an asynchronous function; an    *)
(* action is the code between two of its awaits, and pc[r] names the await *)
(* at which run r is parked.  On the other side of the network is a server *)
(* of which only RunProtocol is assumed; on the other side of a worker is  *)
(* a program that may write, end, fail or loop for ever.                   *)
(***************************************************************************)
EXTENDS Naturals, Sequences, FiniteSets, SequencesExt

CONSTANTS
    Runs,       \* the runs the user may start, each once
    NoRun,      \* abortRef is null
    Targets,    \* server addresses (with their passkeys) the settings may name
    Up,         \* those at which a server answers
    MaxChunks,  \* bound: output events of one run (model only)
    MaxPings    \* bound: health checks in flight (model only)

ASSUME ClientAssumption ==
    /\ IsFiniteSet(Runs) /\ NoRun \notin Runs
    /\ Up \subseteq Targets /\ Targets # {}
    /\ MaxChunks \in Nat /\ MaxPings \in Nat \ {0}

VARIABLES
    answer, log,  \* RunProtocol's: what the server sent for each run
    pc,           \* the await at which each run is parked
    aborted,      \* abort.signal.aborted
    outcome,      \* the status a run ended with
    heard,        \* events onEvent was given, by type
    exit,         \* the exit code each program would end with
    worker,       \* the run's Web Worker
    mailbox,      \* messages a worker posted that are not delivered yet
    status, current, lines,    \* React state, with abortRef's run
    target, connection, pings  \* settings, React state, checks in flight

netVars  == <<answer, log>>
runVars  == <<pc, aborted, outcome, heard, exit>>
wasmVars == <<worker, mailbox>>
uiVars   == <<status, current, lines>>
connVars == <<target, connection, pings>>
vars == <<netVars, runVars, wasmVars, uiVars, connVars>>

Server == INSTANCE RunProtocol WITH Requests <- Runs

Busy == {"running", "compiling"}
Terminal == {"success", "error", "aborted", "compile_error"}
NativeSteps == {"fetch", "errBody", "stream"}
CompileSteps == {"compile", "compileErrBody", "compileBody"}
\* A run whose promise was rejected is "thrown": `run` catches nothing, and its
\* caller does not look.
Steps == {"idle", "cache", "worker", "ended", "thrown"} \cup NativeSteps \cup CompileSteps

Init ==
    /\ Server!PInit
    /\ pc = [r \in Runs |-> "idle"]
    /\ aborted = [r \in Runs |-> FALSE]
    /\ outcome = [r \in Runs |-> "none"]
    /\ heard = [r \in Runs |-> <<>>]
    /\ exit \in [Runs -> {0, 1}]
    /\ worker = [r \in Runs |-> "none"]
    /\ mailbox = [r \in Runs |-> <<>>]
    /\ status = "idle" /\ current = NoRun /\ lines = <<>>
    /\ target \in Targets /\ connection = "checking" /\ pings = <<target>>

Goto(r, to) == pc' = [pc EXCEPT ![r] = to]

\* The console lines made of the events of run r; a "done", which comes last
\* if at all, makes none.
Lines(r, evs) ==
    LET shown == IF Last(evs) = "done" THEN Len(evs) - 1 ELSE Len(evs)
    IN [i \in 1..shown |-> [run |-> r, channel |-> evs[i]]]

\* onEvent for each of evs: handleEvent appends lines, and the hook its own.
Hear(r, evs, own) ==
    /\ heard' = [heard EXCEPT ![r] = @ \o evs]
    /\ lines' = lines \o Lines(r, evs) \o own

\* The exit code of the "done" that closes what run r was sent.
DoneCode(r) == IF Range(log[r]) \cap Server!Failure # {} THEN 1 ELSE exit[r]

\* Seeded: `finish` with an abortRef that is never cleared.
ClearAbortRef_Not == current' = current

ClearAbortRef == current' = NoRun

\* finish(next): the run is over.
Finish(r, next) ==
    /\ Goto(r, "ended")
    /\ outcome' = [outcome EXCEPT ![r] = next]
    /\ status' = next
    /\ ClearAbortRef

\* finish, after a line of the hook's own.
FinishWith(r, next, channel) ==
    /\ Finish(r, next)
    /\ lines' = Append(lines, [run |-> r, channel |-> channel])
    /\ UNCHANGED heard

-----------------------------------------------------------------------------
(* The native path. *)

\* `run` looks at the status of the last render.  A click is rendered before the
\* next event, so that status can only be busy for longer than `status` is; then
\* the click does nothing.
Start(r) ==
    /\ pc[r] = "idle"
    /\ status \notin Busy
    /\ current' = r
    /\ UNCHANGED <<netVars, aborted, exit, connVars>>

\* handleRun lets a native run start only when the server was reachable.
StartNative(r) ==
    /\ Start(r)
    /\ connection = "connected"
    /\ Goto(r, "fetch")
    /\ status' = "running" /\ lines' = <<>>
    /\ UNCHANGED <<outcome, heard, wasmVars>>

\* fetch rejects: the signal was aborted, or there is no connection.
FetchRejected(r) ==
    /\ pc[r] = "fetch"
    /\ FinishWith(r, IF aborted[r] THEN "aborted" ELSE "error", "info")
    /\ connection' = IF aborted[r] THEN connection ELSE "disconnected"
    /\ UNCHANGED <<netVars, aborted, exit, wasmVars, target, pings>>

\* fetch resolves: with a stream, or with an answer that is not ok.
FetchResolved(r) ==
    /\ pc[r] = "fetch" /\ ~aborted[r]
    /\ \/ answer[r] \in {"open", "closed"} /\ Goto(r, "stream")
       \/ answer[r] = "answered" /\ Goto(r, "errBody")
    /\ UNCHANGED <<netVars, aborted, outcome, heard, exit, wasmVars, uiVars, connVars>>

\* The body of a refusal has been read, or could not be: both end the run as a
\* transport error, and the signal is not looked at.
ErrBodyEnds(r) ==
    /\ pc[r] = "errBody"
    /\ FinishWith(r, "error", "info")
    /\ connection' = "disconnected"
    /\ UNCHANGED <<netVars, aborted, exit, wasmVars, target, pings>>

\* reader.read resolves with the next event.
Read(r) ==
    /\ pc[r] = "stream" /\ ~aborted[r]
    /\ Len(heard[r]) < Len(log[r])
    /\ Hear(r, <<log[r][Len(heard[r]) + 1]>>, <<>>)
    /\ UNCHANGED <<netVars, pc, aborted, outcome, exit, wasmVars, status, current, connVars>>

Drained(r) == pc[r] = "stream" /\ ~aborted[r] /\ answer[r] = "closed" /\ heard[r] = log[r]

\* Seeded: any "done" counts as a success.
Succeeded_AnyDone(r) == "done" \in Range(heard[r])

\* A "done" with exit code 0 was heard.
Succeeded(r) == "done" \in Range(heard[r]) /\ DoneCode(r) = 0

\* Seeded: the reader goes on until it has seen a success.
StreamClosed_NeedsSuccess(r) ==
    /\ Drained(r) /\ Succeeded(r)
    /\ Finish(r, "success")
    /\ connection' = "connected"
    /\ UNCHANGED <<netVars, aborted, heard, exit, wasmVars, lines, target, pings>>

\* reader.read resolves with done: the result is what the events said.
StreamClosed(r) ==
    /\ Drained(r)
    /\ Finish(r, IF Succeeded(r) THEN "success" ELSE "error")
    /\ connection' = "connected"
    /\ UNCHANGED <<netVars, aborted, heard, exit, wasmVars, lines, target, pings>>

\* reader.read rejects: the signal was aborted, or the connection broke.
StreamRejected(r) ==
    /\ pc[r] = "stream"
    /\ FinishWith(r, IF aborted[r] THEN "aborted" ELSE "error", "info")
    /\ connection' = IF aborted[r] THEN connection ELSE "disconnected"
    /\ UNCHANGED <<netVars, aborted, exit, wasmVars, target, pings>>

-----------------------------------------------------------------------------
(* The wasm path. *)

\* buildWasm translates before its first await, the digest of the cache key.
StartWasm(r) ==
    /\ Start(r)
    /\ Goto(r, "cache")
    /\ status' = "running" /\ lines' = <<>>
    /\ UNCHANGED <<outcome, heard, wasmVars>>

\* A program that does not translate ends its run at once.
StartWasmFails(r) ==
    /\ pc[r] = "idle" /\ status \notin Busy
    /\ Finish(r, "error")
    /\ lines' = <<[run |-> r, channel |-> "translate_error"]>>
    /\ UNCHANGED <<netVars, aborted, heard, exit, wasmVars, connVars>>

\* translateProject throws an internal error on: the status and abortRef stay.
TranslateThrows(r) ==
    /\ Start(r)
    /\ Goto(r, "thrown")
    /\ status' = "running" /\ lines' = <<>>
    /\ UNCHANGED <<outcome, heard, wasmVars>>

\* runWasm spawns its worker, and the pill says "running" again.
Launch(r) ==
    /\ Goto(r, "worker")
    /\ worker' = [worker EXCEPT ![r] = "alive"]
    /\ status' = "running"
    /\ UNCHANGED <<outcome, heard, current, lines, mailbox>>

Stopped(r) == FinishWith(r, "aborted", "info") /\ UNCHANGED wasmVars

\* The cache hits: runWasm looks at the signal before it spawns its worker.
CacheHit(r) ==
    /\ pc[r] = "cache"
    /\ IF aborted[r] THEN Stopped(r) ELSE Launch(r)
    /\ UNCHANGED <<netVars, aborted, exit, connVars>>

\* The cache misses: unless stopped, onCompileStart and the fetch.
CacheMiss(r) ==
    /\ pc[r] = "cache"
    /\ IF aborted[r]
       THEN Stopped(r)
       ELSE /\ Goto(r, "compile")
            /\ status' = "compiling"
            /\ lines' = Append(lines, [run |-> r, channel |-> "info"])
            /\ UNCHANGED <<outcome, heard, current, wasmVars>>
    /\ UNCHANGED <<netVars, aborted, exit, connVars>>

CompileRejected(r) ==
    /\ pc[r] = "compile"
    /\ FinishWith(r, IF aborted[r] THEN "aborted" ELSE "error", "info")
    /\ UNCHANGED <<netVars, aborted, exit, wasmVars, connVars>>

CompileResolved(r) ==
    /\ pc[r] = "compile" /\ ~aborted[r]
    /\ Goto(r, "compileBody") \/ Goto(r, "compileErrBody")
    /\ UNCHANGED <<netVars, aborted, outcome, heard, exit, wasmVars, uiVars, connVars>>

\* The body could not be read or is no build, or the answer was not ok: a
\* transport error, and the signal is not looked at.
CompileBodyFails(r) ==
    /\ pc[r] \in {"compileErrBody", "compileBody"}
    /\ FinishWith(r, "error", "info")
    /\ UNCHANGED <<netVars, aborted, exit, wasmVars, connVars>>

CompileDiagnosed(r) ==
    /\ pc[r] = "compileBody" /\ ~aborted[r]
    /\ FinishWith(r, "compile_error", "compile_error")
    /\ UNCHANGED <<netVars, aborted, exit, wasmVars, connVars>>

CompileBuilt(r) ==
    /\ pc[r] = "compileBody" /\ ~aborted[r]
    /\ Launch(r)
    /\ UNCHANGED <<netVars, aborted, exit, connVars>>

\* The service's answer names a build that is no base64: atob throws.
DecodeThrows(r) ==
    /\ pc[r] = "compileBody" /\ ~aborted[r]
    /\ Goto(r, "thrown")
    /\ UNCHANGED <<netVars, aborted, outcome, heard, exit, wasmVars, uiVars, connVars>>

\* Seeded: the worker is left to itself.
Terminate_Not(r) == UNCHANGED wasmVars

\* worker.terminate(): what it has posted is dropped with it.
Terminate(r) ==
    /\ worker' = [worker EXCEPT ![r] = "terminated"]
    /\ mailbox' = [mailbox EXCEPT ![r] = <<>>]

\* What one message of the worker makes onEvent hear.
Heard(msg) ==
    CASE msg \in Server!Output -> <<msg>>
      [] msg \in {"error", "onerror"} -> <<"stderr", "done">>
      [] OTHER -> <<"done">>

\* The hook's line about a worker that failed.
WasmError(r, msg) ==
    IF msg \in {"error", "onerror"} /\ pc[r] = "worker"
    THEN <<[run |-> r, channel |-> "info"]>> ELSE <<>>

\* worker.onmessage and worker.onerror: output is passed on, anything else
\* settles the promise, once.
Deliver(r) ==
    /\ worker[r] \in {"alive", "returned"} /\ mailbox[r] # <<>>
    /\ ~aborted[r]
    /\ LET msg == Head(mailbox[r]) IN
       /\ Hear(r, Heard(msg), WasmError(r, msg))
       /\ IF msg \in Server!Output \/ pc[r] # "worker"
          THEN /\ mailbox' = [mailbox EXCEPT ![r] = Tail(@)]
               /\ UNCHANGED <<pc, outcome, status, current, worker>>
          ELSE /\ Finish(r, IF msg = "done" /\ exit[r] = 0 THEN "success" ELSE "error")
               /\ Terminate(r)
    /\ UNCHANGED <<netVars, aborted, exit, connVars>>

\* Seeded: the signal is only marked: runWasm has no abort listener.
Stop_NoListener ==
    /\ current # NoRun /\ status \in Busy
    /\ ~aborted[current]
    /\ aborted' = [aborted EXCEPT ![current] = TRUE]
    /\ UNCHANGED <<netVars, pc, outcome, heard, exit, wasmVars, uiVars, connVars>>

\* The Stop button.  A run that awaits its worker is ended by runWasm's abort
\* listener; any other run by the promise it awaits; one that has thrown by none.
Stop ==
    /\ current # NoRun /\ status \in Busy
    /\ ~aborted[current]
    /\ aborted' = [aborted EXCEPT ![current] = TRUE]
    /\ IF pc[current] = "worker"
       THEN /\ Finish(current, "aborted")
            /\ heard' = [heard EXCEPT ![current] = Append(@, "done")]
            /\ lines' = Append(lines, [run |-> current, channel |-> "info"])
            /\ Terminate(current)
       ELSE UNCHANGED <<pc, outcome, heard, wasmVars, uiVars>>
    /\ UNCHANGED <<netVars, exit, connVars>>

-----------------------------------------------------------------------------
(* The connection indicator. *)

\* checkConnection, on mount and when the settings dialog is saved.
CheckConnection(t) ==
    /\ Len(pings) < MaxPings
    /\ target' = t
    /\ connection' = "checking"
    /\ pings' = Append(pings, t)
    /\ UNCHANGED <<netVars, runVars, wasmVars, uiVars>>

\* Checks answer in any order.
PingAnswered(i) ==
    /\ i \in DOMAIN pings
    /\ connection' = IF pings[i] \in Up THEN "connected" ELSE "disconnected"
    /\ pings' = RemoveAt(pings, i)
    /\ UNCHANGED <<netVars, runVars, wasmVars, uiVars, target>>

-----------------------------------------------------------------------------
(* The server and the program. *)

\* The server's side of an exchange, as long as somebody reads it.
ServerMoves(r) ==
    /\ pc[r] \in NativeSteps
    /\ \/ Server!Answer(r) \/ Server!Open(r) \/ Server!Fail(r) \/ Server!Finish(r)
       \/ Len(log[r]) < MaxChunks /\ Server!Emit(r)
    /\ UNCHANGED <<runVars, wasmVars, uiVars, connVars>>

\* The worker posts a message; a final one ends its script, an uncaught error
\* does not.
WorkerPosts(r) ==
    /\ worker[r] = "alive"
    /\ \E msg \in Server!Output \cup {"error", "onerror", "done"} :
        /\ msg \in Server!Output \cup {"onerror"} => Len(heard[r]) + Len(mailbox[r]) < MaxChunks
        /\ mailbox' = [mailbox EXCEPT ![r] = Append(@, msg)]
        /\ worker' = IF msg \in {"error", "done"}
                     THEN [worker EXCEPT ![r] = "returned"] ELSE worker
    /\ UNCHANGED <<netVars, runVars, uiVars, connVars>>

Settle(r) ==
    \/ FetchRejected(r) \/ FetchResolved(r) \/ ErrBodyEnds(r)
    \/ Read(r) \/ StreamClosed(r) \/ StreamRejected(r)
    \/ CacheHit(r) \/ CacheMiss(r)
    \/ CompileRejected(r) \/ CompileResolved(r) \/ CompileBodyFails(r)
    \/ CompileDiagnosed(r) \/ CompileBuilt(r) \/ DecodeThrows(r) \/ Deliver(r)

Next ==
    \/ \E r \in Runs :
        \/ StartNative(r) \/ StartWasm(r) \/ StartWasmFails(r) \/ TranslateThrows(r)
        \/ Settle(r) \/ ServerMoves(r) \/ WorkerPosts(r)
    \/ Stop
    \/ \E t \in Targets : CheckConnection(t)
    \/ \E i \in 1..MaxPings : PingAnswered(i)

\* The promises an aborted signal rejects, and the cache lookup, which ends by
\* itself.
Unblocked(r) ==
    \/ FetchRejected(r) \/ StreamRejected(r) \/ ErrBodyEnds(r)
    \/ CompileRejected(r) \/ CompileBodyFails(r)
    \/ CacheHit(r) \/ CacheMiss(r)

\* What the server has sent arrives.  Nothing else is owed by the network, and
\* nothing by the compile service or the program.
Fairness ==
    \A r \in Runs :
        /\ WF_vars(aborted[r] /\ Unblocked(r))
        /\ WF_vars(FetchResolved(r))
        /\ WF_vars(Read(r) \/ StreamClosed(r))

Spec == Init /\ [][Next]_vars
LiveSpec == Spec /\ Fairness

-----------------------------------------------------------------------------
Events == Server!Output \cup Server!Failure \cup {"done"}
Messages == Server!Output \cup {"error", "onerror", "done"}
Channels == Events \cup {"info"}

\* Every variable keeps its type.
TypeOK ==
    /\ answer \in [Runs -> {"none", "answered", "open", "closed"}]
    /\ log \in [Runs -> Seq(Events)]
    /\ pc \in [Runs -> Steps]
    /\ aborted \in [Runs -> BOOLEAN]
    /\ outcome \in [Runs -> Terminal \cup {"none"}]
    /\ heard \in [Runs -> Seq(Events)]
    /\ exit \in [Runs -> {0, 1}]
    /\ worker \in [Runs -> {"none", "alive", "returned", "terminated"}]
    /\ mailbox \in [Runs -> Seq(Messages)]
    /\ status \in Busy \cup Terminal \cup {"idle"}
    /\ current \in Runs \cup {NoRun}
    /\ lines \in Seq([run : Runs, channel : Channels])
    /\ target \in Targets /\ pings \in Seq(Targets)
    /\ connection \in {"checking", "connected", "disconnected"}

\* The run awaits something.
Live(r) == pc[r] \notin {"idle", "ended", "thrown"}

\* At most one run is live, and abortRef holds its controller, so that Stop
\* reaches it.  The button says Stop exactly while abortRef holds one: that of
\* the live run, or of a run that has thrown (translate.ts:137,
\* wasmExecution.ts:195), which is then neither live nor over.
StopReachesTheRun ==
    /\ status \in Busy <=> current # NoRun
    /\ \A r \in Runs : Live(r) => r = current
    /\ current # NoRun => Live(current) \/ pc[current] = "thrown"

\* A run is shown as a success only if its last event was "done" with exit
\* code 0: no error of an earlier phase, no stop, no broken connection
\* (remoteExecution.ts, RunResult.success).
SuccessIsEarned ==
    \A r \in Runs : outcome[r] = "success" =>
        /\ heard[r] # <<>> /\ Last(heard[r]) = "done" /\ exit[r] = 0
        /\ ~aborted[r]
        /\ Range(heard[r]) \cap Server!Failure = {}

\* A run that has ended writes no line any more: not the worker that was
\* stopped or has failed, not the stream of a run that was aborted.
NoStrayLines ==
    [][\A r \in Runs : pc[r] = "ended" =>
        \A i \in DOMAIN lines' : lines'[i].run = r => i \in DOMAIN lines /\ lines[i] = lines'[i]]_vars

\* No worker goes on once its run has ended.
WorkersAreStopped == \A r \in Runs : worker[r] \in {"alive", "returned"} => pc[r] = "worker"

\* While a run waits for the compile service the pill says "compiling"
\* (docs/web.md, "status covers both phases of the wasm path"), and it says so
\* only then or for good, after a run that has thrown.
CompilingMeansNetwork ==
    /\ \A r \in Runs : pc[r] \in CompileSteps => status = "compiling"
    /\ status = "compiling" => pc[current] \in CompileSteps \cup {"thrown"}

\* Stop ends a live run, whatever server, service and program do.  (It does
\* nothing for a run that has thrown: the status stays busy.)
StopWorks == \A r \in Runs : (aborted[r] /\ Live(r)) ~> pc[r] = "ended"

\* A run whose stream the server has closed ends.
ClosedStreamEnds == \A r \in Runs : (answer[r] = "closed" /\ Live(r)) ~> ~Live(r)
=============================================================================
