-------------------------- MODULE ExecutionServer --------------------------
(***************************************************************************)
(* The local execution server (server/execution-service.ts): every POST    *)
(* /run is one asynchronous handler.  A handler is a straight line cut at  *)
(* its awaits; between two awaits nothing else runs, so an action here is  *)
(* the code between two awaits.  The handlers share one counter,           *)
(* activeExecutions, and each owns a temporary directory, a response       *)
(* stream and at most one child process.  The environment's moves are the  *)
(* client going away, I/O failing, the child writing, ending or looping,   *)
(* and timers firing.                                                      *)
(***************************************************************************)
EXTENDS Naturals, Sequences, FiniteSets

CONSTANTS
    Requests,       \* the HTTP requests the server receives
    MaxConcurrent,  \* MTOC_MAX_CONCURRENT
    MaxChunks,      \* bound: events on one stream before "done" (model only)
    CloseOnEnd      \* the requests that emit their one 'close' when their body is
                    \* consumed (Node >= 16); the others when their socket closes

ASSUME ServerAssumption ==
    /\ IsFiniteSet(Requests)
    /\ MaxConcurrent \in Nat \ {0}
    /\ MaxChunks \in Nat
    /\ CloseOnEnd \subseteq Requests

VARIABLES
    pc,               \* the await at which each handler is parked
    activeExecutions, \* the module-level counter
    tempDir,          \* each handler's mkdtemp directory
    status,           \* what writeHead was called with
    events,           \* SSE events accepted by the response, by type
    ended,            \* res.end() was called
    lateWrite,        \* something was written to a response after its end
    connected,        \* the client still holds the connection
    closeEvt,         \* the request's 'close' event: emitted at most once
    child,            \* the child process as Node sees it
    killed,           \* child.killed
    timer,            \* the timeout: "off", "armed"
    escalation,       \* the one-second SIGKILL timer
    timedOut,
    listener          \* onClose is registered on the request

reqVars  == <<pc, activeExecutions, tempDir>>
resVars  == <<status, events, ended, lateWrite>>
procVars == <<child, killed, timer, escalation, timedOut, listener>>
netVars  == <<connected, closeEvt>>
vars == <<reqVars, resVars, procVars, netVars>>

Steps == {"idle", "body", "mkdtemp", "write", "compile", "run", "cleanup", "done"}

\* The steps between `activeExecutions++` and `activeExecutions--`.
Holding == {"mkdtemp", "write", "compile", "run", "cleanup"}

Statuses == {"none", "no_content", "unauthorized", "not_found", "health",
             "busy", "bad_request", "internal", "stream"}

EventTypes == {"translate_error", "compile_error", "stdout", "stderr", "done"}

ChildStates == {"none", "alive", "exited", "spawn_failed", "error_seen", "closed"}

Holders == {r \in Requests : pc[r] \in Holding}

-----------------------------------------------------------------------------
Init ==
    /\ pc = [r \in Requests |-> "idle"]
    /\ activeExecutions = 0
    /\ tempDir = [r \in Requests |-> "none"]
    /\ status = [r \in Requests |-> "none"]
    /\ events = [r \in Requests |-> <<>>]
    /\ ended = [r \in Requests |-> FALSE]
    /\ lateWrite = [r \in Requests |-> FALSE]
    /\ connected = [r \in Requests |-> TRUE]
    /\ closeEvt = [r \in Requests |-> "none"]
    /\ child = [r \in Requests |-> "none"]
    /\ killed = [r \in Requests |-> FALSE]
    /\ timer = [r \in Requests |-> "off"]
    /\ escalation = [r \in Requests |-> "off"]
    /\ timedOut = [r \in Requests |-> FALSE]
    /\ listener = [r \in Requests |-> FALSE]

Goto(r, from, to) ==
    /\ pc[r] = from
    /\ pc' = [pc EXCEPT ![r] = to]

\* sendJson: head, body and end in one call.
SendJson(r, s) ==
    /\ status' = [status EXCEPT ![r] = s]
    /\ ended' = [ended EXCEPT ![r] = TRUE]
    /\ UNCHANGED <<events, lateWrite>>

\* sendEvent for each of evs, then res.end() when last: a write to an ended
\* response is not sent.
Stream(r, evs, last) ==
    /\ events' = [events EXCEPT ![r] = IF ended[r] THEN @ ELSE @ \o evs]
    /\ lateWrite' = [lateWrite EXCEPT ![r] = @ \/ (ended[r] /\ evs # <<>>)]
    /\ ended' = [ended EXCEPT ![r] = @ \/ last]

\* child.kill: only a process Node still has a handle for is signalled, and
\* only then does child.killed become true.
Kill(r) == killed' = IF child[r] = "alive" THEN [killed EXCEPT ![r] = TRUE] ELSE killed

-----------------------------------------------------------------------------
\* startServer's routing: preflight, wrong passkey, /health, unknown path.
Route(r) ==
    /\ Goto(r, "idle", "done")
    /\ \E s \in {"no_content", "unauthorized", "not_found", "health"} : SendJson(r, s)
    /\ UNCHANGED <<activeExecutions, tempDir, procVars, netVars>>

\* handleRun entered at capacity.
Refuse(r) ==
    /\ activeExecutions >= MaxConcurrent
    /\ Goto(r, "idle", "done")
    /\ SendJson(r, "busy")
    /\ UNCHANGED <<activeExecutions, tempDir, procVars, netVars>>

\* handleRun entered below capacity: it parks in `await readBody(req)`; the
\* counter is not touched yet.
Admit(r) ==
    /\ activeExecutions < MaxConcurrent
    /\ Goto(r, "idle", "body")
    /\ UNCHANGED <<activeExecutions, tempDir, resVars, procVars, netVars>>

BodyConsumed_Late(r) ==     \* seeded: the 'close' arrives after onClose is registered
    closeEvt' = [closeEvt EXCEPT ![r] = IF r \in CloseOnEnd THEN "pending" ELSE @]

\* The request has been consumed: in CloseOnEnd its only 'close' is spent
\* here, before any listener is registered.
BodyConsumed(r) ==
    closeEvt' = [closeEvt EXCEPT ![r] = IF r \in CloseOnEnd THEN "spent" ELSE @]

\* readBody rejects: the client went away mid-body, or the body passed
\* MAX_BODY_BYTES and req.destroy() dropped the connection.
BodyFails(r) ==
    /\ Goto(r, "body", "done")
    /\ SendJson(r, "bad_request")
    /\ connected' = [connected EXCEPT ![r] = FALSE]
    /\ closeEvt' = [closeEvt EXCEPT ![r] = "spent"]
    /\ UNCHANGED <<activeExecutions, tempDir, procVars>>

\* JSON.parse throws, or validateRunRequest rejects.
BodyInvalid(r) ==
    /\ connected[r]
    /\ Goto(r, "body", "done")
    /\ SendJson(r, "bad_request")
    /\ BodyConsumed(r)
    /\ UNCHANGED <<activeExecutions, tempDir, procVars, connected>>

BodyValid(r) ==
    /\ connected[r]
    /\ Goto(r, "body", "mkdtemp")
    /\ activeExecutions' = activeExecutions + 1
    /\ BodyConsumed(r)
    /\ UNCHANGED <<tempDir, resVars, procVars, connected>>

MkdtempFails_NoRelease(r) ==    \* seeded: the release belongs to `if (tempDir)`
    /\ Goto(r, "mkdtemp", "done")
    /\ SendJson(r, "internal")
    /\ UNCHANGED <<activeExecutions, tempDir, procVars, netVars>>

\* mkdtemp rejects: no head sent, so the catch answers 500; tempDir is null,
\* so the finally block awaits nothing and releases the slot in this step.
MkdtempFails(r) ==
    /\ Goto(r, "mkdtemp", "done")
    /\ SendJson(r, "internal")
    /\ activeExecutions' = activeExecutions - 1
    /\ UNCHANGED <<tempDir, procVars, netVars>>

\* mkdtemp resolves: the head is written and translateProject runs in this
\* same step.  It finds user errors, throws on any other one (caught with the
\* head already sent: nothing is written and nothing ends), or yields C.
Translate(r) ==
    /\ tempDir' = [tempDir EXCEPT ![r] = "exists"]
    /\ status' = [status EXCEPT ![r] = "stream"]
    /\ \/ Goto(r, "mkdtemp", "cleanup") /\ Stream(r, <<"translate_error", "done">>, TRUE)
       \/ Goto(r, "mkdtemp", "cleanup") /\ Stream(r, <<>>, FALSE)
       \/ Goto(r, "mkdtemp", "write") /\ Stream(r, <<>>, FALSE)
    /\ UNCHANGED <<activeExecutions, procVars, netVars>>

\* writeFile rejects (a full disk): caught with the head already sent.
WriteFails(r) ==
    /\ Goto(r, "write", "cleanup")
    /\ UNCHANGED <<activeExecutions, tempDir, resVars, procVars, netVars>>

WriteDone(r) ==
    /\ Goto(r, "write", "compile")
    /\ UNCHANGED <<activeExecutions, tempDir, resVars, procVars, netVars>>

\* cc exits non-zero, or execFile's 15 s timeout kills it.
CompileFails(r) ==
    /\ Goto(r, "compile", "cleanup")
    /\ Stream(r, <<"compile_error", "done">>, TRUE)
    /\ UNCHANGED <<activeExecutions, tempDir, status, procVars, netVars>>

Spawn_NoTimer(r) ==             \* seeded: the timeout is never armed
    /\ Goto(r, "compile", "run")
    /\ \E c \in {"alive", "spawn_failed"} : child' = [child EXCEPT ![r] = c]
    /\ listener' = [listener EXCEPT ![r] = TRUE]
    /\ UNCHANGED <<activeExecutions, tempDir, resVars, killed, timer, escalation, timedOut, netVars>>

\* cc succeeds and spawn runs in the same step: the child starts, or could
\* not be started and will emit 'error' then 'close'.
Spawn(r) ==
    /\ Goto(r, "compile", "run")
    /\ \E c \in {"alive", "spawn_failed"} : child' = [child EXCEPT ![r] = c]
    /\ timer' = [timer EXCEPT ![r] = "armed"]
    /\ listener' = [listener EXCEPT ![r] = TRUE]
    /\ UNCHANGED <<activeExecutions, tempDir, resVars, killed, escalation, timedOut, netVars>>

\* spawn throws synchronously: the promise rejects, head already sent.
SpawnThrows(r) ==
    /\ Goto(r, "compile", "cleanup")
    /\ UNCHANGED <<activeExecutions, tempDir, resVars, procVars, netVars>>

-----------------------------------------------------------------------------
\* A chunk on the child's stdout or stderr; pipes drain after the exit too.
ChildOutput(r) ==
    /\ child[r] \in {"alive", "exited"}
    /\ Len(events[r]) < MaxChunks
    /\ \E e \in {"stdout", "stderr"} : Stream(r, <<e>>, FALSE)
    /\ UNCHANGED <<reqVars, status, procVars, netVars>>

\* The program ends by itself; it may also never do so.
ChildExits(r) ==
    /\ child[r] = "alive"
    /\ child' = [child EXCEPT ![r] = "exited"]
    /\ UNCHANGED <<reqVars, resVars, netVars, killed, timer, escalation, timedOut, listener>>

\* The program has no SIGTERM handler: once signalled it dies.
KilledChildDies(r) == killed[r] /\ ChildExits(r)

TimeoutFires_Resolves(r) ==     \* seeded: the wait ends with the SIGTERM, not the death
    /\ timer[r] = "armed"
    /\ timer' = [timer EXCEPT ![r] = "off"]
    /\ timedOut' = [timedOut EXCEPT ![r] = TRUE]
    /\ escalation' = [escalation EXCEPT ![r] = "armed"]
    /\ Kill(r)
    /\ pc' = [pc EXCEPT ![r] = "cleanup"]
    /\ UNCHANGED <<activeExecutions, tempDir, resVars, netVars, child, listener>>

TimeoutFires(r) ==
    /\ timer[r] = "armed"
    /\ timer' = [timer EXCEPT ![r] = "off"]
    /\ timedOut' = [timedOut EXCEPT ![r] = TRUE]
    /\ escalation' = [escalation EXCEPT ![r] = "armed"]
    /\ Kill(r)
    /\ UNCHANGED <<reqVars, resVars, netVars, child, listener>>

\* `if (!child.killed) child.kill("SIGKILL")`, one second later.
EscalationFires(r) ==
    /\ escalation[r] = "armed"
    /\ escalation' = [escalation EXCEPT ![r] = "off"]
    /\ IF killed[r] THEN UNCHANGED killed ELSE Kill(r)
    /\ UNCHANGED <<reqVars, resVars, netVars, child, timer, timedOut, listener>>

\* The request's 'close' event reaches whoever listens.
CloseEvent(r) ==
    /\ closeEvt[r] = "pending"
    /\ closeEvt' = [closeEvt EXCEPT ![r] = "spent"]
    /\ IF listener[r] /\ ~killed[r] THEN Kill(r) ELSE UNCHANGED killed
    /\ UNCHANGED <<reqVars, resVars, connected, child, timer, escalation, timedOut, listener>>

\* clearTimeout and req.off, shared by both child handlers.
StopWatching(r) ==
    /\ timer' = [timer EXCEPT ![r] = "off"]
    /\ listener' = [listener EXCEPT ![r] = FALSE]

\* resolve(): the first call lets the handler go on to its finally block.
Resolve(r) == pc' = [pc EXCEPT ![r] = IF @ = "run" THEN "cleanup" ELSE @]

ChildClose_NoEnd(r) ==          \* seeded: "done" without res.end()
    /\ child[r] \in {"exited", "error_seen"}
    /\ child' = [child EXCEPT ![r] = "closed"]
    /\ StopWatching(r)
    /\ Stream(r, (IF timedOut[r] THEN <<"stderr">> ELSE <<>>) \o <<"done">>, FALSE)
    /\ Resolve(r)
    /\ UNCHANGED <<activeExecutions, tempDir, status, killed, escalation, timedOut, netVars>>

\* 'close': the process is gone and its pipes are drained.  It follows 'error'
\* too when the child could not be started.
ChildClose(r) ==
    /\ child[r] \in {"exited", "error_seen"}
    /\ child' = [child EXCEPT ![r] = "closed"]
    /\ StopWatching(r)
    /\ Stream(r, (IF timedOut[r] THEN <<"stderr">> ELSE <<>>) \o <<"done">>, TRUE)
    /\ Resolve(r)
    /\ UNCHANGED <<activeExecutions, tempDir, status, killed, escalation, timedOut, netVars>>

ChildError_NoDone(r) ==         \* seeded: the failure to start sends no "done"
    /\ child[r] = "spawn_failed"
    /\ child' = [child EXCEPT ![r] = "error_seen"]
    /\ StopWatching(r)
    /\ Stream(r, <<"stderr">>, TRUE)
    /\ Resolve(r)
    /\ UNCHANGED <<activeExecutions, tempDir, status, killed, escalation, timedOut, netVars>>

ChildError(r) ==
    /\ child[r] = "spawn_failed"
    /\ child' = [child EXCEPT ![r] = "error_seen"]
    /\ StopWatching(r)
    /\ Stream(r, <<"stderr", "done">>, TRUE)
    /\ Resolve(r)
    /\ UNCHANGED <<activeExecutions, tempDir, status, killed, escalation, timedOut, netVars>>

\* The finally block after its `await rm`, which may have failed (logged).
Cleanup(r) ==
    /\ Goto(r, "cleanup", "done")
    /\ \E d \in {"removed", "rm_failed"} : tempDir' = [tempDir EXCEPT ![r] = d]
    /\ activeExecutions' = activeExecutions - 1
    /\ UNCHANGED <<resVars, procVars, netVars>>

-----------------------------------------------------------------------------
\* The client drops the connection: the Stop button, a closed tab, a network
\* failure.
Disconnect(r) ==
    /\ connected[r]
    /\ pc[r] # "idle"
    /\ ~ended[r]
    /\ connected' = [connected EXCEPT ![r] = FALSE]
    /\ closeEvt' = [closeEvt EXCEPT ![r] = IF @ = "none" THEN "pending" ELSE @]
    /\ UNCHANGED <<reqVars, resVars, procVars>>

BodyEnds(r) == BodyFails(r) \/ BodyInvalid(r) \/ BodyValid(r)
MkdtempEnds(r) == MkdtempFails(r) \/ Translate(r)
WriteEnds(r) == WriteFails(r) \/ WriteDone(r)
CompileEnds(r) == CompileFails(r) \/ Spawn(r) \/ SpawnThrows(r)
ChildEnds(r) == KilledChildDies(r) \/ ChildError(r) \/ ChildClose(r)

Next ==
    \E r \in Requests :
        \/ Route(r) \/ Refuse(r) \/ Admit(r)
        \/ BodyEnds(r) \/ MkdtempEnds(r) \/ WriteEnds(r) \/ CompileEnds(r)
        \/ ChildOutput(r) \/ ChildExits(r) \/ ChildEnds(r)
        \/ TimeoutFires(r) \/ EscalationFires(r) \/ CloseEvent(r)
        \/ Cleanup(r) \/ Disconnect(r)

\* What the event loop and the kernel owe: an I/O completion, a child's event
\* and a timer that is due are delivered (a body that never ends is cut by
\* Node's request timeout), and a signalled child dies.  A program need not
\* end, a client need not send anything or stay.
Fairness ==
    \A r \in Requests :
        /\ WF_vars(BodyEnds(r)) /\ WF_vars(MkdtempEnds(r))
        /\ WF_vars(WriteEnds(r)) /\ WF_vars(CompileEnds(r))
        /\ WF_vars(ChildEnds(r)) /\ WF_vars(TimeoutFires(r))
        /\ WF_vars(EscalationFires(r)) /\ WF_vars(CloseEvent(r))
        /\ WF_vars(Cleanup(r))

Spec == Init /\ [][Next]_vars
FairSpec == Spec /\ Fairness

-----------------------------------------------------------------------------
\* Every variable keeps its type along all of the handlers' paths.
TypeOK ==
    /\ pc \in [Requests -> Steps]
    /\ activeExecutions \in Nat
    /\ tempDir \in [Requests -> {"none", "exists", "removed", "rm_failed"}]
    /\ status \in [Requests -> Statuses]
    /\ events \in [Requests -> Seq(EventTypes)]
    /\ ended \in [Requests -> BOOLEAN]
    /\ lateWrite \in [Requests -> BOOLEAN]
    /\ connected \in [Requests -> BOOLEAN]
    /\ closeEvt \in [Requests -> {"none", "pending", "spent"}]
    /\ child \in [Requests -> ChildStates]
    /\ killed \in [Requests -> BOOLEAN]
    /\ timer \in [Requests -> {"off", "armed"}]
    /\ escalation \in [Requests -> {"off", "armed"}]
    /\ timedOut \in [Requests -> BOOLEAN]
    /\ listener \in [Requests -> BOOLEAN]

\* The counter the cap check and /health read equals the number of handlers
\* between mkdtemp and the end of the finally block: no path through
\* handleRun forgets a slot or returns one twice.
SlotAccounting == activeExecutions = Cardinality(Holders)

\* A child never outlives its handler's wait: whatever ends the wait, while
\* the process lives its working directory is there and its slot is counted.
NoOrphanProcess ==
    \A r \in Requests : child[r] = "alive" => pc[r] = "run" /\ tempDir[r] = "exists"

\* A directory made by mkdtemp is gone once the handler has finished, unless
\* its removal failed; and before that only a slot holder has one.
NoOrphanDirectory ==
    \A r \in Requests : tempDir[r] = "exists" => pc[r] \in Holding \ {"mkdtemp"}

\* Nothing is written to a response after its end, but for the second "done"
\* of a child that could not be started, for which Node emits both 'error' and
\* 'close' (docs/web.md: the stream closes immediately after "done").
LateWritesAreSpawnErrors ==
    [][\A r \in Requests : ~lateWrite[r] /\ lateWrite'[r] => child[r] = "error_seen"]_vars

\* A child is signalled only because its time was up or its client had left:
\* the request's own 'close', which Node may emit as soon as the body has
\* been read, kills no run.
KilledForCause ==
    [][\A r \in Requests : ~killed[r] /\ killed'[r] => timedOut'[r] \/ ~connected[r]]_vars

\* The SIGKILL escalation never acts: child.killed says a signal was sent,
\* not that the child died, so the test before SIGKILL is never true of a
\* process that still runs.
SigkillNeverSent ==
    [][\A r \in Requests :
        escalation[r] = "armed" /\ escalation'[r] = "off" => killed'[r] = killed[r]]_vars

\* An admitted request always leaves handleRun and returns its slot, even if
\* its program loops for ever and its client never goes away.
Served == \A r \in Requests : pc[r] = "body" ~> pc[r] = "done"

\* A response whose child was spawned is ended.
RunStreamEnds == \A r \in Requests : pc[r] = "run" ~> ended[r]

\* The server keeps its wire contract: the handler's steps, read off the
\* response, are steps of RunProtocol.
Protocol == INSTANCE RunProtocol WITH
    log <- events,
    answer <- [r \in Requests |->
        CASE status[r] = "none" -> "none"
          [] status[r] = "stream" -> IF ended[r] THEN "closed" ELSE "open"
          [] OTHER -> "answered"]

\* Every step of the server is a step of the wire contract or none: phases never
\* mix on a stream, an ended one has one "done", its last event, and an open one
\* has none.
ImplementsProtocol == Protocol!PSpec

-----------------------------------------------------------------------------
(* What the documentation says of the server and the code does not do.      *)

\* docs/web.md: a concurrency cap, MTOC_MAX_CONCURRENT.  The check precedes
\* the wait for the body and the increment follows it.
CapRespected == activeExecutions <= MaxConcurrent

\* docs/web.md: the server detects that the client closed the stream and
\* SIGTERMs the child.  The listener is registered only once the child runs.
AbortReachesChild ==
    \A r \in Requests :
        child[r] = "alive" /\ ~connected[r] /\ closeEvt[r] # "pending" => killed[r]
=============================================================================
