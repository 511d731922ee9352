---------------------------- MODULE RunProtocol ----------------------------
(***************************************************************************)
(* What the execution server promises the clients of POST /run             *)
(* (docs/web.md, "Execution server"), with nothing of how it keeps it: an  *)
(* exchange is answered in one piece, or opens a stream of events which a  *)
(* single "done" closes, preceded by the events of one phase only.         *)
(* ExecutionServer implements it; RunClient reads it.                      *)
(***************************************************************************)
EXTENDS Naturals, Sequences

CONSTANTS Requests

Output == {"stdout", "stderr"}
Failure == {"translate_error", "compile_error"}

VARIABLES
    answer,  \* "none", "answered", "open", "closed"
    log      \* the events sent on the stream

pvars == <<answer, log>>

PInit ==
    /\ answer = [r \in Requests |-> "none"]
    /\ log = [r \in Requests |-> <<>>]

\* A refusal, or any answer that is not a stream.
Answer(r) ==
    /\ answer[r] = "none"
    /\ answer' = [answer EXCEPT ![r] = "answered"]
    /\ UNCHANGED log

Open(r) ==
    /\ answer[r] = "none"
    /\ answer' = [answer EXCEPT ![r] = "open"]
    /\ UNCHANGED log

\* The program ran no further than its translation or its compilation: the
\* stream is that one error and its "done".
Fail(r) ==
    /\ log[r] = <<>>
    /\ \/ answer[r] = "none" /\ log' = [log EXCEPT ![r] = <<"translate_error", "done">>]
       \/ answer[r] = "open" /\ log' = [log EXCEPT ![r] = <<"compile_error", "done">>]
    /\ answer' = [answer EXCEPT ![r] = "closed"]

Emit(r) ==
    /\ answer[r] = "open"
    /\ \E e \in Output : log' = [log EXCEPT ![r] = Append(@, e)]
    /\ UNCHANGED answer

\* The run is over; the server may add a last line of its own.
Finish(r) ==
    /\ answer[r] = "open"
    /\ \E last \in {<<"done">>, <<"stderr", "done">>} : log' = [log EXCEPT ![r] = @ \o last]
    /\ answer' = [answer EXCEPT ![r] = "closed"]

PNext == \E r \in Requests : Answer(r) \/ Open(r) \/ Fail(r) \/ Emit(r) \/ Finish(r)

PSpec == PInit /\ [][PNext]_pvars
=============================================================================
