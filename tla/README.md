# TLA+ models of mtoc

mtoc translates a subset of MATLAB ("numbl") to C. It is a compiler (lexer,
parser, lowering with static types and specialization, code generation with a
C runtime) used from three places: a command line, an execution server that
compiles and runs programs for the browser, and a browser IDE that keeps
projects in IndexedDB and runs programs on the server or as WebAssembly.
All paths below are relative to the repository's root; `src/...` under it is
the compiler and the IDE, `server/` the execution server.

1. Inventory · 2. Modules and plan · 3. Execution server and its wire contract ·
4. Run client · 5. Project files · 6. Ownership in generated C · 7. Types and
lowering · 8. Reading a file · 9. Which function a call runs · 10. A-normal form
and temp inlining · 11. Disagreements between code and documents · 12. Proofs ·
13. What is only model-checked, what is not modelled · 14. Running the checks

## 1. Inventory

| Component | State | Operations | Interacts with | What is hard | What makes it correct |
|---|---|---|---|---|---|
| Execution server `server/execution-service.ts` | `activeExecutions`; per request a temp dir, a response stream, a child process, two timers, a `close` listener | routing, `handleRun` (admission, body, mkdtemp, translate, write, compile, spawn), child events, timers, cleanup | clients over HTTP/SSE, the translator (same process), `cc`, the program | asynchronous handlers interleaved at every `await`, disconnects, timeouts, processes that never end, I/O failures half way through a stream | slots and directories are returned exactly once, no child outlives its handler, every admitted request leaves |
| Wire protocol of `POST /run` (`docs/web.md`, `src/utils/remoteExecution.ts`) | one SSE stream per request | events in phases, `done` last | server, IDE | both ends must agree on what ends a stream | one phase per stream, `done` once and last |
| Run client `src/hooks/useRemoteExecution.ts`, `src/utils/*.ts` | status, abort controller, connection; per run its fetch, reader or worker | run (native, wasm), stop, check connection | server, compile service, worker | late answers of earlier runs, Stop against messages in flight | Stop always reaches the live run, an ended run is silent, success is earned |
| Project files `src/hooks/useProjectFiles.ts`, `src/db`, `src/components/IDEWorkspace.tsx` | React state, IndexedDB, debounce timers, caches | load, edit, select, add, rename, delete, flush | IDE | a debounced write racing deletion, unmount and page hide; effects cancelled half way | nothing typed is lost, nothing deleted comes back, everything listed is shown |
| Ownership `src/codegen/liveness.ts`, `emitStmt.ts`, `emitFunction.ts`, `emitOwned.ts`, `emitAnalysis.ts` | future-touch sets, `freedOwned`, the scope's free set | compute liveness, emit frees, returns, calls | lowering (IR), the runtime's `_copy`, `_assign`, `_free` | a static analysis whose mistakes are leaks, double frees and use after free on some path of some program | on every path every buffer has one owner until its last use and none after |
| Lowering `src/lowering/*.ts` | type environment, C variable per name, assigned variables, control depth | statements and expressions to typed IR | specialization, resolution | joins at ifs and loops, folding of known values, splitting of variables | the translation does what the program says; types describe values |
| Specialization `lowerFuncCall.ts`, `lowerClass.ts`, `lowerHandle.ts`, `hashing.ts` | cache by key, in-flight set, order of emission, counter of anonymous functions | specialize a function, method, constructor or handle body for argument types | lowering (recursive), resolution | recursion, colliding keys, names captured where a handle is made and read where it is called | one body per key, lowered for its own types and emitted before its callers; cycles noticed |
| ANF, temp inlining `anf.ts`, `validateIR.ts`, `src/codegen/inline` | fresh names, the body between passes | hoist producers, validate, inline single-use temps | lowering, codegen | writes and effects between producer and consumer, uses in other blocks | every path shows and returns the same before and after |
| Codegen, expressions `emitExpr.ts`, `emitSlice.ts`, `emitTensor.ts`, `emitCell.ts` ... | none | IR expression to C | runtime | index arithmetic, aliasing of slices | bounds |
| C runtime `src/codegen/runtime/*.h` | heap, rng state | tensors, strings, formatting | generated C | numeric edges, empty handles | numbl's numbers |
| Resolution `src/workspace`, `src/numbl-core` | registry, function index | register files, validate classes, resolve a call from a place | lowering | precedence of imports, local and private functions, methods, packages | the function MATLAB would take |
| Lexer, parser `src/lexer`, `src/parser` | bracket stack, last token; position in the tokens, matrix mode | tokens; two passes over them, the second with the ends of functions put in | translate | transpose versus quote, blanks that separate elements, `end` in an index, words that are keywords in places | a file reads as its author wrote it |
| Translation and share hooks | timers | translate for display, encode a project in an address | IDE | debounce | |
| CLI, build `src/cli.ts`, `src/build.ts` | none | translate, cc, run | | sequential | |

The places where each of these can go wrong are listed, line by line, under
"hazards" in `PROJECT.json`, with the properties that watch them.

## 2. Modules and plan

| Module | Models | Checked by | Proofs |
|---|---|---|---|
| `RunProtocol` | the abstract wire contract of `POST /run` | as a property of `ExecutionServer`; as the environment of `RunClient` | |
| `ExecutionServer` | `server/execution-service.ts` | `MCExecutionServer` (server) | `ExecutionServer_proofs` |
| `RunClient` | `useRemoteExecution.ts` over both pipelines | `MCRunClient` (client) | `RunClient_proofs` |
| `ProjectFiles` | `useProjectFiles.ts`, `db/operations.ts`, the workspace's mirror | `MCProjectFiles` (files) | `ProjectFiles_proofs` |
| `OwnedRuntime` | the generated C running on a heap of buffers, wherever its frees stand | with `OwnedCodegen` | `OwnedRuntime_proofs` |
| `OwnedCodegen` | the compiler of structured function bodies: liveness, early frees, frees at the exits | `MCOwnedCodegen` (owned, cell_argument) | |
| `OwnershipCfg` | the same argument over any control-flow graph | `MCOwnershipCfg` (ownership_cfg) | `OwnershipCfg_proofs` |
| `TypeLattice` | `types.ts`: signs, sizes, known values, join, storage | with `ScalarLowering` | `TypeLattice_proofs` |
| `ScalarLowering` | `lower.ts`, `lowerIf/While/For.ts` and the C they lead to | `MCScalarLowering` (lowering, while_condition) | |
| `Lexer` | `src/lexer/tokenizer.ts`, one token a step | with `FrontEnd` | `Lexer_proofs` |
| `Parser` | `src/parser/*.ts`, as operators on the token list | with `FrontEnd` | |
| `FrontEnd` | the two passes of `parser/index.ts` over a file | `MCFrontEnd` (front_end) | |
| `Grammar` | the language as it is written: a printer of trees (external) | the reference of `FrontEnd` | |
| `Workspace` | `workspace.ts`, `loweringContext.ts`, `functionResolve.ts`: registration, index, resolution | with `Specialization` | |
| `Specialization` | `lowerFuncCall.ts`, `lowerClass.ts`, `lowerHandle.ts`: bodies lowered inside bodies | `MCCalls` (calls) | `Specialization_proofs` |
| `CallMeaning` | the function MATLAB calls, said of the files (external) | the reference of `Specialization` | |
| `TempIR` | the IR as the passes see it, its walks, and what a program of it shows | with `TempInlining` | |
| `TempInlining` | `anf.ts`, `validateIR.ts`, `inlinePass.ts` | `MCTempInlining` (inlining, nested_inline) | |

`Specialization` composes with `Workspace` (a call is resolved in the index the
registration built), `FrontEnd` with `Lexer` and `Parser`, `OwnedCodegen` with
`OwnedRuntime`, `RunClient` with `RunProtocol`.

Abstract and detailed specifications: `RunProtocol` is implemented by
`ExecutionServer` (refinement mapping `Protocol`) and assumed by `RunClient`
(`Server`); `ScalarLowering!Meaning` is what a MATLAB function does, against
which the translated one is run; `OwnershipCfg` is what `OwnedCodegen` computes
for one function, freed of the syntax; `Grammar` prints the trees that
`FrontEnd` must read back; `CallMeaning!Meant` is the function MATLAB's
documented order of precedence gives a name; `TempIR!RunOf` is what a program
shows and returns on a path, for the passes to keep.

Plan. Done: server and protocol, ownership, project files, run client, lattice,
lowering of scalars, the front end, resolution and specialization, A-normal form
and inlining; the proofs of section 12. Left, in this order:

1. The composition of `RunClient` with `ExecutionServer` in place of
   `RunProtocol`.
2. The shape pre-passes for structs and cells, and their emitters, as an
   extension of `OwnedCodegen` (fields with owners of their own).
3. Pure algorithms as functions over bounded inputs: slice bounds, loop counts,
   the format engine's segments.

## 3. The execution server and its wire contract

A handler is the asynchronous function `handleRun`, cut at its awaits: an action
of `ExecutionServer` is the code between two awaits, since nothing else runs in
between on Node's single thread. `pc[r]` names the await at which request `r` is
parked; `Route`, `Refuse` and `Admit` are the code up to the first await.

| Action | Code |
|---|---|
| `Admit`, `Refuse` | the checks of `handleRun` up to `await readBody` |
| `BodyFails`, `BodyInvalid`, `BodyValid` | the body arrives, or not; the last increments `activeExecutions` |
| `MkdtempFails`, `Translate` | `mkdtemp`, then the translation and the response head |
| `WriteFails`, `WriteDone`, `CompileFails` | writing the C file, `cc` |
| `Spawn`, `SpawnThrows` | the child, its timer and the `close` listener |
| `ChildOutput`, `ChildExits`, `ChildClose`, `ChildError` | what Node tells of the child |
| `TimeoutFires`, `EscalationFires`, `CloseEvent` | SIGTERM, the SIGKILL test, `onClose` |
| `Cleanup` | the `finally` block |
| `Disconnect` | the client leaves (environment) |

`CloseOnEnd` are the requests whose one `close` event comes as soon as the body
has been read (Node 16 and later) instead of with the connection: both meanings
are checked together.

`server` checks, for two requests, a cap of one and one chunk of output:
`SlotAccounting` (the counter equals the handlers between mkdtemp and the end of
`finally`), `NoOrphanProcess`, `KilledForCause`, `ImplementsProtocol`, and under
fairness `Served` and `RunStreamEnds`. `CapRespected` and `AbortReachesChild` say
what docs/web.md says and are false of the code (section 11); `NoOrphanDirectory`,
`SigkillNeverSent` and `LateWritesAreSpawnErrors` (only a child that could not be
started makes the handler write behind the end of its response) are proved
(section 12), and so is `ImplementsProtocol`.

Bounds: two requests are enough for every race on the counter (a slot is taken,
returned or read by another handler between any two steps of the first), a cap
of one makes the second request meet a full server, and one chunk puts one
event before `done`; longer streams repeat it. The proofs remove the first two.

Fairness: I/O completions, child events, due timers and the `finally` block are
delivered by the event loop and the kernel; a signalled child dies (the model
lets SIGTERM kill: a program of the translator installs no handler). The program
owes nothing, the client owes nothing.

## 4. The run client

`RunClient` is the hook and both pipelines. A run is parked at one await
(`cache`, `fetch`, `errBody`, `stream`, `compile`, `compileErrBody`,
`compileBody`, `worker`); the
server is any server that keeps `RunProtocol`, the worker any program that may
write, end, fail or loop, with a mailbox for messages posted and not delivered.
Stop may come between any two of these steps, twice, and again for the next run.

`run` has no catch. The translator rethrows its internal errors (`TranslateThrows`,
translate.ts:137) and decoding a build may throw (`DecodeThrows`,
`wasmExecution.ts:195`): the run is then parked at `thrown` for good, its promise
rejected, with the status and `abortRef` as they were.

`client` checks two runs: `StopReachesTheRun` (at most one run is live and `abortRef`
holds its controller; the button is shown exactly while `abortRef` holds one, that of
the live run or of one that has thrown), `SuccessIsEarned`, `WorkersAreStopped`, `NoStrayLines`
(no step adds a line to a run that has ended), and `StopWorks` (a stopped run that
still awaits something ends) and `ClosedStreamEnds` under fairness: an aborted
promise rejects, what the server sent arrives. Two runs show what the second inherits from the first; a third
inherits nothing else. One event per run besides the closing ones, one health
check in flight.

## 5. Project files

IndexedDB finishes transactions of overlapping scope in the order they were
created, so `txs` is one queue; each entry remembers whether its caller still
waits. `pending` are the armed debounce timers, `cache` the contents the hook
has, `contents`, `loaded` and `fetching` the workspace's mirror and its load
effect, which every change of the list restarts (`RestartEffect`).

`files` checks two files, two edits, one deletion, one rename, and one mishap (a
failed transaction, or the page left): `TypedIsKept` (what was typed last is in
the timer, in the queue or in the table at every moment), `ShownIsTyped`,
`NoResurrection`, and under fairness of timers and transactions
`EveryFileIsShown` and `EditReachesDisk`. Two edits give an older and a newer
text; two files give an active one and another; each mishap is one that the
code's callers can only survive separately (two failures are two files that
`failed` excludes).

## 6. Ownership in generated C

Two modules. `OwnedCodegen` compiles a body as codegen does: `TouchSeq` and
`TouchStmt` are `liveness.ts`'s backward sweep with its loop fixpoint, `EmitStmt`
threads `freedOwned` through the statements as `emitStmt.ts` does, `ScopeExit` is
the free set of `emitFunction.ts`. `OwnedRuntime` runs any such code on a heap of
buffers, wherever its frees stand: `Execute` a simple statement with its frees,
`Branch`, `Iterate`, `Jump`, `Leave`, and `Abort` for a runtime error; `Installed`
is what an assignment puts into a variable, `Given` what a callee frees of its
arguments. `OwnedCodegen`'s `Init` compiles a function and starts it.

| Property | Says | Fails when |
|---|---|---|
| `HandlesOwnBuffers` | handles point to allocated buffers, each has one owner, none is freed twice | something is not copied |
| `ReadsFindValue` | an early free comes after the last touch on every path | liveness misses a path |
| `NoLeak` | on return the heap holds the results and nothing else | a free is recorded that was not made |
| `ResultIntact` | the results are allocated (`OutputsAlive`) and every assigned output has one | outputs are freed, or dead at an exit |
| `FreesAreJustified` | the frees of the code solve the equations of the two analyses | a join forgets what one arm freed, a jump is followed to the wrong place |

`owned` runs every function of `MCOwnedCodegen!Small`: three signatures over two
variables, a conditional or a loop (nested, with break, continue or return)
between two statements. What could go wrong needs one variable to die on one path
while another keeps it: two variables, one of them an output, and each join the
emitter knows. Each statement of the code carries what the emitter knew when it
placed it (`knows`, and `rejoin` behind an if or a loop): what may still be
touched, what has been freed. The C has no trace of it and no step reads it; it
is there to say, in `OwnedRuntime`, what is asked of code whose frees are right
(`Analysed`, `Linked`, `WholeBody`). `FreesAreJustified` says at every step that the
code left to run is such code, and `CompiledCode`, which TLC evaluates over all the
functions, that what the compiler emits is code as the theorems take it.
A function has one set of outputs: the code takes, at each return, the C names its
outputs have there (`liveness.ts:234-238`), which differ only where a name was split
(section 7).
Arguments and results of kinds other than tensors differ only in `CopiedAtCall`,
`Given`, `Leave` and `Installed`: cell_argument runs a kind for which they are
wrong, and two more are in section 11.

`OwnershipCfg` takes the two analyses as any solution of their equations over any
graph: the theorem about it holds for every function, and `ownership_cfg` runs it
on a function with a loop, a break, two returns and a join that forgets a free.
Its `NoLeak` says of every step that the heap is what the variables hold
(`HeapIsReachable`) and of every way out that only the outputs are left
(`OutputsRemain`).

## 7. Types and lowering

`TypeLattice` is `types.ts` for numeric and string types, and says when a type
describes a value (`TypeHolds`). `ScalarLowering` has two phases in one
behaviour: first `Lower...` steps take the body statement by statement, as
`lowerStmts` recurses, with `st` the Lowerer (`env`, C variables, control depth)
and `work` its stack; then the IR is run as the generated C does. `Meaning` is
what the MATLAB function does, computed from its syntax.

| Definition | Code |
|---|---|
| `LowerAssign`, `recordAssignment`, `WithSlot` | assignment, C variables and their splitting |
| `LowerIf`, `FoldEnd`, `OpenArm`, `ArmEnd`, `mergeBranchEnvs` | `lowerIf.ts`, folding a condition that is known, merging the arms |
| `LowerWhile`, `LowerFor`, `LoopEnd`, `stripExactFromEnv` | the loops, lowered once |
| `Fold`, `Folds` | `constFold.ts` |
| `Specialized` | `specialize`: what a caller reads of the output's type |
| `Assign` ... `Return` | the C |

`lowering` runs every function of three templates (`MCScalarLowering`) on three
arguments: types that change on one arm only, conditions that fold for some
arguments, variables split before and inside control flow, counting loops up and
down left early. `TypesDescribeValues`: every expression evaluated has a value
its static type allows. `SlotsFit`: no C variable is stored what it is not
declared for. `RunsAsWritten`: output and result are the program's.
`NeverAhead`: never a line it would not print, never a turn it would not take
(this is what fails when a stale value is folded into a loop). `Finishes`: under
weak fairness of the program's own steps (a C program that can take a step takes
it) a function ends that ends in MATLAB.

Bounds: three variables and a parameter, rows of one or two integers, at most
20 turns (`MaxTurns`: a run that takes more is one that does not end; the longest
of these takes 16). The abstraction: values are integers, so overflow, rounding,
NaN and -0 are not seen; types are of doubles, so chars and complex numbers are
in the lattice but in no program.

## 8. Reading a file

`Lexer` takes the file one token a step; the token before and the blank between
decide whether a quote opens text or transposes. `Parser` is the recursive
descent, one operator per rule, from a position to a tree and a position or to a
refusal; the recursive function `parse` ties the rules that call each other.
`FrontEnd` is a file's way through them: `Lexing`, `tokenizeInput`, `FirstPass`,
and when functions have no `end`, `Insert` and `SecondPass`. Deadlock is checked:
a file nothing can be done with would be one.

`Grammar` writes trees as a user does, from the documented precedence, with the
parentheses it asks for and no others, in five layouts (`Tight`, `Airy`,
`Lopsided`, `Wrapped` with ellipses, `Commented`) and with or without the ends
of functions. `front_end` reads them all: `ReadsAsWritten` (the tree comes back,
except of the files in `Overlooked`, which must be refused: a function without `end`
that holds an arguments block, section 11), `RejectsMixedEnds` (functions with and without `end` in one file),
`TokensCoverText` (tokens in order, only layout between them; stated of `Lexer`).

Bounds: every two of eight operators left and right of a third, every two steps
into an assignment's target, every block in every block, matrices of every two
elements, functions, classes and their sections, words that are keywords only in
places as names. Precedence, matrix blanks and `end` are decided by two neighbours; a third
level repeats them. Every text of up to three tokens of an alphabet (`Scraps`) is
taken too, with no tree to compare with (`Unspecified`): lexer and parser must
come to an end on it and the tokens must cover it. A word or a numeral is one
character; exponents, underscores in numbers, directives, `?Class`, accessor
names and a statement that calls a function named `import` are left out.

## 9. Which function a call runs

`Workspace` registers a project's files one a step (`Register`), as private,
package, class-folder, path or plain functions and classes, then builds the
index (`finalize`); `resolveFunction` is its order of precedence, from a place
(file, class, method) and the classes of the arguments. `Specialization` lowers
calls: `stack` holds the bodies being lowered, a call either is a builtin, finds
its key in `cache`, meets it in `inFlight` (and is refused), or opens a body on
the stack, which `Finish` closes into `cache` and `order`. Handles keep their
target and the captures of the place they are made in.

| Action | Code |
|---|---|
| `Register`, `Load` | `workspace.ts`, `loweringContext.ts`, class validation |
| `LowerCall`, `LowerBuiltin` | a call as expression, statement, multiple assignment, method, constructor, super, handle |
| `LowerAnonFunc`, `LowerFuncHandle` | `lowerHandle.ts`, with `collectCaptures` |
| `Finish`, `FinishScript` | the end of `specialize` and of `lower` |

`calls` runs two families. `OneFile`: two functions that may call each other, a
function that takes a handle, one with two outputs and a script of three steps:
cycles, handles of anonymous and named functions, one function for several types.
`Projects`: a function of one name in every place a file can have it, classes and
their parents, in the main file, in files and in folders of their own, called from
every place. `CallsWhatMatlabCalls` compares with
`Meant` (both in `CallMeaning`), written from MATLAB's documented order;
`RunsItsOwnBody` (the key holds all a body depends on); `CalleesComeFirst` (bodies
are emitted without prototypes); `NoneTwice`; `CapturesMeanTheSame`.

The bounds: every subset of the places has a function of the one contested name,
which settles their order; two functions have every cycle a longer ring has, as
the in-flight set knows keys and not distances. A type is a number's known value,
a class or a handle; a class is its name and methods, its properties are not in
it; the hash of a long key is taken to be injective; functions written in
JavaScript are not in the model; programs whose types grow at every call are not
in the runs, as nothing in the code stops them.

## 10. A-normal form and temp inlining

A body goes through `source` (as lowered), `normal` (`anfNormalize`: what a C
statement needs in a variable of its own is hoisted in front), `Validate`, and
with inlining `InlineNested`, then `InlinePass` until nothing moves or the cap
is met. `TempIR` has the IR, its walks (`Uses`, `ReadsOf`), and `RunOf`: a
program is run on symbolic values, along a path that says of each condition
whether it holds; what it prints, returns, and whether an index fails, is
compared.

`HoistingKeepsMeaning`: the normal form does what the source does, for programs
that are `Orderly` (at most one visible act in a statement, none where it might
not be reached). `ReadyForC`: what passes holds every allocating value as a
whole right-hand side and hands on variables. `InliningKeepsMeaning`: every
path shows and returns the same, except that an index out of range may be met
later than it was, of programs where the tensors a nested body assigns are used
there alone (`LocalInBodies`) and none is computed for the bounds of a range alone
(`NotForRangesAlone`). `Orderly` and these two exclude what the code gets wrong
(section 11); `nested_inline` runs without the last two. So no property covers what
`Orderly` leaves out: what is hoisted in front of an `if` from behind its `elseif` or
from the right of an `&&`.

Bounds: every straight line of three statements from a list with each kind of
producer and consumer (two to inline, one between), and every if, while and for
over such statements between two others; a path answers three conditions, which
bounds the turns of its loops. `MaxPasses` is 2 where the code has 32, so that the
cap is met by a chain in the list. A `while` condition is left as it is, as in
`anf.ts:267-277`.

## 11. Disagreements between code and documents

Three are shown by runs that are expected to fail.

| Run | Property | What happens |
|---|---|---|
| cell_argument | `HandlesOwnBuffers` | a cell passed to a function is not copied, and the callee frees its cell parameter (`emitExpr.ts:178`; lowerFuncCall.ts:722-723) |
| while_condition | `NeverAhead` | a while condition is lowered before the values its body overwrites are forgotten: `n = 3; while n > 0; ...; n = n - 1; end` never ends (`lowerWhile.ts:21`; loopExactStrip.ts:13) |
| nested_inline | `InlinedBuildIsEquivalent` | a nested body is inlined with the uses counted in it alone: `x = a; if c, x = a + 1; y = x * 2; end; disp(x)` shows the old x (`inlinePass.ts:210`; cli.ts:76-79) |

The last property fails in a second way, without any control flow: in `x = a + 1;
y = 1:sum(x)` the range is taken for the statement that x can be moved into
(`inlinePass.ts:501-514`; `:688-699` finds no bar to it), is left as it is by the
substitution (`:754-759`), and x is removed all the same (`:342-346`), so the range
reads an x that has no value. `InliningKeepsMeaning` fails so on `Inlining.cfg` when
`NotForRangesAlone` is taken out of it.

The passing run of a module states what holds nonetheless, and its inputs or a
named condition stay clear of these (the kinds of `OwnedCodegen.cfg`, the
programs of `MCScalarLowering`, `LocalInBodies` and `NotForRangesAlone`, `Overlooked`,
the projects of `MCCalls`).

Others, seen while modelling and without a run of their own.

Server, client, IDE:

- the cap is tested before `await readBody` and the counter incremented after it:
  requests whose bodies are in flight together all pass, and `CapRespected` is
  false (`server/execution-service.ts:203`, `:232`; docs/web.md:124-126);
- the `close` listener is registered when the child is spawned: a client that
  left during translation or compilation is not noticed, and `AbortReachesChild`
  is false (`:295`; docs/web.md:126-128);
- a stream whose `writeFile` fails or whose translator throws after the head was
  sent is never ended (docs/web.md:115-116 says it closes after `done`);
- a child that cannot be started gets two `done` (docs/web.md: "closes
  immediately after"), the second behind the end of the response;
- `addFile` and `renameFile` compare names with the list as it was before their
  await: two additions in flight get one name (`useProjectFiles.ts:221`);
- one rejected read ends the workspace's load effect for the files behind it
  (`IDEWorkspace.tsx:166`);
- an abort while the body of a refusal is read is reported as a transport error
  (`remoteExecution.ts:204`, unlike `:147`);
- a native run whose compilation failed ends with status `error`
  (`useRemoteExecution.ts:262`; the comment at 259-261 says the status is read off
  the lines);
- an internal error of the translator, or a build that is no base64, rejects the
  promise of `run`, which has no catch: the pill stays at "running" or "compiling",
  Stop aborts a controller nobody listens to, and no run can be started until the
  page is loaded again (`useRemoteExecution.ts:146`, `translate.ts:137`,
  `wasmExecution.ts:195`; docs/web.md:180-185 says what makes Stop work).
  `while sum(a(1:2)) > 0` is such a program (see "Normal form" below);
- a health check answers for settings that have changed since
  (`useRemoteExecution.ts:98-99`).

Generated C and types:

- an early return of a function whose output is a handle is a bare `return;` in a
  function declared to return a struct (`emitStmt.ts:619`; emitFunction.ts:107-109):
  the kind `handle` of `MCOwnedCodegen` breaks `ResultIntact`;
- `s = c{1}` of a string slot leaves two owners of one buffer
  (`emitStmt.ts:237`, `emitExpr.ts:587`; runtime/string_assign.h:4-8): the kind
  `StringSlot` of `MCOwnedCodegen` breaks `HandlesOwnBuffers` at once;
- a caller reads the output's value at the end of the body, whatever it was at an
  earlier return (`lowerFuncCall.ts:867`; :855-856, lower.ts:407-409): the
  programs `MCEarlyReturn` break `RunsAsWritten`;
- the environment at a break or a continue is joined with nothing:
  `x = 1; while c; x = 7; if d, break; end; x = 1; end; disp(x)` shows 1
  (`lowerWhile.ts:33`);
- a loop forgets known values but not signs: in `s = 0; for k = 1:3; s = s + k; end`
  the `s` the body reads is typed "zero" (`loopExactStrip.ts:18`; lower.ts:617-619
  and docs/architecture.md:74-78 call the single pass sound). This is why
  `TypesDescribeValues` leaves signs out in functions with loops;
- a NaN condition is false when folded (`constFold.ts:343`) and true in C
  (`emitStmt.ts:71-73`); 0 and -0 are one known value (`types.ts:1552`).

Reading:

- a file whose functions have no `end` and hold an `arguments` block is refused:
  "arguments" is not among the words counted when the ends are put in
  (`parser/index.ts:61-73`), so the `end` of the block is taken for the function's.
  `ReadsAsWritten` says of these files (`Overlooked`) that they are refused;
- in a row separated by blanks, `[a {b}]`, `[a @f]` and `[a ~b]` are not two
  elements; the arguments of a method call and of braces inside a matrix are still
  read in matrix mode;
- `1...` is a number "1." and two dots, which the comment at tokenizer.ts:385
  says it is not; `a^b'` is `a^(b')`;
- `s.events` and `s.methods` count as block openers when the ends of functions
  are looked for (`parser/index.ts:61-75`);
- `%{` behind code takes the line end with it; `disp [1 2]` throws where an
  assignment's target is tried; two statements on a line need nothing between
  them.

Calls:

- `callSite.className` is set nowhere although lower.ts:370-373 says so: the
  helper functions of a class file are not found, or another is;
- a recursion whose argument has a known value is unrolled, not rejected
  (docs/limitations.md:185, docs/specialization.md), and never ends when types
  grow;
- generated names meet names of the user: `C__m` (lowerClass.ts:562-565 says `__`
  never appears) and `anon_0`;
- statements and `@f` resolve as if called with no arguments, so a method loses to
  a function of the project; `[a, b] = x(1)` with a variable `x` calls a function
  `x`; a function named like a statement builtin loses to it; a file `f.m` that
  calls `f(obj)` with a method `f` is refused; a function hides a class of its name;
- `[b] = h(...)` calls the handle's function with the written arguments alone, and
  its last parameters are the captures: `a = 1; h = @(p) g(p, a); [b] = h(2, 3)` runs
  with a = 3, and `[b] = h(2)` is refused for want of an argument (`lower.ts:984`;
  lowerHandle.ts:86-88): `MultiSpec` of `MCCalls` breaks `CapturesMeanTheSame`;
- a variable named like a constant or a builtin is not captured: `pi = 3;
  h = @(p) g(p, pi)` (`lowerHandle.ts:352`; lowerHandle.ts:82-84): `ShadowSpec` of
  `MCCalls` breaks `CapturesMeanTheSame`;
- classes that inherit from each other hang the validator.

Normal form:

- hoisting passes what must not be reached: `if k <= 3 && sum(a(1:k)) > 0` stops
  at the slice, and an elseif's call runs whether or not it is asked
  (anf.ts:245-249 calls it "semantically fine");
- a while condition is not normalised: `while sum(a(1:2)) > 0` is refused as an
  internal error by the validator (anf.ts:267-277).

## 12. Proofs

All for every value of the constants, under the assumptions named in the
modules (`ServerAssumption`, `ClientAssumption`, `FilesAssumption`, `KindAssumption`,
`GraphAssumption`, `AnalysesAssumption`, `AxesAssumption`, `LexerAssumption`), which
TLC evaluates in the runs. They say what kind of thing a constant is
(`AnalysesAssumption`: that the analyses solve their equations) and bound nothing.

*Execution server.* `TypeCorrect`, `SlotsAreCounted`, `NoOrphans`,
`KillsHaveCause`, `EscalationIsDead` (SIGKILL is never sent, for `child.killed`
is set by the first signal). `SlotAccounting` alone is not inductive:
a step that decrements the counter must know that it was counted, and a child
event that it comes while the handler waits. `IInv` adds `Anchored` (which
handlers have a directory, a child, a timer, a listener), `CloseMeansGone` (a
pending `close` is that of a client that left) and `EscalationIsLate` (the
SIGKILL timer is armed only behind a SIGTERM). `HoldersMove` counts the holders
before and after a step; requests may be any finite set.

*The server implements its contract.* `Implements` is `Spec => ImplementsProtocol`:
under the mapping `Protocol` (a response's phase is read off its status and whether
it has ended; the events are the same) every step of the handler is one step of
`RunProtocol` or none. The mapping is a function of the response alone, the guard
of a protocol step a condition on it, so the proof needs what ties the response to
the handler: `ResponseFollows` gives, for each await, the responses possible there
(`FollowsAt`), and is inductive together with `IInv`. Each action then touches one
request, and its answer moves as the protocol allows. `LateWrites`: the only write
behind `end()` is the second `done` of a child that failed to start, for every
other handler writes before its `finally` block.

*Run client.* `TypeCorrect`; `StopHasItsRun`, `WorkersEnd` and
`CompilingIsNetwork` (the pill says "compiling" while the compile service is asked,
and otherwise only after a run that has thrown) from the inductive `Control`, their conjunction: each needs
the others, since a step knows its run to be the current one only through
`StopReachesTheRun`. `EndedRunsAreSilent` is an action property from it.
`SuccessTakesDone` needs `Earned`: what a run has heard is a prefix of what its
server said, or what its worker posted, and the server says `done` last.

*Project files.* For any finite set of files and any number of edits, deletions,
renames and mishaps: `TypeCorrect`, `TypedKept`, `TypedShown`, `Resurrection`. The
three properties need each other and five facts about what is under way:

| Part of `IInv` | Why it is needed |
|---|---|
| `Kept` | `TypedIsKept` said step by step: the newest text is in the timer, else in the last save of the queue, else in the table |
| `Unborn` | a file whose creation is queued is known nowhere and created once, so its commit overwrites no text |
| `Opening` | until the list has arrived the page does nothing, and the list is the last transaction: it cannot bring back what the page has dropped |
| `Cached` | a text not yet in the table is in the cache, so no read that overtakes its save shows an older one |
| `Doomed` | behind a queued deletion only a text typed since can be saved |

`Grows` and `Drops` say what a step does to the queue (entries appended, some
callers gone; or the head taken), and lemmas about both carry each part over a
step; the `flush` on leaving, a fold over the timers, is known by what it
appends.

*Ownership.* For every graph and every solution of the liveness and freed-set
equations: `HeapIsExact` (no leak, no dangling handle, one owner), `EarlyFreesAreSafe`,
`OnlyOutputsSurvive`. The strengthening is `GoneIsUntouched` (a variable whose
value was freed is touched by nothing that can still run: the liveness equation
pushed forward one edge) and `FreedIsEmpty` (what `freedOwned` records is empty,
so the scope's exit may skip it: the join's intersection).

*The C at run time.* `OwnershipCfg` has graphs, and assumes that a statement
installs new buffers. `OwnedRuntime_proofs` has the structured code itself, with its
branches, loops, breaks, continues and returns, any number of iterations, and
handles of several buffers. First, wherever the frees stand: `TypeCorrect`,
`BuffersOwned` (`HandlesOwnBuffers`), `OutputsReachCaller` (`OutputsAlive`, the first
half of `ResultIntact`). No buffer gets a second owner and none is freed twice,
because a free empties its handle and an assignment copies. The invariant: a handle
has at most one buffer and that has the variable's name (`Own`), and the heap is the
union of the handles while the function runs.

Then, for frees that solve the equations of the analyses: `ValuesAreRead`
(`ReadsFindValue`), `NothingLeaks` (`NoLeak`), `ResultsReachCaller` (`ResultIntact`).
None of the three is inductive: that a statement finds its values depends on every
free made before it, and that nothing leaks on what each exit will free. `JInv` says
it of all the code behind control:

| Part of `JInv` | Says | Why it is needed |
|---|---|---|
| `Way` | the code left ends in the function's exit, each statement leads to the next, every jump finds its loop, and a loop under way has kept freed what it found freed | a jump drops code: what it drops must not be relied on behind it |
| `Ahead` | nothing freed early is touched by what may still run; what the next statement takes to be freed is | the liveness and the freed-set equation, pushed forward a step |
| `Values` | a variable freed early is empty, one that was given a value and not freed early has it | an exit frees exactly the second kind |

The hypotheses, each stated of the code as it is and checked of compiled code:

| Hypothesis | Says | Holds |
|---|---|---|
| `Closed` | what running the code leads to is in it | of what `Compile` emits (`CompiledCode`) |
| `Copies` | no slot of a cell installed as it is, no cell handed to a function | except in the two places of section 11 where the code does not copy |
| `SparesOutputs` | no way out frees an output | `ScopeExit` subtracts them (`FreesAreJustified`) |
| `HandsOver` | no early return from a function whose one output is a handle | except in the case of section 11 |
| `Analysed`, `Linked`, `WholeBody` | `liveness.ts`'s and `freedOwned`'s equations, statement by statement | at every step of `owned` (`FreesAreJustified`) |

What is left to TLC is that the compiler, which is recursive over syntax, solves
these equations.

*Types.* For every integer and any set of axes: `JoinSignSound` and
`JoinSignLeast` (the join is the least upper bound), `ArithSignSound`, `ArithSound` (an
elementwise operation's type, sizes and broadcasting included, describes what the C
computes of any arrays of its operands' types),
`UnifySound` (what either type describes, the join describes), `UnifyOrder`
(commutative and associative, so the order of the arms does not matter),
`WideningKeepsStorage` and `AbsentKeepsStorage` (a widened type still needs the C
variable it was given; this is what lets `SlotsFit` hold at joins). They are
proved through explicit forms of the operators (`JoinSignIs`, `UnifyFields`).

*Lexer.* For every file: `CoversText` (`TokensCoverText`) and `GetsFurther` (each step
advances and stays in the file, so the loop of `tokenizeDetailed` ends). The
invariant `Read` is the same property of what lies behind `pos`: the tokens so far
are in order and end there, and every other character is layout. A step either
adds a token from its first to its last character or passes layout, and has one
lemma per kind of token. `FrontEnd` satisfies `LexSpec`: its `Lexing` is `Lex` and
its other actions leave the lexer's variables as they are.

*Specialization.* For every project and whatever the resolver answers:
`NeverTwice` (`NoneTwice`), `CalleesEmittedFirst` (`CalleesComeFirst`), `FoundByKey`. A
body is opened only when its key is in neither the cache nor on the stack, and
emitted when it is closed, which is after all it opened: `IInv` says this of the
whole stack (`WellStacked`, `WellEmitted`), with each recorded call of an open body
already in the order of emission. `FoundByKey` is the half of `RunsItsOwnBody` that
does not depend on the data: the body found was lowered in the file, and for
arguments of the canonical form, that the call's key names.

`OwnBody` (`RunsItsOwnBody`) and `CapturesKept` (`CapturesMeanTheSame`) are about the data
too, with the resolver, the registry and the index as they are. Both assume that the
project is `WellWritten`, which speaks of its files alone: they hold sequences of
statements, the lowering name and the file's place tell the functions apart
(`DeclaredFunctions`), and the names made up for anonymous functions are new (section
11 has names that are not: `C__m`, `anon_0`; without this the cache does hand out a
wrong body). That the registry holds nothing else, however the files are registered,
is the invariant `Filing`: each file and class is kept under the name its place gives
it (`FileFiled`, `FoldersFiled`, `LocalFiled`), and the index is that of the registry.
It makes what the lowering sees a `Program` in every state (`IsProgram`).
`CapturesKept` also assumes `[]KeepsCaptures`, which leaves out `[b] = h(...)` and
captured variables named like constants or builtins (section 11), and no more. TLC
finds `WellWritten` true of every project of `calls` (with 13 names for all those
made up) and `KeepsCaptures` true in every state, and `KeepsCaptures` false under
`MultiSpec` and `ShadowSpec`.

The argument has three parts. What `resolve` answers is a function the project holds
(`Held`, by the cases of its order of precedence: `ResolveTold`, `ConstructorTold`), so
with what handles hold, every callee is a function of the project or of a handle made
before (`CalleeFine`, one lemma per kind of call). The canonical form tells types
apart (`CanonTells`): for handles because an anonymous function has a name of its own,
and a captured handle was made before the one that holds it, which is the induction.
And a key, which has the lowering name, the place and the canonical types, then tells
the body (`MadeTells`, `CacheTells`). The invariant `Sound(T, w)` speaks of the set `T` of
handles made so far, which no variable of the code keeps: what is on the stack, in
the cache and in an environment is made of numbers, objects and members of `T`; each
member of `T` has captured what its body names (when `w`), and each body sees under
its captures' names what `T` says. A step makes at most one handle (`NewHandle`), and
`AllSound` says that there is such a set.

## 13. Only model-checked, and not modelled

Only checked by TLC, with the reason:

- everything under fairness (`Served`, `RunStreamEnds`, `StopWorks`,
  `ClosedStreamEnds`, `EveryFileIsShown`, `EditReachesDisk`, `Finishes`): the prover
  has no rule for it;
- `FreesAreJustified` in `OwnedCodegen`: where the frees stand is computed by recursion
  over syntax, for which the prover has no induction. What follows from it is
  proved in `OwnedRuntime_proofs`;
- `ScalarLowering`, `TempInlining`, and `ReadsAsWritten` and `RejectsMixedEnds` of
  `FrontEnd`: a translation is compared with a meaning, both recursive over syntax.
  `TypeLattice_proofs` has the joins that `TypesDescribeValues` and `SlotsFit` rest on;
- `CallsWhatMatlabCalls`: the reference (`CallMeaning`) follows the parents of a class
  by recursion, and the registry by its own. That what is found is a function of the
  project is proved (`ResolveTold`), that it is MATLAB's is not.

The type invariants of the server, the client, the project files, the generated C
and the control-flow graphs are proved; those of the other modules are left to be
read: the properties say more.

Not modelled, with the reason, under "components" in `PROJECT.json`: expression
emitters and the numeric runtime (numbers, not control), aggregates (planned),
the builtins table, the command line (sequential), the pages' layout.

Left out inside modelled parts: switch, try, multiple assignment, strings and
complex numbers in `ScalarLowering`, where a call is one of a function that is
already typed (`Specialization` has the calls); fields, slots and captures with
owners of their own in `OwnedCodegen`; creating, renaming and deleting whole
projects in `ProjectFiles`; what sections 8 to 10 name for the newer modules.

## 14. Running the checks

`tlc -workers 2 -config X.cfg M` for each run of `PROJECT.json`, `tlapm M_proofs.tla`
for each proof module. A definition named `<Definition>_<Fault>` and marked
"seeded" is a plausible fault: replacing the definition by it must make the run
fail at the property that `PROJECT.json` pairs it with.
