---------------------------- MODULE ProjectFiles ----------------------------
(***************************************************************************)
(* The files of one open project: src/hooks/useProjectFiles.ts over        *)
(* src/db/operations.ts, and the decoded mirror of them that               *)
(* src/components/IDEWorkspace.tsx edits.  What the user typed lives in a  *)
(* cache in memory and reaches IndexedDB by a debounced save; adding,      *)
(* deleting and renaming await the database and then apply what they       *)
(* decided before they waited.                                             *)
(*                                                                         *)
(* IndexedDB runs transactions with overlapping scopes in the order they   *)
(* were created, so the transactions in flight are one queue (external).   *)
(* A content is the number of the edit that produced it; 0 is the empty    *)
(* file.  Names are numbers: n >= 1 stands for untitled<n>.m.              *)
(***************************************************************************)
EXTENDS Integers, Sequences, FiniteSets, SequencesExt, FiniteSetsExt

CONSTANTS
    Files,        \* the ids crypto.randomUUID() may produce
    NoFile,       \* the empty string, as a file id
    MaxName,      \* bound: names are 0..MaxName (model only)
    MaxEdits,     \* bound: edits of a behaviour (model only)
    MaxMishaps,   \* bound: failed transactions and times the page is left (model only)
    MaxRenames,   \* bound: renames of a behaviour (model only)
    MaxDeletes    \* bound: deletions of a behaviour (model only)

ASSUME FilesAssumption ==
    /\ IsFiniteSet(Files)
    /\ NoFile \notin Files /\ Files # {}
    /\ MaxName \in Nat /\ MaxEdits \in Nat /\ MaxMishaps \in Nat
    /\ MaxRenames \in Nat /\ MaxDeletes \in Nat

Names == 0..MaxName
Contents == 0..MaxEdits

VARIABLES
    rows,     \* table files: id -> path
    blobs,    \* table fileContents: id -> data
    txs,      \* transactions created and not yet finished
    files,    \* React state: the file list, id -> name
    active,   \* React state: activeFileId
    loading,  \* React state: the list has not arrived yet
    cache,    \* contentCacheRef
    pending,  \* pendingSavesRef: id -> data its armed timer will save
    contents, \* IDEWorkspace's decoded mirror: id -> text
    loaded,   \* IDEWorkspace's loadedRef
    fetching, \* the file the load effect awaits
    typed,    \* history: what the user last typed into each file
    asked,    \* history: what a file held when its deletion was asked for
    failed,   \* history: files a transaction of which failed
    used,     \* history: ids handed out
    budget    \* edits, mishaps, renames and deletions so far

db   == <<rows, blobs>>
hook == <<files, active, loading, cache, pending>>
view == <<contents, loaded, fetching>>
hist == <<typed, asked, failed, used>>
vars == <<db, txs, hook, view, hist, budget>>

None == [x \in {} |-> 0]
Put(f, x, v) == [y \in DOMAIN f \cup {x} |-> IF y = x THEN v ELSE f[y]]
Without(f, x) == [y \in DOMAIN f \ {x} |-> f[y]]

\* A transaction and who waits for it: its caller ("waited"), a load effect
\* that has been cancelled ("cancelled"), nobody ("gone").  A deletion carries
\* the files that may become active after it, as its closure saw them.
Tx(op, f, v) == [op |-> op, file |-> f, arg |-> v, by |-> "waited", rest |-> {}]
Save(f) == [Tx("save", f, pending[f]) EXCEPT !.by = "gone"]

Abandon(q) == [i \in DOMAIN q |-> [q[i] EXCEPT !.by = "gone"]]

\* The file list has changed: the load effect is cancelled and runs again.
RestartEffect(q) ==
    /\ txs' = [i \in DOMAIN q |->
                  IF q[i].op = "get" /\ q[i].by = "waited"
                  THEN [q[i] EXCEPT !.by = "cancelled"] ELSE q[i]]
    /\ fetching' = NoFile

Init ==
    /\ used = {CHOOSE f \in Files : TRUE}
    /\ rows = [f \in used |-> 0] /\ blobs = [f \in used |-> 0]
    /\ txs = <<Tx("list", NoFile, 0)>>
    /\ files = None /\ active = NoFile /\ loading = TRUE
    /\ cache = None /\ pending = None
    /\ contents = None /\ loaded = {} /\ fetching = NoFile
    /\ typed = None /\ asked = None /\ failed = {}
    /\ budget = [edits |-> 0, mishaps |-> 0, renames |-> 0, deletes |-> 0]

Spend(what, limit) ==
    /\ budget[what] < limit
    /\ budget' = [budget EXCEPT ![what] = @ + 1]

\* Seeded: the file is marked as loaded before the await.
LoadNext_MarksFirst(f) ==
    /\ ~loading /\ fetching = NoFile
    /\ f \in DOMAIN files \ loaded
    /\ loaded' = loaded \cup {f}
    /\ IF f \in DOMAIN cache
       THEN /\ contents' = IF f \in DOMAIN contents THEN contents ELSE Put(contents, f, cache[f])
            /\ UNCHANGED <<txs, fetching>>
       ELSE /\ txs' = Append(txs, Tx("get", f, 0))
            /\ fetching' = f
            /\ UNCHANGED contents
    /\ UNCHANGED <<db, hook, hist, budget>>

-----------------------------------------------------------------------------
\* The load effect: the next file not loaded yet is read, from the cache at
\* once or from the database.
LoadNext(f) ==
    /\ ~loading /\ fetching = NoFile
    /\ f \in DOMAIN files \ loaded
    /\ IF f \in DOMAIN cache
       THEN /\ loaded' = loaded \cup {f}
            /\ contents' = IF f \in DOMAIN contents THEN contents ELSE Put(contents, f, cache[f])
            /\ UNCHANGED <<txs, fetching>>
       ELSE /\ txs' = Append(txs, Tx("get", f, 0))
            /\ fetching' = f
            /\ UNCHANGED <<loaded, contents>>
    /\ UNCHANGED <<db, hook, hist, budget>>

\* Seeded: a timer that is armed already is left alone.
ScheduleSave_KeepsFirst(f, v) ==
    pending' = IF f \in DOMAIN pending THEN pending ELSE Put(pending, f, v)

\* scheduleSave: the file's timer is armed again with the newest data.
ScheduleSave(f, v) == pending' = Put(pending, f, v)

\* handleChange and updateFileContent; the editor is there only for a listed
\* file whose text has been mirrored.
Edit ==
    /\ ~loading /\ active \in DOMAIN files \cap DOMAIN contents
    /\ Spend("edits", MaxEdits)
    /\ LET v == budget.edits + 1 IN
       /\ contents' = Put(contents, active, v)
       /\ cache' = Put(cache, active, v)
       /\ ScheduleSave(active, v)
       /\ typed' = Put(typed, active, v)
    /\ UNCHANGED <<db, txs, files, active, loading, loaded, fetching, asked, failed, used>>

Select(f) ==
    /\ ~loading /\ f \in DOMAIN files \ {active}
    /\ active' = f
    /\ UNCHANGED <<db, txs, files, loading, cache, pending, view, hist, budget>>

\* The debounce timer of f fires.
SaveTimer(f) ==
    /\ f \in DOMAIN pending
    /\ txs' = Append(txs, Save(f))
    /\ pending' = Without(pending, f)
    /\ UNCHANGED <<db, files, active, loading, cache, view, hist, budget>>

\* Seeded: only the active file is flushed.
FlushAllSaves_ActiveOnly(q) == IF active \in DOMAIN pending THEN Append(q, Save(active)) ELSE q

\* flushAllSaves: every pending save becomes a transaction now.
FlushAllSaves(q) ==
    LET order == SetToSeq(DOMAIN pending)
    IN q \o [i \in DOMAIN order |-> Save(order[i])]

\* visibilitychange to hidden; the page stays.
Hide ==
    /\ pending # None
    /\ txs' = FlushAllSaves(txs)
    /\ pending' = None
    /\ UNCHANGED <<db, files, active, loading, cache, view, hist, budget>>

\* pagehide or unmount, then the project is opened again: the hook starts
\* afresh, the transactions go on without anyone waiting for them.
Leave ==
    /\ Spend("mishaps", MaxMishaps)
    /\ txs' = Append(Abandon(FlushAllSaves(txs)), Tx("list", NoFile, 0))
    /\ files' = None /\ active' = NoFile /\ loading' = TRUE
    /\ cache' = None /\ pending' = None
    /\ contents' = None /\ loaded' = {} /\ fetching' = NoFile
    /\ UNCHANGED <<db, hist>>

\* generateUniqueName: the first untitled name the list does not hold.
GenerateUniqueName(n) ==
    /\ n \in Names \ {0}
    /\ n \notin Range(files)
    /\ \A m \in 1..(n - 1) : m \in Range(files)

\* addFile up to its await.
AddFile(f, n) ==
    /\ ~loading /\ f \in Files \ used
    /\ GenerateUniqueName(n)
    /\ used' = used \cup {f}
    /\ txs' = Append(txs, Tx("create", f, n))
    /\ UNCHANGED <<db, hook, view, typed, asked, failed, budget>>

\* Seeded: the pending save is left armed.
CancelSave_Not(f) == pending' = pending

CancelSave(f) == pending' = Without(pending, f)

\* handleDeleteFile up to its await: it cancels the file's save, and remembers
\* what the list and the active file were when it was called.
DeleteFile(f) ==
    /\ ~loading /\ f \in DOMAIN files
    /\ Spend("deletes", MaxDeletes)
    /\ CancelSave(f)
    /\ txs' = Append(txs, [Tx("delete", f, 0) EXCEPT !.rest =
                               IF active # f THEN {}
                               ELSE IF DOMAIN files = {f} THEN {NoFile}
                               ELSE DOMAIN files \ {f}])
    /\ asked' = Put(asked, f, budget.edits)
    /\ UNCHANGED <<db, files, active, loading, cache, view, typed, failed, used>>

\* handleRenameFile up to its await; a name the list holds already is refused.
RenameFile(f, n) ==
    /\ ~loading /\ f \in DOMAIN files
    /\ \A g \in DOMAIN files \ {f} : files[g] # n
    /\ Spend("renames", MaxRenames)
    /\ txs' = Append(txs, Tx("rename", f, n))
    /\ UNCHANGED <<db, hook, view, hist>>

-----------------------------------------------------------------------------
\* What a transaction does to the tables.
Commit(t) ==
    CASE t.op = "create" -> rows' = Put(rows, t.file, t.arg) /\ blobs' = Put(blobs, t.file, 0)
      [] t.op = "save"   -> blobs' = Put(blobs, t.file, t.arg) /\ UNCHANGED rows
      [] t.op = "delete" -> rows' = Without(rows, t.file) /\ blobs' = Without(blobs, t.file)
      [] t.op = "rename" -> /\ rows' = IF t.file \in DOMAIN rows THEN Put(rows, t.file, t.arg) ELSE rows
                            /\ UNCHANGED blobs
      [] OTHER -> UNCHANGED db

\* A transaction nobody waits for commits.
TxAlone ==
    /\ txs # <<>> /\ Head(txs).by = "gone"
    /\ Commit(Head(txs))
    /\ txs' = Tail(txs)
    /\ UNCHANGED <<hook, view, hist, budget>>

\* The oldest transaction, of kind op, commits and its caller goes on.
Awaited(op) ==
    /\ txs # <<>> /\ Head(txs).op = op /\ Head(txs).by # "gone"
    /\ Commit(Head(txs))
    /\ UNCHANGED <<hist, budget, pending>>

\* The list arrives, and IDEWorkspace is mounted.
Listed ==
    /\ Awaited("list")
    /\ files' = rows
    /\ loading' = FALSE
    /\ active' \in IF rows = None THEN {NoFile} ELSE DOMAIN rows
    /\ txs' = Tail(txs)
    /\ UNCHANGED <<cache, view>>

\* getFileContent: a missing record reads as the empty file.
GetFileContent(f) == IF f \in DOMAIN blobs THEN blobs[f] ELSE 0

\* loadFileContent: the bytes enter the cache unless the user was faster, and
\* the mirror if the effect that asked for them is still the current one.
Loaded ==
    LET f == Head(txs).file
        data == IF f \in DOMAIN cache THEN cache[f] ELSE GetFileContent(f)
    IN /\ Awaited("get")
       /\ txs' = Tail(txs)
       /\ cache' = Put(cache, f, data)
       /\ IF Head(txs).by = "waited"
          THEN /\ loaded' = loaded \cup {f}
               /\ contents' = IF f \in DOMAIN contents THEN contents ELSE Put(contents, f, data)
               /\ fetching' = NoFile
          ELSE UNCHANGED view
       /\ UNCHANGED <<files, active, loading>>

\* addFile after its await.
Created ==
    LET t == Head(txs) IN
    /\ Awaited("create")
    /\ files' = Put(files, t.file, t.arg)
    /\ cache' = Put(cache, t.file, 0)
    /\ active' = t.file
    /\ RestartEffect(Tail(txs))
    /\ UNCHANGED <<loading, contents, loaded>>

\* handleDeleteFile after its await.
Deleted ==
    LET t == Head(txs) IN
    /\ Awaited("delete")
    /\ files' = Without(files, t.file)
    /\ cache' = Without(cache, t.file)
    /\ active' \in IF t.rest = {} THEN {active} ELSE t.rest
    /\ RestartEffect(Tail(txs))
    /\ UNCHANGED <<loading, contents, loaded>>

\* handleRenameFile after its await.
Renamed ==
    LET t == Head(txs) IN
    /\ Awaited("rename")
    /\ files' = IF t.file \in DOMAIN files THEN Put(files, t.file, t.arg) ELSE files
    /\ RestartEffect(Tail(txs))
    /\ UNCHANGED <<active, loading, cache, contents, loaded>>

\* The oldest transaction fails: every caller logs the error and gives up.  The
\* list leaves an empty project, a read leaves its effect stuck.
TxFails ==
    /\ txs # <<>>
    /\ Spend("mishaps", MaxMishaps)
    /\ failed' = failed \cup {Head(txs).file}
    /\ txs' = Tail(txs)
    /\ loading' = (loading /\ ~(Head(txs).op = "list" /\ Head(txs).by = "waited"))
    /\ UNCHANGED <<db, files, active, cache, pending, view, typed, asked, used>>

-----------------------------------------------------------------------------
TxEnds == TxAlone \/ Listed \/ Loaded \/ Created \/ Deleted \/ Renamed

User ==
    \/ Edit \/ Hide \/ Leave
    \/ \E f \in Files : Select(f) \/ DeleteFile(f)
    \/ \E f \in Files, n \in Names : AddFile(f, n) \/ RenameFile(f, n)

Next ==
    \/ User \/ TxEnds \/ TxFails
    \/ \E f \in Files : SaveTimer(f) \/ LoadNext(f)

\* IndexedDB finishes what it was given, timers fire, effects run; what the
\* user does, and failures, are never owed.
Fairness ==
    /\ WF_vars(TxEnds)
    /\ \A f \in Files : WF_vars(SaveTimer(f)) /\ WF_vars(LoadNext(f))

Spec == Init /\ [][Next]_vars
LiveSpec == Spec /\ Fairness

-----------------------------------------------------------------------------
\* Every variable has its type; a file's transactions, timers and texts are
\* those of ids that were handed out.
PartialOn(f, S, T) == DOMAIN f \subseteq S /\ \A x \in DOMAIN f : f[x] \in T

TypeOK ==
    /\ used \subseteq Files
    /\ PartialOn(rows, used, Names) /\ PartialOn(files, used, Names)
    /\ \A f \in {blobs, cache, pending, contents, typed, asked} : PartialOn(f, used, Contents)
    /\ active \in used \cup {NoFile} /\ fetching \in used \cup {NoFile}
    /\ loaded \subseteq used /\ failed \subseteq used \cup {NoFile}
    /\ loading \in BOOLEAN
    /\ \A i \in DOMAIN txs :
         /\ txs[i].op \in {"list", "get", "save", "create", "delete", "rename"}
         /\ txs[i].file \in used \cup {NoFile}
         /\ txs[i].arg \in Names \cup Contents
         /\ txs[i].by \in {"waited", "cancelled", "gone"}
         /\ txs[i].rest \subseteq used \cup {NoFile}

\* Files whose text is owed to the user: typed into, not asked to be deleted,
\* and spared by the database.
Owed == DOMAIN typed \ (DOMAIN asked \cup failed)

\* The text of f that is newest among the timer, the transactions and the
\* table.
LastWrite(f) ==
    LET saves == {i \in DOMAIN txs : txs[i].op = "save" /\ txs[i].file = f}
    IN IF f \in DOMAIN pending THEN pending[f]
       ELSE IF saves # {} THEN txs[Max(saves)].arg
       ELSE IF f \in DOMAIN blobs THEN blobs[f] ELSE -1

\* What the user last typed into a file is at all times the newest text on its
\* way to the database or in it, through switching files, hiding the page and
\* leaving it inside the debounce window (useProjectFiles.ts, flushAllSaves).
TypedIsKept == \A f \in Owed : LastWrite(f) = typed[f]

\* Whatever the editor and the translator are given is what was typed last,
\* after any number of reloads and cancelled loads (docs/web.md, Persistence).
ShownIsTyped ==
    \A f \in Owed :
        /\ f \in DOMAIN contents => contents[f] = typed[f]
        /\ f \in DOMAIN cache => cache[f] = typed[f]

\* A text typed before its file was deleted does not come back to the table
\* after the deletion: handleDeleteFile cancels the save that would bring it.
NoResurrection ==
    \A f \in DOMAIN asked \ failed :
        f \in DOMAIN blobs \ DOMAIN rows =>
            \/ blobs[f] > asked[f]
            \/ \E i \in DOMAIN txs : txs[i].op = "delete" /\ txs[i].file = f

\* Every listed file gets its text mirrored, however often the load effect is
\* cancelled (IDEWorkspace.tsx, the comment on marking a file as loaded), as
\* long as the database answers: one failed read stops the effect for all.
EveryFileIsShown ==
    \A f \in Files :
        f \in DOMAIN files ~> (f \in DOMAIN contents \/ f \notin DOMAIN files \/ failed # {})

\* Every edit is in the database some day, or a newer one is, or the file was
\* given up.
EditReachesDisk ==
    \A f \in Files, v \in 1..MaxEdits :
        (f \in DOMAIN typed /\ typed[f] = v)
            ~> (f \notin Owed \/ (f \in DOMAIN blobs /\ blobs[f] >= v))
=============================================================================
