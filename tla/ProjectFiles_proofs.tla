------------------------ MODULE ProjectFiles_proofs ------------------------
(***************************************************************************)
(* What holds of the files of a project for any set of files and any       *)
(* number of edits, deletions, renames, failures and reloads: what the     *)
(* user typed is neither lost, nor shown otherwise, nor brought back after *)
(* its file was deleted.                                                   *)
(***************************************************************************)
EXTENDS ProjectFiles, FiniteSetTheorems, SequenceTheorems, WellFoundedInduction, TLAPS

-----------------------------------------------------------------------------
(* The inductive invariant.                                                 *)

Ops == {"list", "get", "save", "create", "delete", "rename"}
Txs == [op : Ops, file : Files \cup {NoFile}, arg : Names \cup Contents,
        by : {"waited", "cancelled", "gone"}, rest : SUBSET (Files \cup {NoFile})]

\* A transaction for the files of S, with an argument of its operation's type.
Fits(t, S) ==
    /\ t.file \in S \cup {NoFile} /\ t.rest \subseteq S \cup {NoFile}
    /\ t.op # "list" => t.file \in S
    /\ t.op \in {"create", "rename"} => t.arg \in Names
    /\ t.op = "save" => t.arg \in Contents

\* Types, with the queue as a sequence.
TypeInv ==
    /\ used \subseteq Files
    /\ txs \in Seq(Txs)
    /\ \A i \in DOMAIN txs : Fits(txs[i], used)
    /\ PartialOn(rows, used, Names) /\ PartialOn(files, used, Names)
    /\ PartialOn(blobs, used, Contents) /\ PartialOn(cache, used, Contents)
    /\ PartialOn(pending, used, Contents) /\ PartialOn(contents, used, Contents)
    /\ PartialOn(typed, used, Contents) /\ PartialOn(asked, used, Contents)
    /\ active \in used \cup {NoFile} /\ fetching \in used \cup {NoFile}
    /\ loaded \subseteq used /\ failed \subseteq used \cup {NoFile}
    /\ loading \in BOOLEAN
    /\ budget \in [edits : 0..MaxEdits, mishaps : 0..MaxMishaps,
                   renames : 0..MaxRenames, deletes : 0..MaxDeletes]

SaveOf(t, f) == t.op = "save" /\ t.file = f

\* The newest text of f among the transactions q and the table b is v.
NewestIs(q, b, f, v) ==
    /\ \A i \in DOMAIN q :
         SaveOf(q[i], f) /\ (\A j \in DOMAIN q : i < j => ~SaveOf(q[j], f)) => q[i].arg = v
    /\ (\A i \in DOMAIN q : ~SaveOf(q[i], f)) => f \in DOMAIN b /\ b[f] = v

\* TypedIsKept without the search for the last save.
Kept ==
    \A f \in Owed :
        IF f \in DOMAIN pending THEN pending[f] = typed[f]
        ELSE NewestIs(txs, blobs, f, typed[f])

\* A file whose creation is on its way is known nowhere yet, and there is one
\* creation of it: its commit overwrites no text.
Unborn ==
    \A i \in DOMAIN txs : txs[i].op = "create" =>
        /\ txs[i].file \notin DOMAIN rows \cup DOMAIN files \cup DOMAIN typed
        /\ \A j \in DOMAIN txs : i # j /\ txs[j].op = "create" => txs[i].file # txs[j].file

\* Until the list has arrived the page does nothing, and all that was left by
\* the page before it is ahead of the list in the queue.
Opening ==
    IF loading
    THEN /\ txs # <<>>
         /\ txs[Len(txs)].op = "list" /\ txs[Len(txs)].by = "waited"
         /\ \A i \in 1..(Len(txs) - 1) : txs[i].by = "gone"
         /\ pending = None
    ELSE \A i \in DOMAIN txs : txs[i].op = "list" => txs[i].by = "gone"

\* A text of this page that is not in the table yet is in the cache, so that no
\* read behind its save can bring an older one.
Cached ==
    /\ \A f \in DOMAIN pending : f \in DOMAIN cache \cup DOMAIN asked
    /\ ~loading => \A i \in DOMAIN txs :
                      txs[i].op = "save" => txs[i].file \in DOMAIN cache \cup DOMAIN asked

\* Only a text typed since a deletion was asked for can be saved behind it.
Doomed ==
    /\ \A i \in DOMAIN txs : txs[i].op = "delete" => txs[i].file \in DOMAIN asked
    /\ \A f \in DOMAIN asked :
        /\ asked[f] <= budget.edits
        /\ f \in DOMAIN pending => pending[f] > asked[f]
        /\ f \notin failed =>
             \A i \in DOMAIN txs : SaveOf(txs[i], f) =>
                \/ txs[i].arg > asked[f]
                \/ \E j \in DOMAIN txs : i < j /\ txs[j].op = "delete" /\ txs[j].file = f

IInv == TypeInv /\ Kept /\ ShownIsTyped /\ Unborn /\ Opening /\ Cached /\ Doomed /\ NoResurrection

-----------------------------------------------------------------------------
(* Queues.                                                                  *)

\* Who waits for a transaction apart, the two are one.
Alike(t, u) == t.op = u.op /\ t.file = u.file /\ t.arg = u.arg

\* q2 is q with transactions added at its end, or without its first one.
Grows(q, q2) == Len(q) <= Len(q2) /\ \A i \in 1..Len(q) : Alike(q[i], q2[i])
Drops(q, q2) == q # <<>> /\ Len(q2) = Len(q) - 1 /\ \A i \in 1..Len(q2) : Alike(q[i + 1], q2[i])

\* What is added behind the newest text of f leaves it, or is a newer one.
LEMMA NewestGrows ==
    ASSUME NEW q \in Seq(Txs), NEW q2 \in Seq(Txs), Grows(q, q2), NEW b, NEW f, NEW v,
           \A i \in (Len(q) + 1)..Len(q2) : SaveOf(q2[i], f) => q2[i].arg = v,
           \/ NewestIs(q, b, f, v)
           \/ \E i \in (Len(q) + 1)..Len(q2) : SaveOf(q2[i], f)
    PROVE  NewestIs(q2, b, f, v)
<1>1. \A i \in 1..Len(q) : q2[i].arg = q[i].arg /\ (SaveOf(q2[i], f) <=> SaveOf(q[i], f))
    BY DEF Grows, Alike, SaveOf
<1>2. /\ DOMAIN q = 1..Len(q) /\ DOMAIN q2 = 1..Len(q2)
      /\ Len(q) \in Nat /\ Len(q2) \in Nat /\ Len(q) <= Len(q2)
    BY DEF Grows
<1>3. ASSUME NEW i \in DOMAIN q2, SaveOf(q2[i], f), \A j \in DOMAIN q2 : i < j => ~SaveOf(q2[j], f)
      PROVE  q2[i].arg = v
  <2>1. CASE i > Len(q)
      BY <1>2, <1>3, <2>1
  <2>2. CASE i <= Len(q)
    <3>1. i \in DOMAIN q /\ SaveOf(q[i], f)
        BY <1>1, <1>2, <1>3, <2>2
    <3>2. \A j \in DOMAIN q : i < j => ~SaveOf(q[j], f)
        BY <1>1, <1>2, <1>3, <2>2
    <3>3. ~\E j \in (Len(q) + 1)..Len(q2) : SaveOf(q2[j], f)
        BY <1>2, <1>3, <2>2
    <3>4. q[i].arg = v
        BY <3>1, <3>2, <3>3 DEF NewestIs
    <3> QED BY <1>1, <1>2, <2>2, <3>4
  <2> QED BY <1>2, <2>1, <2>2
<1>4. ASSUME \A i \in DOMAIN q2 : ~SaveOf(q2[i], f) PROVE f \in DOMAIN b /\ b[f] = v
  <2>1. \A i \in DOMAIN q : ~SaveOf(q[i], f)
      BY <1>1, <1>2, <1>4
  <2>2. ~\E j \in (Len(q) + 1)..Len(q2) : SaveOf(q2[j], f)
      BY <1>2, <1>4
  <2> QED BY <2>1, <2>2 DEF NewestIs
<1> QED BY <1>3, <1>4 DEF NewestIs

\* The first transaction ends: if it is a save of f, its text is in the table.
LEMMA NewestDrops ==
    ASSUME NEW q \in Seq(Txs), NEW q2 \in Seq(Txs), Drops(q, q2), NEW b, NEW b2, NEW f, NEW v,
           NewestIs(q, b, f, v),
           IF SaveOf(q[1], f) THEN f \in DOMAIN b2 /\ b2[f] = q[1].arg
           ELSE f \in DOMAIN b => f \in DOMAIN b2 /\ b2[f] = b[f]
    PROVE  NewestIs(q2, b2, f, v)
<1>1. \A i \in 1..Len(q2) : q2[i].arg = q[i + 1].arg /\ (SaveOf(q2[i], f) <=> SaveOf(q[i + 1], f))
    BY DEF Drops, Alike, SaveOf
<1>2. /\ DOMAIN q = 1..Len(q) /\ DOMAIN q2 = 1..Len(q2)
      /\ Len(q) \in Nat /\ Len(q2) \in Nat /\ Len(q2) = Len(q) - 1
      /\ 1 \in DOMAIN q
    BY DEF Drops
<1>3. ASSUME NEW i \in DOMAIN q2, SaveOf(q2[i], f), \A j \in DOMAIN q2 : i < j => ~SaveOf(q2[j], f)
      PROVE  q2[i].arg = v
  <2>1. i + 1 \in DOMAIN q /\ SaveOf(q[i + 1], f)
      BY <1>1, <1>2, <1>3
  <2>2. ASSUME NEW j \in DOMAIN q, i + 1 < j PROVE ~SaveOf(q[j], f)
    <3>1. j - 1 \in DOMAIN q2 /\ i < j - 1 /\ (j - 1) + 1 = j
        BY <1>2, <2>2
    <3>2. ~SaveOf(q2[j - 1], f)
        BY <1>3, <3>1
    <3> QED BY <1>1, <1>2, <3>1, <3>2
  <2>3. q[i + 1].arg = v
      BY <2>1, <2>2 DEF NewestIs
  <2> QED BY <1>1, <1>2, <2>3
<1>4. ASSUME \A i \in DOMAIN q2 : ~SaveOf(q2[i], f) PROVE f \in DOMAIN b2 /\ b2[f] = v
  <2>1. ASSUME NEW j \in DOMAIN q, 1 < j PROVE ~SaveOf(q[j], f)
    <3>1. j - 1 \in DOMAIN q2 /\ (j - 1) + 1 = j
        BY <1>2, <2>1
    <3> QED BY <1>1, <1>2, <1>4, <3>1
  <2>2. CASE SaveOf(q[1], f)
    <3>1. q[1].arg = v
        BY <1>2, <2>1, <2>2 DEF NewestIs
    <3> QED BY <2>2, <3>1
  <2>3. CASE ~SaveOf(q[1], f)
    <3>1. \A j \in DOMAIN q : ~SaveOf(q[j], f)
        BY <1>2, <2>1, <2>3
    <3>2. f \in DOMAIN b /\ b[f] = v
        BY <3>1 DEF NewestIs
    <3> QED BY <2>3, <3>2
  <2> QED BY <2>2, <2>3
<1> QED BY <1>3, <1>4 DEF NewestIs

\* A set of files as a sequence (SetToSeq) has each of them.
LEMMA SetToSeqIsOnto ==
    ASSUME NEW S, IsFiniteSet(S)
    PROVE  /\ SetToSeq(S) \in Seq(S)
           /\ \A x \in S : \E i \in DOMAIN SetToSeq(S) : SetToSeq(S)[i] = x
<1> DEFINE n == Cardinality(S)
           s == SetToSeq(S)
<1>1. n \in Nat /\ ExistsBijection(1..n, S)
    BY FS_CardinalityType
<1>2. \E g \in [1..n -> S] : IsInjective(g)
    BY <1>1 DEF ExistsBijection, Bijection, Injection
<1>3. s \in [1..n -> S] /\ IsInjective(s)
    BY <1>2 DEF SetToSeq
<1>4. s \in Injection(1..n, S)
    BY <1>3 DEF Injection
<1>5. Cardinality(1..n) = n
    BY <1>1, FS_Interval
<1>6. s \in Surjection(1..n, S)
    BY <1>4, <1>5, FS_Injection
<1>7. \A x \in S : \E i \in 1..n : s[i] = x
    BY <1>6 DEF Surjection
<1>8. s \in Seq(S) /\ DOMAIN s = 1..n
    BY <1>1, <1>3
<1> QED BY <1>7, <1>8

\* The two ways of ending a sequence, in terms of its positions.
LEMMA AppendGrows ==
    ASSUME NEW q \in Seq(Txs), NEW t \in Txs
    PROVE  /\ Append(q, t) \in Seq(Txs) /\ Grows(q, Append(q, t))
           /\ Len(Append(q, t)) = Len(q) + 1
           /\ Append(q, t)[Len(q) + 1] = t
           /\ \A i \in 1..Len(q) : Append(q, t)[i] = q[i]
    BY DEF Grows, Alike

LEMMA TailDrops ==
    ASSUME NEW q \in Seq(Txs), q # <<>>
    PROVE  /\ Tail(q) \in Seq(Txs) /\ Drops(q, Tail(q))
           /\ \A i \in DOMAIN Tail(q) : i + 1 \in DOMAIN q /\ Tail(q)[i] = q[i + 1]
           /\ Head(q) = q[1] /\ 1 \in DOMAIN q
    BY DEF Drops, Alike

\* Running the load effect again changes who waits, not what is waited for.
LEMMA RestartDrops ==
    ASSUME NEW q \in Seq(Txs), q # <<>>, RestartEffect(Tail(q))
    PROVE  /\ txs' \in Seq(Txs) /\ Drops(q, txs')
           /\ \A i \in DOMAIN txs' :
                /\ i + 1 \in DOMAIN q /\ txs'[i].rest = q[i + 1].rest
                /\ txs'[i].by = "gone" <=> q[i + 1].by = "gone"
           /\ fetching' = NoFile
<1> DEFINE r(t) == IF t.op = "get" /\ t.by = "waited" THEN [t EXCEPT !.by = "cancelled"] ELSE t
<1>1. /\ Tail(q) \in Seq(Txs) /\ Drops(q, Tail(q))
      /\ \A i \in DOMAIN Tail(q) : i + 1 \in DOMAIN q /\ Tail(q)[i] = q[i + 1]
    BY TailDrops
<1>2. ASSUME NEW t \in Txs
      PROVE  /\ r(t) \in Txs /\ Alike(t, r(t)) /\ r(t).rest = t.rest
             /\ r(t).by = "gone" <=> t.by = "gone"
    BY DEF Txs, Alike
<1>3. txs' = [i \in DOMAIN Tail(q) |-> r(Tail(q)[i])] /\ fetching' = NoFile
    BY DEF RestartEffect
<1>4. DOMAIN Tail(q) = 1..Len(Tail(q)) /\ Len(Tail(q)) \in Nat /\ \A i \in DOMAIN Tail(q) : Tail(q)[i] \in Txs
    BY <1>1
<1> HIDE DEF r
<1>5. txs' \in Seq(Txs) /\ Len(txs') = Len(Tail(q)) /\ DOMAIN txs' = DOMAIN Tail(q)
    BY <1>2, <1>3, <1>4
<1>6. \A i \in DOMAIN txs' : /\ Alike(q[i + 1], txs'[i]) /\ txs'[i].rest = q[i + 1].rest
                             /\ txs'[i].by = "gone" <=> q[i + 1].by = "gone"
    BY <1>1, <1>2, <1>3, <1>4, <1>5
<1>7. Drops(q, txs')
    BY <1>1, <1>4, <1>5, <1>6 DEF Drops
<1> QED BY <1>1, <1>3, <1>5, <1>6, <1>7

\* q2 is q with a save of every pending text added, and nothing else of weight.
Flushes(q, q2) ==
    /\ Grows(q, q2)
    /\ \A i \in (Len(q) + 1)..Len(q2) :
         \/ q2[i].op = "list" /\ q2[i].file = NoFile
         \/ q2[i].op = "save" /\ q2[i].file \in DOMAIN pending /\ q2[i].arg = pending[q2[i].file]
    /\ \A f \in DOMAIN pending : \E i \in (Len(q) + 1)..Len(q2) : SaveOf(q2[i], f)

\* flushAllSaves forgets no timer, whatever order it takes them in.
LEMMA FlushFlushes ==
    ASSUME TypeInv
    PROVE  /\ FlushAllSaves(txs) \in Seq(Txs) /\ Flushes(txs, FlushAllSaves(txs))
           /\ \A i \in 1..Len(txs) : FlushAllSaves(txs)[i] = txs[i]
           /\ \A i \in (Len(txs) + 1)..Len(FlushAllSaves(txs)) :
                /\ FlushAllSaves(txs)[i].op = "save"
                /\ FlushAllSaves(txs)[i].file \in DOMAIN pending
                /\ FlushAllSaves(txs)[i].by = "gone"
                /\ FlushAllSaves(txs)[i].rest = {}
<1> DEFINE o == SetToSeq(DOMAIN pending)
           s == [i \in DOMAIN o |-> Save(o[i])]
           q2 == txs \o s
<1>1. DOMAIN pending \subseteq Files /\ \A f \in DOMAIN pending : pending[f] \in Contents
    BY DEF TypeInv, PartialOn
<1>2. IsFiniteSet(DOMAIN pending)
    BY <1>1, FilesAssumption, FS_Subset
<1>3. o \in Seq(DOMAIN pending) /\ \A f \in DOMAIN pending : \E i \in DOMAIN o : o[i] = f
    BY <1>2, SetToSeqIsOnto
<1> HIDE DEF o
<1>4. ASSUME NEW f \in DOMAIN pending
      PROVE  /\ Save(f) \in Txs /\ SaveOf(Save(f), f) /\ Save(f).arg = pending[f]
             /\ Save(f).file = f /\ Save(f).op = "save" /\ Save(f).by = "gone" /\ Save(f).rest = {}
    BY <1>1 DEF Save, Tx, Txs, Ops, SaveOf
<1>5. s \in Seq(Txs) /\ Len(s) = Len(o) /\ \A i \in 1..Len(s) : o[i] \in DOMAIN pending /\ s[i] = Save(o[i])
    BY <1>3, <1>4
<1>6. DOMAIN o = 1..Len(o) /\ Len(o) \in Nat /\ Len(txs) \in Nat /\ txs \in Seq(Txs)
    BY <1>3 DEF TypeInv
<1> HIDE DEF s
<1>7. /\ q2 \in Seq(Txs) /\ Len(q2) = Len(txs) + Len(s)
      /\ \A i \in 1..Len(txs) : q2[i] = txs[i]
      /\ \A i \in 1..Len(s) : q2[Len(txs) + i] = s[i]
    BY <1>5, <1>6
<1>8. \A i \in (Len(txs) + 1)..Len(q2) : \E f \in DOMAIN pending : q2[i] = Save(f)
  <2>1. SUFFICES ASSUME NEW i \in (Len(txs) + 1)..Len(q2) PROVE \E f \in DOMAIN pending : q2[i] = Save(f)
      OBVIOUS
  <2>2. i - Len(txs) \in 1..Len(s) /\ Len(txs) + (i - Len(txs)) = i
      BY <1>5, <1>6, <1>7
  <2> QED BY <1>5, <1>7, <2>2
<1>9. ASSUME NEW f \in DOMAIN pending PROVE \E i \in (Len(txs) + 1)..Len(q2) : SaveOf(q2[i], f)
  <2>1. PICK i \in 1..Len(o) : o[i] = f
      BY <1>3, <1>6
  <2>2. Len(txs) + i \in (Len(txs) + 1)..Len(q2) /\ q2[Len(txs) + i] = Save(f)
      BY <1>5, <1>6, <1>7, <2>1
  <2> QED BY <1>4, <2>2
<1>10. q2 = FlushAllSaves(txs)
    BY DEF FlushAllSaves, o, s
<1> HIDE DEF q2
<1>11. Grows(txs, q2)
    BY <1>5, <1>6, <1>7 DEF Grows, Alike
<1>12. Flushes(txs, q2)
    BY <1>4, <1>8, <1>9, <1>11 DEF Flushes
<1> QED BY <1>4, <1>7, <1>8, <1>10, <1>12

\* Leaving flushes too; the list asked for next is all anybody waits for.
LEMMA LeaveFlushes ==
    ASSUME TypeInv, Leave
    PROVE  /\ txs' \in Seq(Txs) /\ Flushes(txs, txs')
           /\ txs' # <<>> /\ txs'[Len(txs')] = Tx("list", NoFile, 0)
           /\ \A i \in 1..(Len(txs') - 1) :
                /\ txs'[i].by = "gone"
                /\ \/ i \in DOMAIN txs /\ txs'[i].file = txs[i].file /\ txs'[i].rest = txs[i].rest
                   \/ txs'[i].file \in DOMAIN pending /\ txs'[i].rest = {}
<1> DEFINE q == FlushAllSaves(txs)
           g(t) == [t EXCEPT !.by = "gone"]
           a == Abandon(q)
           l == Tx("list", NoFile, 0)
<1>1. /\ q \in Seq(Txs) /\ Flushes(txs, q)
      /\ \A i \in 1..Len(txs) : q[i] = txs[i]
      /\ \A i \in (Len(txs) + 1)..Len(q) : q[i].file \in DOMAIN pending /\ q[i].rest = {}
    BY FlushFlushes
<1> HIDE DEF q
<1>2. ASSUME NEW t \in Txs
      PROVE  g(t) \in Txs /\ Alike(t, g(t)) /\ g(t).by = "gone" /\ g(t).rest = t.rest
    BY DEF Txs, Alike
<1>3. /\ DOMAIN q = 1..Len(q) /\ Len(q) \in Nat /\ Len(txs) \in Nat /\ DOMAIN txs = 1..Len(txs)
      /\ \A i \in 1..Len(q) : q[i] \in Txs
    BY <1>1 DEF TypeInv
<1>4. /\ a \in Seq(Txs) /\ Len(a) = Len(q) /\ DOMAIN a = 1..Len(a)
      /\ \A i \in 1..Len(a) : Alike(q[i], a[i]) /\ a[i].by = "gone" /\ a[i].rest = q[i].rest
  <2>1. a = [i \in DOMAIN q |-> g(q[i])]
      BY DEF Abandon
  <2> HIDE DEF g, a
  <2> QED BY <1>2, <1>3, <2>1
<1> HIDE DEF a
<1>5. l \in Txs /\ l.op = "list" /\ l.file = NoFile
    BY FilesAssumption DEF Tx, Txs, Ops, Names, Contents
<1>6. txs' = Append(a, l)
    BY DEF Leave, a, q
<1> HIDE DEF l
<1>7. /\ txs' \in Seq(Txs) /\ Len(txs') = Len(q) + 1 /\ txs'[Len(q) + 1] = l
      /\ \A i \in 1..Len(q) : txs'[i] = a[i]
    BY <1>4, <1>5, <1>6, AppendGrows
<1>8. /\ Grows(txs, q) /\ Len(txs) <= Len(q)
      /\ \A i \in (Len(txs) + 1)..Len(q) :
         \/ q[i].op = "list" /\ q[i].file = NoFile
         \/ q[i].op = "save" /\ q[i].file \in DOMAIN pending /\ q[i].arg = pending[q[i].file]
      /\ \A f \in DOMAIN pending : \E i \in (Len(txs) + 1)..Len(q) : SaveOf(q[i], f)
    BY <1>1 DEF Flushes, Grows
<1>9. \A i \in 1..Len(q) : Alike(q[i], txs'[i]) /\ txs'[i].by = "gone" /\ txs'[i].rest = q[i].rest
    BY <1>4, <1>7
<1>10. Grows(txs, txs')
    BY <1>1, <1>3, <1>7, <1>8, <1>9 DEF Grows, Alike
<1>11. \A i \in (Len(txs) + 1)..Len(txs') :
         \/ txs'[i].op = "list" /\ txs'[i].file = NoFile
         \/ txs'[i].op = "save" /\ txs'[i].file \in DOMAIN pending /\ txs'[i].arg = pending[txs'[i].file]
    BY <1>3, <1>5, <1>7, <1>8, <1>9 DEF Alike
<1>12. \A f \in DOMAIN pending : \E i \in (Len(txs) + 1)..Len(txs') : SaveOf(txs'[i], f)
    BY <1>3, <1>7, <1>8, <1>9 DEF Alike, SaveOf
<1>13. ASSUME NEW i \in 1..(Len(txs') - 1)
       PROVE  \/ i \in DOMAIN txs /\ txs'[i].file = txs[i].file /\ txs'[i].rest = txs[i].rest
              \/ txs'[i].file \in DOMAIN pending /\ txs'[i].rest = {}
  <2>1. i \in 1..Len(q) /\ txs'[i].file = q[i].file /\ txs'[i].rest = q[i].rest
      BY <1>3, <1>7, <1>9 DEF Alike
  <2>2. CASE i \in 1..Len(txs)
      BY <1>1, <1>3, <2>1, <2>2
  <2>3. CASE i \in (Len(txs) + 1)..Len(q)
      BY <1>1, <2>1, <2>3
  <2> QED BY <1>3, <1>8, <2>1, <2>2, <2>3
<1>14. \A i \in 1..(Len(txs') - 1) : txs'[i].by = "gone"
    BY <1>3, <1>7, <1>9
<1>15. Flushes(txs, txs')
    BY <1>10, <1>11, <1>12 DEF Flushes
<1>16. txs' # <<>> /\ txs'[Len(txs')] = l
    BY <1>3, <1>7
<1> QED BY <1>7, <1>13, <1>14, <1>15, <1>16 DEF l

-----------------------------------------------------------------------------
(* Tables and types.                                                        *)

LEMMA PutIsPartial ==
    ASSUME NEW f, NEW S, NEW T, PartialOn(f, S, T), NEW x \in S, NEW v \in T
    PROVE  PartialOn(Put(f, x, v), S, T)
    BY DEF PartialOn, Put

LEMMA WithoutIsPartial ==
    ASSUME NEW f, NEW S, NEW T, PartialOn(f, S, T), NEW x
    PROVE  PartialOn(Without(f, x), S, T)
    BY DEF PartialOn, Without

\* Ids are never taken back.
LEMMA PartialGrows ==
    ASSUME NEW f, NEW S, NEW S2, S \subseteq S2, NEW T, PartialOn(f, S, T)
    PROVE  PartialOn(f, S2, T)
    BY DEF PartialOn

LEMMA NoneIsPartial == \A S, T : PartialOn(None, S, T)
    BY DEF PartialOn, None

LEMMA PutValues ==
    ASSUME NEW f, NEW x, NEW v
    PROVE  /\ DOMAIN Put(f, x, v) = DOMAIN f \cup {x} /\ Put(f, x, v)[x] = v
           /\ \A y \in DOMAIN f : y # x => Put(f, x, v)[y] = f[y]
    BY DEF Put

LEMMA WithoutValues ==
    ASSUME NEW f, NEW x
    PROVE  /\ DOMAIN Without(f, x) = DOMAIN f \ {x}
           /\ \A y \in DOMAIN f : y # x => Without(f, x)[y] = f[y]
    BY DEF Without

\* What each kind of transaction does to the tables.
LEMMA Commits ==
    ASSUME NEW t, Commit(t)
    PROVE  /\ t.op = "create" => rows' = Put(rows, t.file, t.arg) /\ blobs' = Put(blobs, t.file, 0)
           /\ t.op = "save"   => blobs' = Put(blobs, t.file, t.arg) /\ rows' = rows
           /\ t.op = "delete" => rows' = Without(rows, t.file) /\ blobs' = Without(blobs, t.file)
           /\ t.op = "rename" => /\ rows' = IF t.file \in DOMAIN rows THEN Put(rows, t.file, t.arg) ELSE rows
                                 /\ blobs' = blobs
           /\ t.op \notin {"create", "save", "delete", "rename"} => rows' = rows /\ blobs' = blobs
<1>1. CASE t.op = "create"
    BY <1>1 DEF Commit
<1>2. CASE t.op = "save"
    BY <1>2 DEF Commit
<1>3. CASE t.op = "delete"
    BY <1>3 DEF Commit
<1>4. CASE t.op = "rename"
    BY <1>4 DEF Commit
<1>5. CASE t.op \notin {"create", "save", "delete", "rename"}
    BY <1>5, Zenon DEF Commit, db
<1> QED BY <1>1, <1>2, <1>3, <1>4, <1>5

\* The oldest transaction is over, one way or the other.
Ends == TxEnds \/ TxFails

\* Whoever goes on after it, the queue only lost it.
LEMMA EndsDrops ==
    ASSUME TypeInv, Ends
    PROVE  /\ txs # <<>> /\ 1 \in DOMAIN txs
           /\ txs' \in Seq(Txs) /\ Drops(txs, txs')
           /\ \A i \in DOMAIN txs' :
                /\ i + 1 \in DOMAIN txs /\ txs'[i].rest = txs[i + 1].rest
                /\ txs'[i].by = "gone" <=> txs[i + 1].by = "gone"
           /\ used' = used /\ pending' = pending /\ typed' = typed /\ asked' = asked
<1>1. txs \in Seq(Txs)
    BY DEF TypeInv
<1>2. txs # <<>>
    BY Zenon DEF Ends, TxEnds, TxAlone, Listed, Loaded, Created, Deleted, Renamed, Awaited, TxFails
<1>3. txs' = Tail(txs) \/ RestartEffect(Tail(txs))
    BY Zenon DEF Ends, TxEnds, TxAlone, Listed, Loaded, Created, Deleted, Renamed, TxFails
<1>4. used' = used /\ pending' = pending /\ typed' = typed /\ asked' = asked
    BY DEF Ends, TxEnds, TxAlone, Listed, Loaded, Created, Deleted, Renamed, Awaited, TxFails, hook, hist
<1>5. 1 \in DOMAIN txs
    BY <1>1, <1>2, TailDrops
<1>6. CASE txs' = Tail(txs)
    BY <1>1, <1>2, <1>4, <1>5, <1>6, TailDrops
<1>7. CASE RestartEffect(Tail(txs))
    BY <1>1, <1>2, <1>4, <1>5, <1>7, RestartDrops
<1> QED BY <1>3, <1>6, <1>7

\* What ended was committed, unless it failed.
LEMMA EndsCommits ==
    ASSUME TypeInv, Ends
    PROVE  \/ TxEnds /\ Commit(txs[1]) /\ failed' = failed /\ budget' = budget
           \/ TxFails /\ rows' = rows /\ blobs' = blobs /\ failed' = failed \cup {txs[1].file}
<1>1. Head(txs) = txs[1]
    BY EndsDrops, TailDrops DEF TypeInv
<1>2. CASE TxAlone \/ Listed \/ Loaded \/ Created \/ Deleted \/ Renamed
  <2>1. Commit(Head(txs))
      BY <1>2, Zenon DEF TxAlone, Listed, Loaded, Created, Deleted, Renamed, Awaited
  <2>2. failed' = failed /\ budget' = budget
      BY <1>2 DEF TxAlone, Listed, Loaded, Created, Deleted, Renamed, Awaited, hist
  <2> QED BY <1>1, <1>2, <2>1, <2>2, Zenon DEF TxEnds
<1>3. CASE TxFails
    BY <1>1, <1>3 DEF TxFails, db
<1> QED BY <1>2, <1>3, Zenon DEF Ends, TxEnds

LEMMA InitType == Init => TypeInv
<1> SUFFICES ASSUME Init PROVE TypeInv
    OBVIOUS
<1> DEFINE f0 == CHOOSE f \in Files : TRUE
<1>1. f0 \in Files
    BY FilesAssumption
<1>2. used = {f0} /\ rows = [f \in used |-> 0] /\ blobs = [f \in used |-> 0]
    BY DEF Init
<1> HIDE DEF f0
<1>3. 0 \in Names /\ 0 \in Contents
    BY FilesAssumption DEF Names, Contents
<1>4. PartialOn(rows, used, Names) /\ PartialOn(blobs, used, Contents)
    BY <1>2, <1>3 DEF PartialOn
<1>5. /\ PartialOn(files, used, Names) /\ PartialOn(cache, used, Contents)
      /\ PartialOn(pending, used, Contents) /\ PartialOn(contents, used, Contents)
      /\ PartialOn(typed, used, Contents) /\ PartialOn(asked, used, Contents)
    BY NoneIsPartial DEF Init
<1>6. txs \in Seq(Txs) /\ \A i \in DOMAIN txs : Fits(txs[i], used)
  <2>1. Tx("list", NoFile, 0) \in Txs /\ Fits(Tx("list", NoFile, 0), used)
      BY <1>3 DEF Tx, Txs, Ops, Fits
  <2>2. txs = <<Tx("list", NoFile, 0)>>
      BY DEF Init
  <2> QED BY <2>1, <2>2
<1>7. budget \in [edits : 0..MaxEdits, mishaps : 0..MaxMishaps,
                  renames : 0..MaxRenames, deletes : 0..MaxDeletes]
    BY FilesAssumption DEF Init
<1> QED BY <1>1, <1>2, <1>4, <1>5, <1>6, <1>7 DEF TypeInv, Init

\* Fewer transactions, or the same ones, fit as before.
LEMMA FitsAlike ==
    ASSUME NEW t, NEW u, Alike(t, u), NEW S, NEW S2, S \subseteq S2, Fits(t, S), u.rest \subseteq S \cup {NoFile}
    PROVE  Fits(u, S2)
    BY DEF Alike, Fits

\* One more transaction.
LEMMA FitsAppend ==
    ASSUME TypeInv, NEW S, used \subseteq S, NEW t \in Txs, Fits(t, S)
    PROVE  Append(txs, t) \in Seq(Txs) /\ \A i \in DOMAIN Append(txs, t) : Fits(Append(txs, t)[i], S)
<1>1. txs \in Seq(Txs) /\ \A i \in DOMAIN txs : Fits(txs[i], used)
    BY DEF TypeInv
<1>2. \A i \in DOMAIN txs : Fits(txs[i], S)
    BY <1>1 DEF Fits
<1> QED BY <1>1, <1>2, AppendGrows

\* The budgets stay within their bounds.
LEMMA SpendType ==
    ASSUME TypeInv, UNCHANGED budget \/ Spend("edits", MaxEdits) \/ Spend("mishaps", MaxMishaps)
                    \/ Spend("renames", MaxRenames) \/ Spend("deletes", MaxDeletes)
    PROVE  budget' \in [edits : 0..MaxEdits, mishaps : 0..MaxMishaps,
                        renames : 0..MaxRenames, deletes : 0..MaxDeletes]
<1> USE FilesAssumption DEF TypeInv
<1>1. CASE UNCHANGED budget
    BY <1>1
<1>2. CASE Spend("edits", MaxEdits)
    BY <1>2 DEF Spend
<1>3. CASE Spend("mishaps", MaxMishaps)
    BY <1>3 DEF Spend
<1>4. CASE Spend("renames", MaxRenames)
    BY <1>4 DEF Spend
<1>5. CASE Spend("deletes", MaxDeletes)
    BY <1>5 DEF Spend
<1> QED BY <1>1, <1>2, <1>3, <1>4, <1>5

LEMMA NextType == TypeInv /\ [Next]_vars => TypeInv'
<1> SUFFICES ASSUME TypeInv, [Next]_vars PROVE TypeInv'
    OBVIOUS
<1>0. /\ used \subseteq Files /\ txs \in Seq(Txs) /\ \A i \in DOMAIN txs : Fits(txs[i], used)
      /\ 0 \in Names /\ 0 \in Contents /\ NoFile \notin used
      /\ DOMAIN txs = 1..Len(txs) /\ Len(txs) \in Nat
    BY FilesAssumption DEF TypeInv, Names, Contents
<1> DEFINE Bs == [edits : 0..MaxEdits, mishaps : 0..MaxMishaps,
                  renames : 0..MaxRenames, deletes : 0..MaxDeletes]
<1>1. CASE UNCHANGED vars
    BY <1>1 DEF TypeInv, vars, db, hook, view, hist
<1>2. CASE Edit
  <2>1. budget' \in Bs
      BY <1>2, SpendType DEF Edit
  <2>2. budget.edits + 1 \in Contents /\ active \in used
      BY <1>2, FilesAssumption DEF Edit, Spend, TypeInv, Contents, PartialOn
  <2>3. /\ PartialOn(contents', used, Contents) /\ PartialOn(cache', used, Contents)
        /\ PartialOn(pending', used, Contents) /\ PartialOn(typed', used, Contents)
      BY <1>2, <2>2, PutIsPartial, Zenon DEF Edit, ScheduleSave, TypeInv
  <2> QED BY <1>2, <2>1, <2>3 DEF Edit, TypeInv, db
<1>3. CASE Hide
  <2>1. \A i \in DOMAIN txs' : Fits(txs'[i], used)
    <3>1. /\ txs' = FlushAllSaves(txs) /\ txs' \in Seq(Txs)
          /\ \A i \in 1..Len(txs) : txs'[i] = txs[i]
          /\ \A i \in (Len(txs) + 1)..Len(txs') :
               txs'[i].op = "save" /\ txs'[i].file \in DOMAIN pending /\ txs'[i].rest = {}
          /\ \A i \in (Len(txs) + 1)..Len(txs') : txs'[i].op = "list" \/ txs'[i].arg = pending[txs'[i].file]
        BY <1>3, FlushFlushes DEF Hide, Flushes
    <3>2. DOMAIN pending \subseteq used /\ \A f \in DOMAIN pending : pending[f] \in Contents
        BY DEF TypeInv, PartialOn
    <3>3. \A i \in (Len(txs) + 1)..Len(txs') : Fits(txs'[i], used)
        BY <3>1, <3>2 DEF Fits
    <3> QED BY <1>0, <3>1, <3>3
  <2>2. PartialOn(pending', used, Contents)
      BY <1>3, NoneIsPartial DEF Hide
  <2>3. txs' \in Seq(Txs)
      BY <1>3, FlushFlushes DEF Hide
  <2> QED BY <1>3, <2>1, <2>2, <2>3 DEF Hide, TypeInv, db, view, hist
<1>4. CASE Leave
  <2>1. /\ txs' \in Seq(Txs) /\ Flushes(txs, txs')
        /\ txs' # <<>> /\ txs'[Len(txs')] = Tx("list", NoFile, 0)
        /\ \A i \in 1..(Len(txs') - 1) :
             \/ i \in DOMAIN txs /\ txs'[i].file = txs[i].file /\ txs'[i].rest = txs[i].rest
             \/ txs'[i].file \in DOMAIN pending /\ txs'[i].rest = {}
      BY <1>4, LeaveFlushes
  <2>2. DOMAIN pending \subseteq used /\ \A f \in DOMAIN pending : pending[f] \in Contents
      BY DEF TypeInv, PartialOn
  <2>3. ASSUME NEW i \in DOMAIN txs' PROVE Fits(txs'[i], used)
    <3>1. CASE i = Len(txs')
        BY <1>0, <2>1, <3>1 DEF Fits, Tx
    <3>2. CASE i \in 1..(Len(txs') - 1) /\ i \in 1..Len(txs)
      <4>1. Fits(txs[i], used)
          BY <1>0, <3>2
      <4>2. Alike(txs[i], txs'[i])
          BY <2>1, <3>2 DEF Flushes, Grows
      <4>3. txs'[i].rest \subseteq used \cup {NoFile}
          BY <2>1, <3>2, <4>1 DEF Fits
      <4> QED BY <4>1, <4>2, <4>3, FitsAlike
    <3>3. CASE i \in 1..(Len(txs') - 1) /\ i \notin 1..Len(txs)
      <4>1. i \in (Len(txs) + 1)..Len(txs')
          BY <1>0, <2>1, <3>3
      <4>2. \/ txs'[i].op = "list" /\ txs'[i].file = NoFile
            \/ txs'[i].op = "save" /\ txs'[i].file \in DOMAIN pending /\ txs'[i].arg = pending[txs'[i].file]
          BY <2>1, <4>1 DEF Flushes
      <4>3. txs'[i].rest = {}
          BY <1>0, <2>1, <3>3
      <4> QED BY <2>2, <4>2, <4>3 DEF Fits
    <3>4. DOMAIN txs' = 1..Len(txs') /\ Len(txs') \in Nat
        BY <2>1
    <3> QED BY <3>1, <3>2, <3>3, <3>4
  <2>4. \A S, T : PartialOn(files', S, T) /\ PartialOn(cache', S, T) /\ PartialOn(pending', S, T) /\ PartialOn(contents', S, T)
      BY <1>4, NoneIsPartial DEF Leave
  <2>5. budget' \in Bs
      BY <1>4, SpendType DEF Leave
  <2>6. /\ active' = NoFile /\ loading' = TRUE /\ loaded' = {} /\ fetching' = NoFile /\ used' = used
        /\ rows' = rows /\ blobs' = blobs /\ typed' = typed /\ asked' = asked /\ failed' = failed
      BY <1>4 DEF Leave, db, hist
  <2> QED BY <2>1, <2>3, <2>4, <2>5, <2>6 DEF TypeInv
<1>5. ASSUME NEW f \in Files, Select(f) PROVE TypeInv'
    BY <1>5 DEF Select, TypeInv, db, view, hist, PartialOn
<1>6. ASSUME NEW f \in Files, DeleteFile(f) PROVE TypeInv'
  <2> DEFINE t == [Tx("delete", f, 0) EXCEPT !.rest = IF active # f THEN {}
                       ELSE IF DOMAIN files = {f} THEN {NoFile} ELSE DOMAIN files \ {f}]
  <2>1. f \in used /\ DOMAIN files \subseteq used /\ txs' = Append(txs, t)
      BY <1>6 DEF DeleteFile, TypeInv, PartialOn
  <2>2. t \in Txs /\ Fits(t, used)
      BY <1>0, <2>1 DEF Tx, Txs, Ops, Fits
  <2> HIDE DEF t
  <2>3. txs' \in Seq(Txs) /\ \A i \in DOMAIN txs' : Fits(txs'[i], used)
      BY <2>1, <2>2, FitsAppend
  <2>4. PartialOn(pending', used, Contents)
      BY <1>6, WithoutIsPartial DEF DeleteFile, CancelSave, TypeInv
  <2>5. budget.edits \in Contents
      BY DEF TypeInv, Contents
  <2>6. PartialOn(asked', used, Contents)
      BY <1>6, <2>1, <2>5, PutIsPartial DEF DeleteFile, TypeInv
  <2>7. budget' \in Bs
      BY <1>6, SpendType DEF DeleteFile
  <2> QED BY <1>6, <2>3, <2>4, <2>6, <2>7 DEF DeleteFile, TypeInv, db, view
<1>7. ASSUME NEW f \in Files, NEW n \in Names, AddFile(f, n) PROVE TypeInv'
  <2>1. used' = used \cup {f} /\ used' \subseteq Files /\ used \subseteq used'
      BY <1>0, <1>7 DEF AddFile
  <2>2. Tx("create", f, n) \in Txs /\ Fits(Tx("create", f, n), used')
      BY <2>1 DEF Tx, Txs, Ops, Fits
  <2>3. txs' \in Seq(Txs) /\ \A i \in DOMAIN txs' : Fits(txs'[i], used')
      BY <1>7, <2>1, <2>2, FitsAppend DEF AddFile
  <2>4. /\ PartialOn(rows, used', Names) /\ PartialOn(files, used', Names)
        /\ PartialOn(blobs, used', Contents) /\ PartialOn(cache, used', Contents)
        /\ PartialOn(pending, used', Contents) /\ PartialOn(contents, used', Contents)
        /\ PartialOn(typed, used', Contents) /\ PartialOn(asked, used', Contents)
      BY <2>1, PartialGrows DEF TypeInv
  <2>5. UNCHANGED <<rows, files, blobs, cache, pending, contents, typed, asked, active, fetching, loaded, failed, loading, budget>>
      BY <1>7 DEF AddFile, db, hook, view
  <2> QED BY <2>1, <2>3, <2>4, <2>5 DEF TypeInv
<1>8. ASSUME NEW f \in Files, NEW n \in Names, RenameFile(f, n) PROVE TypeInv'
  <2>1. f \in used
      BY <1>8 DEF RenameFile, TypeInv, PartialOn
  <2>2. Tx("rename", f, n) \in Txs /\ Fits(Tx("rename", f, n), used)
      BY <2>1 DEF Tx, Txs, Ops, Fits
  <2>3. txs' \in Seq(Txs) /\ \A i \in DOMAIN txs' : Fits(txs'[i], used)
      BY <1>8, <2>2, FitsAppend DEF RenameFile
  <2>4. budget' \in Bs
      BY <1>8, SpendType DEF RenameFile
  <2> QED BY <1>8, <2>3, <2>4 DEF RenameFile, TypeInv, db, hook, view, hist
<1>9. ASSUME NEW f \in Files, SaveTimer(f) PROVE TypeInv'
  <2>1. f \in used /\ pending[f] \in Contents
      BY <1>9 DEF SaveTimer, TypeInv, PartialOn
  <2>2. Save(f) \in Txs /\ Fits(Save(f), used)
      BY <1>0, <2>1 DEF Save, Tx, Txs, Ops, Fits
  <2>3. txs' \in Seq(Txs) /\ \A i \in DOMAIN txs' : Fits(txs'[i], used)
      BY <1>9, <2>2, FitsAppend DEF SaveTimer
  <2>4. PartialOn(pending', used, Contents)
      BY <1>9, WithoutIsPartial DEF SaveTimer, TypeInv
  <2> QED BY <1>9, <2>3, <2>4 DEF SaveTimer, TypeInv, db, view, hist
<1>10. ASSUME NEW f \in Files, LoadNext(f) PROVE TypeInv'
  <2>1. f \in used
      BY <1>10 DEF LoadNext, TypeInv, PartialOn
  <2>2. UNCHANGED <<used, rows, files, blobs, cache, pending, typed, asked, active, failed, loading, budget>>
      BY <1>10 DEF LoadNext, db, hook, hist
  <2>3. CASE f \in DOMAIN cache
    <3>1. cache[f] \in Contents
        BY <2>3 DEF TypeInv, PartialOn
    <3>2. PartialOn(contents', used, Contents)
        BY <1>10, <2>1, <2>3, <3>1, PutIsPartial DEF LoadNext, TypeInv
    <3>3. txs' = txs /\ fetching' = fetching /\ loaded' \subseteq used
        BY <1>10, <2>1, <2>3 DEF LoadNext, TypeInv
    <3> QED BY <2>2, <3>2, <3>3 DEF TypeInv
  <2>4. CASE f \notin DOMAIN cache
    <3>1. Tx("get", f, 0) \in Txs /\ Fits(Tx("get", f, 0), used)
        BY <1>0, <2>1 DEF Tx, Txs, Ops, Fits
    <3>2. txs' = Append(txs, Tx("get", f, 0)) /\ fetching' = f /\ loaded' = loaded /\ contents' = contents
        BY <1>10, <2>4 DEF LoadNext
    <3>3. txs' \in Seq(Txs) /\ \A i \in DOMAIN txs' : Fits(txs'[i], used)
        BY <3>1, <3>2, FitsAppend
    <3> QED BY <2>1, <2>2, <3>2, <3>3 DEF TypeInv
  <2> QED BY <2>3, <2>4
<1>11. CASE Ends
  <2> DEFINE t == txs[1]
  <2>1. /\ txs' \in Seq(Txs) /\ Drops(txs, txs') /\ txs # <<>> /\ 1 \in DOMAIN txs
        /\ \A i \in DOMAIN txs' : i + 1 \in DOMAIN txs /\ txs'[i].rest = txs[i + 1].rest
        /\ used' = used /\ pending' = pending /\ typed' = typed /\ asked' = asked
      BY <1>11, EndsDrops
  <2>2. ASSUME NEW i \in DOMAIN txs' PROVE Fits(txs'[i], used')
    <3>1. Fits(txs[i + 1], used) /\ txs'[i].rest = txs[i + 1].rest
        BY <1>0, <2>1
    <3>2. Alike(txs[i + 1], txs'[i])
        BY <2>1 DEF Drops
    <3>3. txs'[i].rest \subseteq used \cup {NoFile}
        BY <3>1 DEF Fits
    <3> QED BY <2>1, <3>1, <3>2, <3>3, FitsAlike
  <2>3. Head(txs) = t /\ t \in Txs /\ Fits(t, used)
      BY <1>0, <2>1, TailDrops
  <2> HIDE DEF t
  <2>4. /\ t.rest \subseteq used \cup {NoFile}
        /\ t.op # "list" => t.file \in used
        /\ t.op \in {"create", "rename"} => t.arg \in Names
        /\ t.op = "save" => t.arg \in Contents
        /\ t.op \in Ops /\ t.file \in used \cup {NoFile}
      BY <2>3 DEF Fits, Txs
  <2>5. PartialOn(rows', used, Names) /\ PartialOn(blobs', used, Contents)
    <3>1. PartialOn(rows, used, Names) /\ PartialOn(blobs, used, Contents)
        BY DEF TypeInv
    <3>2. CASE rows' = rows /\ blobs' = blobs
        BY <3>1, <3>2
    <3>3. CASE Commit(t)
      <4>1. CASE t.op = "create"
          BY <1>0, <2>4, <3>1, <3>3, <4>1, Commits, PutIsPartial
      <4>2. CASE t.op = "save"
          BY <2>4, <3>1, <3>3, <4>2, Commits, PutIsPartial
      <4>3. CASE t.op = "delete"
          BY <3>1, <3>3, <4>3, Commits, WithoutIsPartial
      <4>4. CASE t.op = "rename"
        <5>1. PartialOn(Put(rows, t.file, t.arg), used, Names)
            BY <2>4, <3>1, <4>4, PutIsPartial
        <5> QED BY <3>1, <3>3, <4>4, <5>1, Commits
      <4>5. CASE t.op \notin {"create", "save", "delete", "rename"}
          BY <3>1, <3>3, <4>5, Commits
      <4> QED BY <4>1, <4>2, <4>3, <4>4, <4>5
    <3> QED BY <1>11, <3>2, <3>3, EndsCommits DEF t
  <2>6. /\ PartialOn(files', used, Names) /\ PartialOn(cache', used, Contents)
        /\ PartialOn(contents', used, Contents)
        /\ active' \in used \cup {NoFile} /\ fetching' \in used \cup {NoFile}
        /\ loaded' \subseteq used /\ failed' \subseteq used \cup {NoFile}
        /\ loading' \in BOOLEAN /\ budget' \in Bs
    <3>0. /\ PartialOn(files, used, Names) /\ PartialOn(cache, used, Contents) /\ PartialOn(contents, used, Contents)
          /\ PartialOn(rows, used, Names) /\ PartialOn(blobs, used, Contents)
          /\ active \in used \cup {NoFile} /\ fetching \in used \cup {NoFile}
          /\ loaded \subseteq used /\ failed \subseteq used \cup {NoFile}
          /\ loading \in BOOLEAN /\ budget \in Bs
        BY DEF TypeInv
    <3>1. CASE TxAlone
        BY <3>0, <3>1 DEF TxAlone, hook, view, hist
    <3>2. CASE Listed
      <4>1. files' = rows /\ loading' = FALSE /\ active' \in {NoFile} \cup DOMAIN rows /\ UNCHANGED <<cache, contents, loaded, fetching, failed, budget>>
          BY <3>2 DEF Listed, Awaited, view, hist
      <4> QED BY <3>0, <4>1 DEF PartialOn
    <3>3. CASE Loaded
      <4> DEFINE data == IF t.file \in DOMAIN cache THEN cache[t.file] ELSE GetFileContent(t.file)
      <4>1. t.op = "get" /\ data \in Contents /\ t.file \in used
          BY <1>0, <2>3, <2>4, <3>0, <3>3 DEF Loaded, Awaited, GetFileContent, PartialOn
      <4>2. /\ cache' = Put(cache, t.file, data)
            /\ UNCHANGED <<files, active, loading, failed, budget>>
            /\ \/ loaded' = loaded \cup {t.file} /\ fetching' = NoFile
                  /\ contents' = IF t.file \in DOMAIN contents THEN contents ELSE Put(contents, t.file, data)
               \/ UNCHANGED <<contents, loaded, fetching>>
          BY <2>3, <3>3 DEF Loaded, Awaited, view, hist
      <4> HIDE DEF data
      <4>3. PartialOn(cache', used, Contents) /\ PartialOn(Put(contents, t.file, data), used, Contents)
          BY <3>0, <4>1, <4>2, PutIsPartial
      <4>4. PartialOn(contents', used, Contents) /\ loaded' \subseteq used /\ fetching' \in used \cup {NoFile}
          BY <3>0, <4>1, <4>2, <4>3
      <4> QED BY <3>0, <4>2, <4>3, <4>4
    <3>4. CASE Created
      <4>1. /\ t.op = "create" /\ files' = Put(files, t.file, t.arg) /\ cache' = Put(cache, t.file, 0)
            /\ active' = t.file /\ fetching' = NoFile
            /\ UNCHANGED <<loading, contents, loaded, failed, budget>>
          BY <2>3, <3>4 DEF Created, Awaited, RestartEffect, hist
      <4>2. PartialOn(files', used, Names) /\ PartialOn(cache', used, Contents)
          BY <1>0, <2>4, <3>0, <4>1, PutIsPartial
      <4> QED BY <2>4, <3>0, <4>1, <4>2
    <3>5. CASE Deleted
      <4>1. /\ t.op = "delete" /\ files' = Without(files, t.file) /\ cache' = Without(cache, t.file)
            /\ active' \in (IF t.rest = {} THEN {active} ELSE t.rest) /\ fetching' = NoFile
            /\ UNCHANGED <<loading, contents, loaded, failed, budget>>
          BY <2>3, <3>5 DEF Deleted, Awaited, RestartEffect, hist
      <4>2. PartialOn(files', used, Names) /\ PartialOn(cache', used, Contents)
          BY <3>0, <4>1, WithoutIsPartial
      <4> QED BY <2>4, <3>0, <4>1, <4>2
    <3>6. CASE Renamed
      <4>1. /\ t.op = "rename"
            /\ files' = (IF t.file \in DOMAIN files THEN Put(files, t.file, t.arg) ELSE files)
            /\ fetching' = NoFile
            /\ UNCHANGED <<active, loading, cache, contents, loaded, failed, budget>>
          BY <2>3, <3>6 DEF Renamed, Awaited, RestartEffect, hist
      <4>2. PartialOn(Put(files, t.file, t.arg), used, Names)
          BY <2>4, <3>0, <4>1, PutIsPartial
      <4> QED BY <3>0, <4>1, <4>2
    <3>7. CASE TxFails
      <4>1. /\ failed' = failed \cup {t.file}
            /\ loading' = (loading /\ ~(t.op = "list" /\ t.by = "waited"))
            /\ UNCHANGED <<files, active, cache, contents, loaded, fetching>>
          BY <2>3, <3>7 DEF TxFails, view
      <4>2. budget' \in Bs
          BY <3>7, SpendType DEF TxFails
      <4>3. loading' \in BOOLEAN
          BY <4>1, Zenon
      <4> QED BY <2>4, <3>0, <4>1, <4>2, <4>3
    <3> QED BY <1>11, <3>1, <3>2, <3>3, <3>4, <3>5, <3>6, <3>7, Zenon DEF Ends, TxEnds
  <2> QED BY <1>0, <2>1, <2>2, <2>5, <2>6 DEF TypeInv
<1> QED BY <1>1, <1>2, <1>3, <1>4, <1>5, <1>6, <1>7, <1>8, <1>9, <1>10, <1>11, Zenon DEF Next, User, Ends

-----------------------------------------------------------------------------
(* What was typed is kept.                                                  *)

\* A transaction of another operation than those that matter is added, or none.
LEMMA AddsOne ==
    ASSUME TypeInv, NEW t, txs' = Append(txs, t)
    PROVE  /\ Grows(txs, txs') /\ Len(txs') = Len(txs) + 1 /\ txs'[Len(txs')] = t
           /\ \A i \in 1..Len(txs) : txs'[i] = txs[i]
           /\ \A i \in (Len(txs) + 1)..Len(txs') : txs'[i] = t
           /\ DOMAIN txs' = 1..Len(txs') /\ DOMAIN txs = 1..Len(txs) /\ Len(txs) \in Nat
<1>1. txs \in Seq(Txs)
    BY DEF TypeInv
<1> QED BY <1>1 DEF Grows, Alike

\* The steps that write no text and take none away: what they add to the queue
\* saves nothing and deletes nothing.
Asides ==
    \/ UNCHANGED vars
    \/ \E f \in Files : Select(f) \/ LoadNext(f)
    \/ \E f \in Files, n \in Names : AddFile(f, n) \/ RenameFile(f, n)

LEMMA StepKinds ==
    [Next]_vars <=> \/ Edit \/ Hide \/ Leave \/ Asides \/ Ends
                    \/ \E f \in Files : SaveTimer(f) \/ DeleteFile(f)
    BY Zenon DEF Next, User, Asides, Ends

LEMMA AsidesAdd ==
    ASSUME TypeInv, Asides
    PROVE  /\ rows' = rows /\ blobs' = blobs /\ files' = files /\ loading' = loading
           /\ cache' = cache /\ pending' = pending /\ typed' = typed /\ asked' = asked
           /\ failed' = failed /\ budget'.edits = budget.edits
           /\ \/ txs' = txs
              \/ /\ ~loading /\ Len(txs') = Len(txs) + 1
                 /\ txs'[Len(txs')].op \in {"get", "create", "rename"}
                 /\ txs'[Len(txs')].op = "create" => txs'[Len(txs')].file \notin used
                 /\ \A i \in 1..Len(txs) : txs'[i] = txs[i]
           /\ Grows(txs, txs')
           /\ \A i \in (Len(txs) + 1)..Len(txs') : i = Len(txs') /\ txs'[i].op \in {"get", "create", "rename"}
           /\ DOMAIN txs' = 1..Len(txs') /\ DOMAIN txs = 1..Len(txs) /\ Len(txs) \in Nat
<1>1. txs \in Seq(Txs)
    BY DEF TypeInv
<1>2. ASSUME txs' = txs
      PROVE  /\ Grows(txs, txs')
             /\ \A i \in (Len(txs) + 1)..Len(txs') : i = Len(txs') /\ txs'[i].op \in {"get", "create", "rename"}
             /\ DOMAIN txs' = 1..Len(txs') /\ DOMAIN txs = 1..Len(txs) /\ Len(txs) \in Nat
    BY <1>1, <1>2 DEF Grows, Alike
<1>3. CASE UNCHANGED vars
    BY <1>2, <1>3 DEF vars, db, hook, hist
<1>4. ASSUME NEW f \in Files, Select(f)
      PROVE  UNCHANGED <<rows, blobs, files, loading, cache, pending, typed, asked, failed, budget, txs>>
    BY <1>4 DEF Select, db, hist
<1>5. ASSUME NEW f \in Files, LoadNext(f)
      PROVE  /\ UNCHANGED <<rows, blobs, files, loading, cache, pending, typed, asked, failed, budget>>
             /\ ~loading /\ (txs' = txs \/ txs' = Append(txs, Tx("get", f, 0)))
    BY <1>5 DEF LoadNext, db, hook, hist
<1>6. ASSUME NEW f \in Files, NEW n \in Names, AddFile(f, n)
      PROVE  /\ UNCHANGED <<rows, blobs, files, loading, cache, pending, typed, asked, failed, budget>>
             /\ ~loading /\ f \notin used /\ txs' = Append(txs, Tx("create", f, n))
    BY <1>6 DEF AddFile, db, hook
<1>7. ASSUME NEW f \in Files, NEW n \in Names, RenameFile(f, n)
      PROVE  /\ UNCHANGED <<rows, blobs, files, loading, cache, pending, typed, asked, failed>>
             /\ budget' = [budget EXCEPT !.renames = @ + 1]
             /\ ~loading /\ txs' = Append(txs, Tx("rename", f, n))
    BY <1>7 DEF RenameFile, db, hook, hist, Spend
<1>8. ASSUME NEW f, NEW n, NEW op \in {"get", "create", "rename"}, op = "create" => f \notin used,
             txs' = Append(txs, Tx(op, f, n))
      PROVE  /\ Len(txs') = Len(txs) + 1
             /\ txs'[Len(txs')].op \in {"get", "create", "rename"}
             /\ txs'[Len(txs')].op = "create" => txs'[Len(txs')].file \notin used
             /\ \A i \in 1..Len(txs) : txs'[i] = txs[i]
             /\ Grows(txs, txs')
             /\ \A i \in (Len(txs) + 1)..Len(txs') : i = Len(txs') /\ txs'[i].op \in {"get", "create", "rename"}
             /\ DOMAIN txs' = 1..Len(txs') /\ DOMAIN txs = 1..Len(txs) /\ Len(txs) \in Nat
  <2>1. Tx(op, f, n).op = op /\ Tx(op, f, n).file = f
      BY DEF Tx
  <2>2. /\ Grows(txs, txs') /\ Len(txs') = Len(txs) + 1 /\ txs'[Len(txs')] = Tx(op, f, n)
        /\ \A i \in 1..Len(txs) : txs'[i] = txs[i]
        /\ DOMAIN txs' = 1..Len(txs') /\ DOMAIN txs = 1..Len(txs) /\ Len(txs) \in Nat
      BY <1>8, AddsOne
  <2> QED BY <1>8, <2>1, <2>2
<1>9. [budget EXCEPT !.renames = @ + 1].edits = budget.edits
    BY DEF TypeInv
<1>10. ASSUME NEW f \in Files, Select(f) \/ LoadNext(f)
       PROVE  /\ UNCHANGED <<rows, blobs, files, loading, cache, pending, typed, asked, failed, budget>>
              /\ \/ txs' = txs
                 \/ ~loading /\ txs' = Append(txs, Tx("get", f, 0))
    BY <1>4, <1>5, <1>10
<1>11. ASSUME NEW f \in Files, NEW n \in Names, AddFile(f, n) \/ RenameFile(f, n)
       PROVE  /\ UNCHANGED <<rows, blobs, files, loading, cache, pending, typed, asked, failed>>
              /\ budget'.edits = budget.edits /\ ~loading
              /\ \/ f \notin used /\ txs' = Append(txs, Tx("create", f, n))
                 \/ txs' = Append(txs, Tx("rename", f, n))
    BY <1>6, <1>7, <1>9, <1>11
<1>12. CASE \E f \in Files : Select(f) \/ LoadNext(f)
  <2>1. PICK f \in Files : Select(f) \/ LoadNext(f)
      BY <1>12
  <2>2. CASE txs' = txs
      BY <1>2, <1>10, <2>1, <2>2
  <2>3. CASE ~loading /\ txs' = Append(txs, Tx("get", f, 0))
      BY <1>8, <1>10, <2>1, <2>3
  <2> QED BY <1>10, <2>1, <2>2, <2>3
<1>13. CASE \E f \in Files, n \in Names : AddFile(f, n) \/ RenameFile(f, n)
  <2>1. PICK f \in Files, n \in Names : AddFile(f, n) \/ RenameFile(f, n)
      BY <1>13
  <2>2. CASE f \notin used /\ txs' = Append(txs, Tx("create", f, n))
      BY <1>8, <1>11, <2>1, <2>2
  <2>3. CASE txs' = Append(txs, Tx("rename", f, n))
      BY <1>8, <1>11, <2>1, <2>3
  <2> QED BY <1>11, <2>1, <2>2, <2>3
<1> QED BY <1>3, <1>12, <1>13 DEF Asides

\* The invariant of what is kept, step by step.
LEMMA FlushKeeps ==
    ASSUME TypeInv, Kept, NEW q2 \in Seq(Txs), Flushes(txs, q2), NEW f \in Owed
    PROVE  NewestIs(q2, blobs, f, typed[f])
<1>1. txs \in Seq(Txs) /\ Grows(txs, q2)
    BY DEF TypeInv, Flushes
<1>2. CASE f \in DOMAIN pending
  <2>1. pending[f] = typed[f]
      BY <1>2 DEF Kept
  <2>2. \A i \in (Len(txs) + 1)..Len(q2) : SaveOf(q2[i], f) => q2[i].arg = typed[f]
      BY <2>1 DEF Flushes, SaveOf
  <2>3. \E i \in (Len(txs) + 1)..Len(q2) : SaveOf(q2[i], f)
      BY <1>2 DEF Flushes
  <2> QED BY <1>1, <2>2, <2>3, NewestGrows
<1>3. CASE f \notin DOMAIN pending
  <2>1. NewestIs(txs, blobs, f, typed[f])
      BY <1>3 DEF Kept
  <2>2. \A i \in (Len(txs) + 1)..Len(q2) : ~SaveOf(q2[i], f)
      BY <1>3 DEF Flushes, SaveOf
  <2> QED BY <1>1, <2>1, <2>2, NewestGrows
<1> QED BY <1>2, <1>3

LEMMA NextKept == IInv /\ [Next]_vars => Kept'
<1> SUFFICES ASSUME IInv, [Next]_vars PROVE Kept'
    OBVIOUS
<1>0. TypeInv /\ Kept /\ Unborn /\ Doomed /\ txs \in Seq(Txs) /\ txs' \in Seq(Txs)
    BY NextType DEF IInv, TypeInv
<1>1. CASE Edit
  <2>1. /\ typed' = Put(typed, active, budget.edits + 1) /\ pending' = Put(pending, active, budget.edits + 1)
        /\ UNCHANGED <<asked, failed, blobs, txs>>
      BY <1>1 DEF Edit, ScheduleSave, db
  <2>2. /\ DOMAIN typed' = DOMAIN typed \cup {active} /\ typed'[active] = budget.edits + 1
        /\ \A f \in DOMAIN typed : f # active => typed'[f] = typed[f]
      BY <2>1 DEF Put
  <2>3. /\ DOMAIN pending' = DOMAIN pending \cup {active} /\ pending'[active] = budget.edits + 1
        /\ \A f \in DOMAIN pending : f # active => pending'[f] = pending[f]
      BY <2>1 DEF Put
  <2>4. ASSUME NEW f \in Owed', f # active
        PROVE  IF f \in DOMAIN pending' THEN pending'[f] = typed'[f]
               ELSE NewestIs(txs, blobs, f, typed'[f])
    <3>1. f \in Owed /\ typed'[f] = typed[f]
        BY <2>1, <2>2, <2>4 DEF Owed
    <3> QED BY <1>0, <2>3, <2>4, <3>1 DEF Kept
  <2> QED BY <2>1, <2>2, <2>3, <2>4 DEF Kept
<1>2. CASE Hide
  <2>1. Flushes(txs, txs') /\ pending' = None /\ UNCHANGED <<blobs, typed, asked, failed>>
      BY <1>0, <1>2, FlushFlushes DEF Hide, db, hist
  <2> QED BY <1>0, <2>1, FlushKeeps DEF Kept, Owed, None
<1>3. CASE Leave
  <2>1. Flushes(txs, txs')
      BY <1>0, <1>3, LeaveFlushes
  <2>2. pending' = None /\ UNCHANGED <<blobs, typed, asked, failed>>
      BY <1>3 DEF Leave, db, hist
  <2>3. \A f \in Owed : NewestIs(txs', blobs, f, typed[f])
      BY <1>0, <2>1, FlushKeeps
  <2> QED BY <2>2, <2>3 DEF Kept, Owed, None
<1>4. CASE Asides
  <2>1. /\ Grows(txs, txs') /\ UNCHANGED <<blobs, pending, typed, asked, failed>>
        /\ \A i \in (Len(txs) + 1)..Len(txs') : txs'[i].op # "save"
      BY <1>0, <1>4, AsidesAdd
  <2>2. ASSUME NEW f \in Owed, f \notin DOMAIN pending PROVE NewestIs(txs', blobs, f, typed[f])
    <3>1. NewestIs(txs, blobs, f, typed[f])
        BY <1>0, <2>2 DEF Kept
    <3>2. \A i \in (Len(txs) + 1)..Len(txs') : ~SaveOf(txs'[i], f)
        BY <2>1 DEF SaveOf
    <3> QED BY <1>0, <2>1, <3>1, <3>2, NewestGrows
  <2> QED BY <1>0, <2>1, <2>2 DEF Kept, Owed
<1>5. CASE Ends
  <2> DEFINE t == txs[1]
  <2>1. Drops(txs, txs') /\ UNCHANGED <<pending, typed, asked>> /\ 1 \in DOMAIN txs
      BY <1>0, <1>5, EndsDrops
  <2>2. \/ Commit(t) /\ failed' = failed
        \/ blobs' = blobs /\ failed' = failed \cup {t.file}
      BY <1>0, <1>5, EndsCommits
  <2>3. SUFFICES ASSUME NEW f \in Owed', f \notin DOMAIN pending
                 PROVE  NewestIs(txs', blobs', f, typed[f])
    <3>1. Owed' \subseteq Owed
        BY <2>1, <2>2 DEF Owed
    <3> QED BY <1>0, <2>1, <2>3, <3>1 DEF Kept
  <2>4. f \in Owed /\ f \in DOMAIN typed /\ f \notin DOMAIN asked /\ f \notin failed'
      BY <2>1, <2>2, <2>3 DEF Owed
  <2>5. NewestIs(txs, blobs, f, typed[f])
      BY <1>0, <2>3, <2>4 DEF Kept
  <2>6. t.op = "create" => t.file # f
      BY <1>0, <2>1, <2>4 DEF Unborn
  <2>7. t.op = "delete" => t.file # f
      BY <1>0, <2>1, <2>4 DEF Doomed
  <2>8. IF SaveOf(t, f) THEN f \in DOMAIN blobs' /\ blobs'[f] = t.arg
        ELSE f \in DOMAIN blobs => f \in DOMAIN blobs' /\ blobs'[f] = blobs[f]
    <3>1. CASE blobs' = blobs /\ failed' = failed \cup {t.file}
        BY <2>4, <3>1 DEF SaveOf
    <3>2. CASE Commit(t)
      <4> HIDE DEF t
      <4>1. CASE t.op = "create"
        <5>1. blobs' = Put(blobs, t.file, 0)
            BY <3>2, <4>1, Commits
        <5> QED BY <2>6, <4>1, <5>1 DEF SaveOf, Put
      <4>2. CASE t.op = "save"
        <5>1. blobs' = Put(blobs, t.file, t.arg)
            BY <3>2, <4>2, Commits
        <5> QED BY <4>2, <5>1 DEF SaveOf, Put
      <4>3. CASE t.op = "delete"
        <5>1. blobs' = Without(blobs, t.file)
            BY <3>2, <4>3, Commits
        <5> QED BY <2>7, <4>3, <5>1 DEF SaveOf, Without
      <4>4. CASE t.op \notin {"create", "save", "delete"}
          BY <3>2, <4>4, Commits DEF SaveOf
      <4> QED BY <4>1, <4>2, <4>3, <4>4
    <3> QED BY <2>2, <3>1, <3>2
  <2> QED BY <1>0, <2>1, <2>5, <2>8, NewestDrops
<1>6. ASSUME NEW f \in Files, SaveTimer(f) PROVE Kept'
  <2>1. /\ f \in DOMAIN pending /\ pending' = Without(pending, f) /\ txs' = Append(txs, Save(f))
        /\ UNCHANGED <<blobs, typed, asked, failed>>
      BY <1>6 DEF SaveTimer, db, hist
  <2>2. /\ Grows(txs, txs') /\ Len(txs') = Len(txs) + 1 /\ txs'[Len(txs')] = Save(f)
        /\ \A i \in (Len(txs) + 1)..Len(txs') : txs'[i] = Save(f)
        /\ Len(txs') \in (Len(txs) + 1)..Len(txs')
      BY <1>0, <2>1, AddsOne
  <2>3. Save(f).op = "save" /\ Save(f).file = f /\ Save(f).arg = pending[f]
      BY DEF Save, Tx
  <2>4. ASSUME NEW g \in Owed, g \notin DOMAIN pending' PROVE NewestIs(txs', blobs, g, typed[g])
    <3>1. CASE g = f
      <4>1. pending[f] = typed[f]
          BY <1>0, <2>1, <2>4, <3>1 DEF Kept
      <4> QED BY <1>0, <2>2, <2>3, <3>1, <4>1, NewestGrows DEF SaveOf
    <3>2. CASE g # f
      <4>1. NewestIs(txs, blobs, g, typed[g])
        <5>1. g \notin DOMAIN pending
            BY <2>1, <2>4, <3>2, WithoutValues
        <5> QED BY <1>0, <5>1 DEF Kept
      <4> QED BY <1>0, <2>2, <2>3, <3>2, <4>1, NewestGrows DEF SaveOf
    <3> QED BY <3>1, <3>2
  <2>5. \A g \in DOMAIN pending' : g \in DOMAIN pending /\ pending'[g] = pending[g]
      BY <2>1 DEF Without
  <2> QED BY <1>0, <2>1, <2>4, <2>5 DEF Kept, Owed
<1>7. ASSUME NEW f \in Files, DeleteFile(f) PROVE Kept'
  <2> DEFINE t == [Tx("delete", f, 0) EXCEPT !.rest = IF active # f THEN {}
                       ELSE IF DOMAIN files = {f} THEN {NoFile} ELSE DOMAIN files \ {f}]
  <2>1. /\ pending' = Without(pending, f) /\ txs' = Append(txs, t)
        /\ asked' = Put(asked, f, budget.edits) /\ UNCHANGED <<blobs, typed, failed>>
      BY <1>7 DEF DeleteFile, CancelSave, db
  <2>2. t.op = "delete"
      BY DEF Tx
  <2> HIDE DEF t
  <2>3. Grows(txs, txs') /\ \A i \in (Len(txs) + 1)..Len(txs') : txs'[i] = t
      BY <1>0, <2>1, AddsOne
  <2>4. \A g \in Owed' : g \in Owed /\ g # f
    <3>1. DOMAIN asked' = DOMAIN asked \cup {f}
        BY <2>1, PutValues
    <3> QED BY <2>1, <3>1 DEF Owed
  <2>5. ASSUME NEW g \in Owed, g \notin DOMAIN pending PROVE NewestIs(txs', blobs, g, typed[g])
    <3>1. NewestIs(txs, blobs, g, typed[g])
        BY <1>0, <2>5 DEF Kept
    <3> QED BY <1>0, <2>2, <2>3, <3>1, NewestGrows DEF SaveOf
  <2>6. DOMAIN pending' = DOMAIN pending \ {f} /\ \A g \in DOMAIN pending : g # f => pending'[g] = pending[g]
      BY <2>1, WithoutValues
  <2> QED BY <1>0, <2>1, <2>4, <2>5, <2>6 DEF Kept
<1> QED BY <1>1, <1>2, <1>3, <1>4, <1>5, <1>6, <1>7, StepKinds

-----------------------------------------------------------------------------
(* What was typed is what is shown.                                         *)

\* While the list is awaited, only what the page before this one left can end.
LEMMA HeadWhileLoading ==
    ASSUME TypeInv, Opening, txs # <<>>, txs[1].by # "gone"
    PROVE  loading => Len(txs) = 1 /\ txs[1].op = "list" /\ txs[1].by = "waited"
<1>1. txs \in Seq(Txs) /\ Len(txs) \in Nat /\ Len(txs) # 0
    BY DEF TypeInv
<1>2. ASSUME loading PROVE Len(txs) = 1
  <2>1. \A i \in 1..(Len(txs) - 1) : txs[i].by = "gone"
      BY <1>2 DEF Opening
  <2>2. ~(1 \in 1..(Len(txs) - 1))
      BY <2>1
  <2>3. \A n \in Nat : n # 0 /\ 1 \notin 1..(n - 1) => n = 1
      OBVIOUS
  <2> QED BY <1>1, <2>2, <2>3
<1> QED BY <1>2 DEF Opening

\* Where a text is read from when its file is not in the cache.
LEMMA TableHoldsTyped ==
    ASSUME IInv, txs # <<>>, txs[1].op = "get", txs[1].by # "gone",
           NEW f \in Owed, f \notin DOMAIN cache
    PROVE  GetFileContent(f) = typed[f]
<1>1. ~loading
    BY HeadWhileLoading DEF IInv
<1>2. f \notin DOMAIN asked
    BY DEF Owed
<1>3. f \notin DOMAIN pending /\ \A i \in DOMAIN txs : ~SaveOf(txs[i], f)
    BY <1>1, <1>2 DEF IInv, Cached, SaveOf
<1>4. NewestIs(txs, blobs, f, typed[f])
    BY <1>3 DEF IInv, Kept
<1>5. f \in DOMAIN blobs /\ blobs[f] = typed[f]
    BY <1>3, <1>4 DEF NewestIs
<1> QED BY <1>5 DEF GetFileContent

LEMMA NextShown == IInv /\ [Next]_vars => ShownIsTyped'
<1> SUFFICES ASSUME IInv, [Next]_vars PROVE ShownIsTyped'
    OBVIOUS
<1>0. TypeInv /\ ShownIsTyped /\ Unborn /\ txs \in Seq(Txs)
    BY DEF IInv, TypeInv
\* Nothing shown changes and no text is owed that was not.
<1>1. ASSUME contents' = contents, cache' = cache, typed' = typed, Owed' \subseteq Owed PROVE ShownIsTyped'
    BY <1>0, <1>1 DEF ShownIsTyped
<1>2. CASE Edit
  <2>1. /\ typed' = Put(typed, active, budget.edits + 1) /\ cache' = Put(cache, active, budget.edits + 1)
        /\ contents' = Put(contents, active, budget.edits + 1)
        /\ asked' = asked /\ failed' = failed
      BY <1>2 DEF Edit
  <2>2. ASSUME NEW f \in Owed', f # active
        PROVE  /\ f \in DOMAIN contents' => contents'[f] = typed'[f]
               /\ f \in DOMAIN cache' => cache'[f] = typed'[f]
    <3>1. f \in Owed /\ typed'[f] = typed[f]
        BY <2>1, <2>2 DEF Owed, Put
    <3> QED BY <1>0, <2>1, <2>2, <3>1 DEF ShownIsTyped, Put
  <2>3. typed'[active] = budget.edits + 1 /\ cache'[active] = budget.edits + 1 /\ contents'[active] = budget.edits + 1
      BY <2>1 DEF Put
  <2> QED BY <2>2, <2>3 DEF ShownIsTyped
<1>3. CASE Hide
    BY <1>1, <1>3 DEF Hide, view, hist, Owed
<1>4. CASE Leave
    BY <1>4 DEF Leave, ShownIsTyped, None
<1>5. ASSUME NEW f \in Files, Select(f) PROVE ShownIsTyped'
    BY <1>1, <1>5 DEF Select, view, hist, Owed
<1>6. ASSUME NEW f \in Files, LoadNext(f) PROVE ShownIsTyped'
  <2>1. /\ cache' = cache /\ typed' = typed /\ Owed' = Owed
        /\ \/ contents' = contents
           \/ f \in DOMAIN cache /\ f \notin DOMAIN contents /\ contents' = Put(contents, f, cache[f])
      BY <1>6 DEF LoadNext, hook, hist, Owed
  <2>2. CASE contents' = contents
      BY <1>1, <2>1, <2>2
  <2>3. CASE f \in DOMAIN cache /\ f \notin DOMAIN contents /\ contents' = Put(contents, f, cache[f])
      BY <1>0, <2>1, <2>3 DEF ShownIsTyped, Put
  <2> QED BY <2>1, <2>2, <2>3
<1>7. ASSUME NEW f \in Files, NEW n \in Names, AddFile(f, n) PROVE ShownIsTyped'
    BY <1>1, <1>7 DEF AddFile, hook, view, Owed
<1>8. ASSUME NEW f \in Files, NEW n \in Names, RenameFile(f, n) PROVE ShownIsTyped'
    BY <1>1, <1>8 DEF RenameFile, hook, view, hist, Owed
<1>9. ASSUME NEW f \in Files, SaveTimer(f) PROVE ShownIsTyped'
    BY <1>1, <1>9 DEF SaveTimer, view, hist, Owed
<1>10. ASSUME NEW f \in Files, DeleteFile(f) PROVE ShownIsTyped'
  <2>1. /\ contents' = contents /\ cache' = cache /\ typed' = typed /\ failed' = failed
        /\ asked' = Put(asked, f, budget.edits)
      BY <1>10 DEF DeleteFile, view
  <2> QED BY <1>1, <2>1 DEF Owed, Put
<1>11. CASE UNCHANGED vars
    BY <1>1, <1>11 DEF vars, hook, view, hist, Owed
<1>12. CASE Ends
  <2> DEFINE t == txs[1]
  <2>1. txs # <<>> /\ 1 \in DOMAIN txs /\ typed' = typed /\ asked' = asked /\ Head(txs) = t
      BY <1>0, <1>12, EndsDrops, TailDrops
  <2>2. Owed' \subseteq Owed
      BY <1>0, <1>12, <2>1, EndsCommits DEF Owed
  <2>3. CASE TxAlone
      BY <1>1, <2>1, <2>2, <2>3 DEF TxAlone, hook, view
  <2>4. CASE Listed
      BY <1>1, <2>1, <2>2, <2>4 DEF Listed, view
  <2>5. CASE Renamed
      BY <1>1, <2>1, <2>2, <2>5 DEF Renamed
  <2>6. CASE TxFails
      BY <1>1, <2>1, <2>2, <2>6 DEF TxFails, view
  <2>7. CASE Deleted
    <3>1. contents' = contents /\ cache' = Without(cache, t.file)
        BY <2>1, <2>7 DEF Deleted
    <3> QED BY <1>0, <2>1, <2>2, <3>1 DEF ShownIsTyped, Without
  <2>8. CASE Created
    <3>1. contents' = contents /\ cache' = Put(cache, t.file, 0) /\ t.op = "create"
        BY <2>1, <2>8 DEF Created, Awaited
    <3>2. t.file \notin Owed
        BY <1>0, <2>1, <3>1 DEF Unborn, Owed
    <3> QED BY <1>0, <2>1, <2>2, <3>1, <3>2 DEF ShownIsTyped, Put
  <2>9. CASE Loaded
    <3> DEFINE data == IF t.file \in DOMAIN cache THEN cache[t.file] ELSE GetFileContent(t.file)
    <3>1. /\ cache' = Put(cache, t.file, data) /\ t.op = "get" /\ t.by # "gone"
          /\ contents' = contents \/ contents' = IF t.file \in DOMAIN contents THEN contents ELSE Put(contents, t.file, data)
        BY <2>1, <2>9 DEF Loaded, Awaited, view
    <3>2. ASSUME t.file \in Owed PROVE data = typed[t.file]
      <4>1. t.file \in DOMAIN cache => cache[t.file] = typed[t.file]
          BY <1>0, <3>2 DEF ShownIsTyped
      <4>2. t.file \notin DOMAIN cache => GetFileContent(t.file) = typed[t.file]
          BY <2>1, <3>1, <3>2, TableHoldsTyped
      <4> QED BY <4>1, <4>2
    <3> HIDE DEF data, t
    <3> QED BY <1>0, <2>1, <2>2, <3>1, <3>2 DEF ShownIsTyped, Put
  <2> QED BY <1>12, <2>3, <2>4, <2>5, <2>6, <2>7, <2>8, <2>9, Zenon DEF Ends, TxEnds
<1> QED BY <1>2, <1>3, <1>4, <1>5, <1>6, <1>7, <1>8, <1>9, <1>10, <1>11, <1>12, StepKinds, Zenon DEF Asides

-----------------------------------------------------------------------------
(* The rest of the inductive invariant.                                     *)

LEMMA NextUnborn == IInv /\ [Next]_vars => Unborn'
<1> SUFFICES ASSUME IInv, [Next]_vars PROVE Unborn'
    OBVIOUS
<1>0. /\ TypeInv /\ Unborn /\ txs \in Seq(Txs) /\ txs' \in Seq(Txs)
      /\ DOMAIN txs = 1..Len(txs) /\ DOMAIN txs' = 1..Len(txs') /\ Len(txs) \in Nat /\ Len(txs') \in Nat
    BY NextType DEF IInv, TypeInv
\* No creation is added, and a file becomes known only if it was.
<1>1. ASSUME Grows(txs, txs'), \A i \in (Len(txs) + 1)..Len(txs') : txs'[i].op # "create",
             DOMAIN rows' \cup DOMAIN files' \cup DOMAIN typed' \subseteq DOMAIN rows \cup DOMAIN files \cup DOMAIN typed
      PROVE  Unborn'
  <2>1. \A i \in DOMAIN txs' : txs'[i].op = "create" =>
            i \in DOMAIN txs /\ txs[i].op = "create" /\ txs'[i].file = txs[i].file
      BY <1>0, <1>1 DEF Grows, Alike
  <2> QED BY <1>0, <1>1, <2>1 DEF Unborn
<1>2. CASE Edit
  <2>1. /\ txs' = txs /\ rows' = rows /\ files' = files /\ active \in DOMAIN files
        /\ typed' = Put(typed, active, budget.edits + 1)
      BY <1>2 DEF Edit, db
  <2> QED BY <1>0, <1>1, <2>1 DEF Put, Grows, Alike
<1>3. CASE Hide
  <2>1. Flushes(txs, txs') /\ rows' = rows /\ files' = files /\ typed' = typed
      BY <1>0, <1>3, FlushFlushes DEF Hide, db, hist
  <2> QED BY <1>1, <2>1 DEF Flushes
<1>4. CASE Leave
  <2>1. Flushes(txs, txs')
      BY <1>0, <1>4, LeaveFlushes
  <2>2. rows' = rows /\ files' = None /\ typed' = typed
      BY <1>4 DEF Leave, db, hist
  <2> QED BY <1>1, <2>1, <2>2 DEF Flushes, None
<1>5. CASE Asides
  <2>1. rows' = rows /\ files' = files /\ typed' = typed /\ Grows(txs, txs')
      BY <1>0, <1>5, AsidesAdd
  <2>2. CASE txs' = txs
      BY <1>0, <1>1, <2>1, <2>2
  <2>3. CASE /\ Len(txs') = Len(txs) + 1
             /\ txs'[Len(txs')].op = "create" => txs'[Len(txs')].file \notin used
    <3>1. DOMAIN rows \cup DOMAIN files \cup DOMAIN typed \subseteq used /\ \A i \in DOMAIN txs : txs[i].op = "create" => txs[i].file \in used
        BY DEF IInv, TypeInv, PartialOn, Fits
    <3>2. \A i \in 1..Len(txs) : txs'[i].op = txs[i].op /\ txs'[i].file = txs[i].file
        BY <2>1 DEF Grows, Alike
    <3> QED BY <1>0, <2>1, <2>3, <3>1, <3>2 DEF Unborn
  <2> QED BY <1>0, <1>5, <2>2, <2>3, AsidesAdd
<1>6. ASSUME NEW f \in Files, SaveTimer(f) PROVE Unborn'
  <2>1. txs' = Append(txs, Save(f)) /\ rows' = rows /\ files' = files /\ typed' = typed
      BY <1>6 DEF SaveTimer, db, hist
  <2>2. Save(f).op = "save"
      BY DEF Save, Tx
  <2>3. Grows(txs, txs') /\ \A i \in (Len(txs) + 1)..Len(txs') : txs'[i] = Save(f)
      BY <1>0, <2>1, AddsOne
  <2> QED BY <1>1, <2>1, <2>2, <2>3
<1>7. ASSUME NEW f \in Files, DeleteFile(f) PROVE Unborn'
  <2> DEFINE t == [Tx("delete", f, 0) EXCEPT !.rest = IF active # f THEN {}
                       ELSE IF DOMAIN files = {f} THEN {NoFile} ELSE DOMAIN files \ {f}]
  <2>1. txs' = Append(txs, t) /\ rows' = rows /\ files' = files /\ typed' = typed
      BY <1>7 DEF DeleteFile, db
  <2>2. t.op = "delete"
      BY DEF Tx
  <2> HIDE DEF t
  <2>3. Grows(txs, txs') /\ \A i \in (Len(txs) + 1)..Len(txs') : txs'[i] = t
      BY <1>0, <2>1, AddsOne
  <2> QED BY <1>1, <2>1, <2>2, <2>3
<1>8. CASE Ends
  <2> DEFINE t == txs[1]
  <2>1. txs # <<>> /\ 1 \in DOMAIN txs /\ typed' = typed /\ Head(txs) = t /\ Drops(txs, txs')
      BY <1>0, <1>8, EndsDrops, TailDrops
  <2>2. \A i \in DOMAIN txs' : i + 1 \in DOMAIN txs /\ i + 1 # 1
                               /\ txs'[i].op = txs[i + 1].op /\ txs'[i].file = txs[i + 1].file
      BY <1>0, <2>1 DEF Drops, Alike
  <2>3. DOMAIN rows' \subseteq DOMAIN rows \cup (IF t.op = "create" THEN {t.file} ELSE {})
    <3>1. Commit(t) \/ rows' = rows
        BY <1>0, <1>8, EndsCommits
    <3> HIDE DEF t
    <3>2. CASE Commit(t)
      <4>1. CASE t.op = "create"
          BY <3>2, <4>1, Commits DEF Put
      <4>2. CASE t.op = "delete"
          BY <3>2, <4>2, Commits DEF Without
      <4>3. CASE t.op = "rename"
        <5>1. rows' = IF t.file \in DOMAIN rows THEN Put(rows, t.file, t.arg) ELSE rows
            BY <3>2, <4>3, Commits
        <5> QED BY <5>1 DEF Put
      <4>4. CASE t.op \notin {"create", "delete", "rename"}
          BY <3>2, <4>4, Commits
      <4> QED BY <4>1, <4>2, <4>3, <4>4
    <3> QED BY <3>1, <3>2
  <2>4. DOMAIN files' \subseteq DOMAIN files \cup DOMAIN rows \cup (IF t.op = "create" THEN {t.file} ELSE {})
    <3>1. CASE Created
      <4>1. files' = Put(files, t.file, t.arg) /\ t.op = "create"
          BY <2>1, <3>1 DEF Created, Awaited
      <4> QED BY <4>1 DEF Put
    <3>2. CASE Listed
        BY <3>2 DEF Listed
    <3>3. CASE Deleted
        BY <3>3 DEF Deleted, Without
    <3>4. CASE Renamed
      <4>1. files' = IF t.file \in DOMAIN files THEN Put(files, t.file, t.arg) ELSE files
          BY <2>1, <3>4 DEF Renamed
      <4> QED BY <4>1 DEF Put
    <3>5. CASE TxAlone \/ Loaded \/ TxFails
        BY <3>5 DEF TxAlone, Loaded, TxFails, hook
    <3> QED BY <1>8, <3>1, <3>2, <3>3, <3>4, <3>5, Zenon DEF Ends, TxEnds
  <2> HIDE DEF t
  <2>5. ASSUME NEW i \in DOMAIN txs', txs'[i].op = "create"
        PROVE  /\ txs'[i].file \notin DOMAIN rows' \cup DOMAIN files' \cup DOMAIN typed'
               /\ \A j \in DOMAIN txs' : i # j /\ txs'[j].op = "create" => txs'[i].file # txs'[j].file
    <3>1. /\ i + 1 \in DOMAIN txs /\ i + 1 # 1 /\ txs[i + 1].op = "create" /\ txs[i + 1].file = txs'[i].file
        BY <2>2, <2>5
    <3>2. /\ txs'[i].file \notin DOMAIN rows \cup DOMAIN files \cup DOMAIN typed
          /\ \A j \in DOMAIN txs : i + 1 # j /\ txs[j].op = "create" => txs'[i].file # txs[j].file
        BY <1>0, <3>1 DEF Unborn
    <3>3. t.op = "create" => t.file # txs'[i].file
        BY <2>1, <3>1, <3>2 DEF t
    <3>4. \A j \in DOMAIN txs' : i # j => i + 1 # j + 1
        BY <1>0
    <3> QED BY <2>1, <2>2, <2>3, <2>4, <3>2, <3>3, <3>4
  <2> QED BY <2>5 DEF Unborn
<1> QED BY <1>2, <1>3, <1>4, <1>5, <1>6, <1>7, <1>8, StepKinds

LEMMA NextOpening == IInv /\ [Next]_vars => Opening'
<1> SUFFICES ASSUME IInv, [Next]_vars PROVE Opening'
    OBVIOUS
<1>0. /\ TypeInv /\ Opening /\ txs \in Seq(Txs) /\ txs' \in Seq(Txs)
      /\ DOMAIN txs = 1..Len(txs) /\ DOMAIN txs' = 1..Len(txs') /\ Len(txs) \in Nat /\ Len(txs') \in Nat
    BY NextType DEF IInv, TypeInv
\* The list has arrived, and nobody asks for it again.
<1>1. ASSUME ~loading, ~loading', \A i \in 1..Len(txs) : txs'[i] = txs[i],
             \A i \in (Len(txs) + 1)..Len(txs') : txs'[i].op # "list"
      PROVE  Opening'
    BY <1>0, <1>1 DEF Opening
<1>2. CASE Edit
  <2>1. txs' = txs /\ ~loading /\ loading' = loading
      BY <1>2 DEF Edit
  <2> QED BY <1>0, <2>1 DEF Opening
<1>3. CASE Hide
  <2>1. ~loading /\ loading' = loading
      BY <1>0, <1>3 DEF Hide, Opening
  <2>2. /\ \A i \in 1..Len(txs) : txs'[i] = txs[i]
        /\ \A i \in (Len(txs) + 1)..Len(txs') : txs'[i].op # "list"
      BY <1>0, <1>3, FlushFlushes DEF Hide
  <2> QED BY <1>1, <2>1, <2>2
<1>4. CASE Leave
  <2>1. /\ txs' # <<>> /\ txs'[Len(txs')] = Tx("list", NoFile, 0)
        /\ \A i \in 1..(Len(txs') - 1) : txs'[i].by = "gone"
      BY <1>0, <1>4, LeaveFlushes
  <2>2. loading' = TRUE /\ pending' = None
      BY <1>4 DEF Leave
  <2> QED BY <2>1, <2>2 DEF Opening, Tx
<1>5. CASE Asides
  <2>1. loading' = loading /\ pending' = pending
      BY <1>0, <1>5, AsidesAdd
  <2>2. CASE txs' = txs
      BY <1>0, <2>1, <2>2 DEF Opening
  <2>3. CASE /\ ~loading /\ \A i \in 1..Len(txs) : txs'[i] = txs[i]
             /\ \A i \in (Len(txs) + 1)..Len(txs') : txs'[i].op \in {"get", "create", "rename"}
      BY <1>1, <2>1, <2>3
  <2> QED BY <1>0, <1>5, <2>2, <2>3, AsidesAdd
<1>6. ASSUME NEW f \in Files, SaveTimer(f) PROVE Opening'
  <2>1. ~loading /\ loading' = loading /\ txs' = Append(txs, Save(f))
      BY <1>0, <1>6 DEF SaveTimer, Opening, None
  <2>2. Save(f).op = "save"
      BY DEF Save, Tx
  <2> QED BY <1>0, <1>1, <2>1, <2>2, AddsOne
<1>7. ASSUME NEW f \in Files, DeleteFile(f) PROVE Opening'
  <2> DEFINE t == [Tx("delete", f, 0) EXCEPT !.rest = IF active # f THEN {}
                       ELSE IF DOMAIN files = {f} THEN {NoFile} ELSE DOMAIN files \ {f}]
  <2>1. ~loading /\ loading' = loading /\ txs' = Append(txs, t)
      BY <1>7 DEF DeleteFile
  <2>2. t.op = "delete"
      BY DEF Tx
  <2> HIDE DEF t
  <2> QED BY <1>0, <1>1, <2>1, <2>2, AddsOne
<1>8. CASE Ends
  <2>1. /\ txs # <<>> /\ 1 \in DOMAIN txs /\ pending' = pending /\ Len(txs') = Len(txs) - 1
        /\ \A i \in DOMAIN txs' : i + 1 \in DOMAIN txs /\ txs'[i].op = txs[i + 1].op
                                  /\ (txs'[i].by = "gone" <=> txs[i + 1].by = "gone")
      BY <1>0, <1>8, EndsDrops DEF Drops, Alike
  <2>2. CASE ~loading
    <3>1. \A i \in DOMAIN txs' : txs'[i].op = "list" => txs'[i].by = "gone"
        BY <1>0, <2>1, <2>2 DEF Opening
    <3>2. ~loading'
        BY <1>8, <2>2 DEF Ends, TxEnds, TxAlone, Listed, Loaded, Created, Deleted, Renamed, TxFails, hook
    <3> QED BY <3>1, <3>2 DEF Opening
  <2>3. CASE loading
    <3>1. /\ txs[Len(txs)].op = "list" /\ txs[Len(txs)].by = "waited"
          /\ \A i \in 1..(Len(txs) - 1) : txs[i].by = "gone"
          /\ pending = None
        BY <1>0, <2>3 DEF Opening
    <3>2. Head(txs) = txs[1]
        BY <1>0, <2>1, TailDrops
    <3>3. CASE txs[1].by # "gone"
      <4>1. Len(txs) = 1 /\ txs[1].op = "list" /\ txs[1].by = "waited"
          BY <1>0, <2>1, <2>3, <3>3, HeadWhileLoading
      <4>2. DOMAIN txs' = {}
          BY <1>0, <2>1, <4>1
      <4>3. Listed \/ TxFails
          BY <1>8, <3>2, <4>1 DEF Ends, TxEnds, TxAlone, Loaded, Created, Deleted, Renamed, Awaited
      <4>4. ~loading'
          BY <3>2, <4>1, <4>3 DEF Listed, TxFails
      <4> QED BY <4>2, <4>4 DEF Opening
    <3>4. CASE txs[1].by = "gone"
      <4>1. TxAlone \/ TxFails
          BY <1>8, <3>2, <3>4 DEF Ends, TxEnds, Listed, Loaded, Created, Deleted, Renamed, Awaited
      <4>2. loading' = loading /\ txs' = Tail(txs)
          BY <2>3, <3>2, <3>4, <4>1 DEF TxAlone, TxFails, hook
      <4>3. \A i \in DOMAIN txs' : txs'[i] = txs[i + 1]
          BY <1>0, <2>1, <4>2, TailDrops
      <4>4. Len(txs) # 1
          BY <3>1, <3>4
      <4>5. Len(txs') \in DOMAIN txs' /\ Len(txs') + 1 = Len(txs)
          BY <1>0, <2>1, <4>4
      <4>6. txs'[Len(txs')].op = "list" /\ txs'[Len(txs')].by = "waited" /\ txs' # <<>>
          BY <3>1, <4>3, <4>5
      <4>7. ASSUME NEW i \in 1..(Len(txs') - 1) PROVE txs'[i].by = "gone"
        <5>1. i \in DOMAIN txs' /\ i + 1 \in 1..(Len(txs) - 1)
            BY <1>0, <2>1
        <5> QED BY <3>1, <4>3, <5>1
      <4> QED BY <2>1, <2>3, <3>1, <4>2, <4>6, <4>7 DEF Opening
    <3> QED BY <3>3, <3>4
  <2> QED BY <2>2, <2>3
<1> QED BY <1>2, <1>3, <1>4, <1>5, <1>6, <1>7, <1>8, StepKinds

LEMMA NextCached == IInv /\ [Next]_vars => Cached'
<1> SUFFICES ASSUME IInv, [Next]_vars PROVE Cached'
    OBVIOUS
<1>0. /\ TypeInv /\ Opening /\ Cached /\ Doomed /\ txs \in Seq(Txs) /\ txs' \in Seq(Txs)
      /\ DOMAIN txs = 1..Len(txs) /\ DOMAIN txs' = 1..Len(txs') /\ Len(txs) \in Nat /\ Len(txs') \in Nat
    BY NextType DEF IInv, TypeInv
\* What is added to the queue saves only what a timer was armed for.
<1>1. ASSUME Grows(txs, txs'), loading' = loading, DOMAIN pending' \subseteq DOMAIN pending, cache' = cache,
             DOMAIN asked \subseteq DOMAIN asked',
             \A i \in (Len(txs) + 1)..Len(txs') : txs'[i].op = "save" => txs'[i].file \in DOMAIN pending
      PROVE  Cached'
  <2>1. \A i \in 1..Len(txs) : txs'[i].op = txs[i].op /\ txs'[i].file = txs[i].file
      BY <1>1 DEF Grows, Alike
  <2> QED BY <1>0, <1>1, <2>1 DEF Cached
<1>2. CASE Edit
  <2>1. /\ txs' = txs /\ loading' = loading /\ asked' = asked
        /\ pending' = Put(pending, active, budget.edits + 1) /\ cache' = Put(cache, active, budget.edits + 1)
      BY <1>2 DEF Edit, ScheduleSave
  <2>2. DOMAIN pending' = DOMAIN pending \cup {active} /\ DOMAIN cache' = DOMAIN cache \cup {active}
      BY <2>1 DEF Put
  <2> QED BY <1>0, <2>1, <2>2 DEF Cached
<1>3. CASE Hide
  <2>1. Flushes(txs, txs') /\ pending' = None /\ loading' = loading /\ cache' = cache /\ asked' = asked
      BY <1>0, <1>3, FlushFlushes DEF Hide, hist
  <2> QED BY <1>1, <2>1 DEF Flushes, None
<1>4. CASE Leave
    BY <1>4 DEF Leave, Cached, None
<1>5. CASE Asides
  <2>1. /\ Grows(txs, txs') /\ loading' = loading /\ pending' = pending /\ cache' = cache /\ asked' = asked
        /\ \A i \in (Len(txs) + 1)..Len(txs') : txs'[i].op # "save"
      BY <1>0, <1>5, AsidesAdd
  <2> QED BY <1>1, <2>1
<1>6. ASSUME NEW f \in Files, SaveTimer(f) PROVE Cached'
  <2>1. /\ txs' = Append(txs, Save(f)) /\ f \in DOMAIN pending /\ pending' = Without(pending, f)
        /\ loading' = loading /\ cache' = cache /\ asked' = asked
      BY <1>6 DEF SaveTimer, hist
  <2>2. Save(f).file = f /\ DOMAIN pending' \subseteq DOMAIN pending
      BY <2>1 DEF Save, Tx, Without
  <2>3. Grows(txs, txs') /\ \A i \in (Len(txs) + 1)..Len(txs') : txs'[i] = Save(f)
      BY <1>0, <2>1, AddsOne
  <2> QED BY <1>1, <2>1, <2>2, <2>3
<1>7. ASSUME NEW f \in Files, DeleteFile(f) PROVE Cached'
  <2> DEFINE t == [Tx("delete", f, 0) EXCEPT !.rest = IF active # f THEN {}
                       ELSE IF DOMAIN files = {f} THEN {NoFile} ELSE DOMAIN files \ {f}]
  <2>1. /\ txs' = Append(txs, t) /\ pending' = Without(pending, f) /\ asked' = Put(asked, f, budget.edits)
        /\ loading' = loading /\ cache' = cache
      BY <1>7 DEF DeleteFile, CancelSave
  <2>2. t.op = "delete"
      BY DEF Tx
  <2> HIDE DEF t
  <2>3. Grows(txs, txs') /\ \A i \in (Len(txs) + 1)..Len(txs') : txs'[i] = t
      BY <1>0, <2>1, AddsOne
  <2>4. DOMAIN pending' \subseteq DOMAIN pending /\ DOMAIN asked \subseteq DOMAIN asked'
      BY <2>1 DEF Put, Without
  <2> QED BY <1>1, <2>1, <2>2, <2>3, <2>4
<1>8. CASE Ends
  <2> DEFINE t == txs[1]
  <2>1. /\ txs # <<>> /\ 1 \in DOMAIN txs /\ Head(txs) = t /\ Len(txs') = Len(txs) - 1
        /\ pending' = pending /\ asked' = asked
        /\ \A i \in DOMAIN txs' : i + 1 \in DOMAIN txs /\ txs'[i].op = txs[i + 1].op /\ txs'[i].file = txs[i + 1].file
      BY <1>0, <1>8, EndsDrops, TailDrops DEF Drops, Alike
  <2>2. DOMAIN cache \subseteq DOMAIN cache' \cup DOMAIN asked
    <3>1. CASE Deleted
      <4>1. cache' = Without(cache, t.file) /\ t.op = "delete"
          BY <2>1, <3>1 DEF Deleted, Awaited
      <4>2. t.file \in DOMAIN asked
          BY <1>0, <2>1, <4>1 DEF Doomed
      <4> QED BY <4>1, <4>2 DEF Without
    <3>2. CASE Loaded \/ Created
        BY <3>2 DEF Loaded, Created, Put
    <3>3. CASE TxAlone \/ Listed \/ Renamed \/ TxFails
        BY <3>3 DEF TxAlone, Listed, Renamed, TxFails, hook
    <3> QED BY <1>8, <3>1, <3>2, <3>3, Zenon DEF Ends, TxEnds
  <2>3. ASSUME loading, ~loading' PROVE DOMAIN txs' = {}
    <3>1. txs[1].by # "gone"
        BY <1>8, <2>1, <2>3 DEF Ends, TxEnds, TxAlone, Listed, Loaded, Created, Deleted, Renamed, Awaited, TxFails, hook
    <3>2. Len(txs) = 1
        BY <1>0, <2>1, <2>3, <3>1, HeadWhileLoading
    <3> QED BY <1>0, <2>1, <3>2
  <2> HIDE DEF t
  <2>4. ~loading' => \A i \in DOMAIN txs' : txs'[i].op = "save" => txs'[i].file \in DOMAIN cache' \cup DOMAIN asked
    <3>1. CASE loading
        BY <2>3, <3>1
    <3>2. CASE ~loading
        BY <1>0, <2>1, <2>2, <3>2 DEF Cached
    <3> QED BY <3>1, <3>2
  <2> QED BY <1>0, <2>1, <2>2, <2>4 DEF Cached
<1> QED BY <1>2, <1>3, <1>4, <1>5, <1>6, <1>7, <1>8, StepKinds

LEMMA NextDoomed == IInv /\ [Next]_vars => Doomed'
<1> SUFFICES ASSUME IInv, [Next]_vars PROVE Doomed'
    OBVIOUS
<1>0. /\ TypeInv /\ Doomed /\ txs \in Seq(Txs) /\ txs' \in Seq(Txs)
      /\ DOMAIN txs = 1..Len(txs) /\ DOMAIN txs' = 1..Len(txs') /\ Len(txs) \in Nat /\ Len(txs') \in Nat
      /\ budget.edits \in Nat /\ budget'.edits \in Nat
      /\ \A f \in DOMAIN asked : asked[f] \in Int
    BY NextType DEF IInv, TypeInv, PartialOn, Contents
\* What is added to the queue saves only what a timer was armed for, and deletes
\* nothing that was not asked for.
<1>1. ASSUME Grows(txs, txs'), asked' = asked, failed' = failed, budget'.edits >= budget.edits,
             \A i \in (Len(txs) + 1)..Len(txs') :
                /\ txs'[i].op # "delete"
                /\ txs'[i].op = "save" => txs'[i].file \in DOMAIN pending /\ txs'[i].arg = pending[txs'[i].file],
             \A f \in DOMAIN pending' : f \in DOMAIN asked => pending'[f] > asked[f]
      PROVE  Doomed'
  <2>1. \A i \in 1..Len(txs) : /\ txs'[i].op = txs[i].op /\ txs'[i].file = txs[i].file /\ txs'[i].arg = txs[i].arg
                               /\ i \in DOMAIN txs'
      BY <1>0, <1>1 DEF Grows, Alike
  <2>2. \A i \in DOMAIN txs' : i \in 1..Len(txs) \/ i \in (Len(txs) + 1)..Len(txs')
      BY <1>0
  <2>3. \A i \in DOMAIN txs' : txs'[i].op = "delete" => txs'[i].file \in DOMAIN asked
      BY <1>0, <1>1, <2>1, <2>2 DEF Doomed
  <2>4. \A f \in DOMAIN asked : asked[f] <= budget'.edits
      BY <1>0, <1>1 DEF Doomed
  <2>5. ASSUME NEW f \in DOMAIN asked, f \notin failed, NEW i \in DOMAIN txs', SaveOf(txs'[i], f)
        PROVE  \/ txs'[i].arg > asked[f]
               \/ \E j \in DOMAIN txs' : i < j /\ txs'[j].op = "delete" /\ txs'[j].file = f
    <3>1. CASE i \in 1..Len(txs)
      <4>1. SaveOf(txs[i], f) /\ i \in DOMAIN txs
          BY <1>0, <2>1, <2>5, <3>1 DEF SaveOf
      <4>2. \/ txs[i].arg > asked[f]
            \/ \E j \in DOMAIN txs : i < j /\ txs[j].op = "delete" /\ txs[j].file = f
          BY <1>0, <2>5, <4>1 DEF Doomed
      <4> QED BY <1>0, <2>1, <3>1, <4>2
    <3>2. CASE i \in (Len(txs) + 1)..Len(txs')
      <4>1. f \in DOMAIN pending /\ txs'[i].arg = pending[f]
          BY <1>1, <2>5, <3>2 DEF SaveOf
      <4> QED BY <1>0, <2>5, <4>1 DEF Doomed
    <3> QED BY <2>2, <3>1, <3>2
  <2> QED BY <1>1, <2>3, <2>4, <2>5 DEF Doomed
<1>2. CASE Edit
  <2>1. /\ txs' = txs /\ asked' = asked /\ failed' = failed
        /\ pending' = Put(pending, active, budget.edits + 1)
        /\ budget' = [budget EXCEPT !.edits = @ + 1]
      BY <1>2 DEF Edit, ScheduleSave, Spend
  <2>2. budget'.edits = budget.edits + 1
      BY <2>1 DEF TypeInv, IInv
  <2>3. \A f \in DOMAIN pending' : f \in DOMAIN asked => pending'[f] > asked[f]
      BY <1>0, <2>1 DEF Doomed, Put
  <2>4. Grows(txs, txs')
      BY <1>0, <2>1 DEF Grows, Alike
  <2> QED BY <1>0, <1>1, <2>1, <2>2, <2>3, <2>4
<1>3. CASE Hide
  <2>1. Flushes(txs, txs') /\ pending' = None /\ asked' = asked /\ failed' = failed /\ budget' = budget
      BY <1>0, <1>3, FlushFlushes DEF Hide, hist
  <2> QED BY <1>0, <1>1, <2>1 DEF Flushes, None
<1>4. CASE Leave
  <2>1. Flushes(txs, txs')
      BY <1>0, <1>4, LeaveFlushes
  <2>2. pending' = None /\ asked' = asked /\ failed' = failed /\ budget' = [budget EXCEPT !.mishaps = @ + 1]
      BY <1>4 DEF Leave, hist, Spend
  <2>3. budget'.edits = budget.edits
      BY <2>2 DEF TypeInv, IInv
  <2> QED BY <1>0, <1>1, <2>1, <2>2, <2>3 DEF Flushes, None
<1>5. CASE Asides
  <2>1. /\ Grows(txs, txs') /\ pending' = pending /\ asked' = asked /\ failed' = failed /\ budget'.edits = budget.edits
        /\ \A i \in (Len(txs) + 1)..Len(txs') : txs'[i].op \in {"get", "create", "rename"}
      BY <1>0, <1>5, AsidesAdd
  <2>2. \A f \in DOMAIN pending : f \in DOMAIN asked => pending[f] > asked[f]
      BY <1>0 DEF Doomed
  <2> QED BY <1>0, <1>1, <2>1, <2>2
<1>6. ASSUME NEW f \in Files, SaveTimer(f) PROVE Doomed'
  <2>1. /\ txs' = Append(txs, Save(f)) /\ f \in DOMAIN pending /\ pending' = Without(pending, f)
        /\ asked' = asked /\ failed' = failed /\ budget' = budget
      BY <1>6 DEF SaveTimer, hist
  <2>2. Save(f).file = f /\ Save(f).op = "save" /\ Save(f).arg = pending[f]
      BY <2>1 DEF Save, Tx
  <2>3. Grows(txs, txs') /\ \A i \in (Len(txs) + 1)..Len(txs') : txs'[i] = Save(f)
      BY <1>0, <2>1, AddsOne
  <2>4. \A g \in DOMAIN pending' : g \in DOMAIN asked => pending'[g] > asked[g]
      BY <1>0, <2>1 DEF Doomed, Without
  <2> QED BY <1>0, <1>1, <2>1, <2>2, <2>3, <2>4
<1>7. ASSUME NEW f \in Files, DeleteFile(f) PROVE Doomed'
  <2> DEFINE t == [Tx("delete", f, 0) EXCEPT !.rest = IF active # f THEN {}
                       ELSE IF DOMAIN files = {f} THEN {NoFile} ELSE DOMAIN files \ {f}]
  <2>1. /\ txs' = Append(txs, t) /\ pending' = Without(pending, f) /\ asked' = Put(asked, f, budget.edits)
        /\ failed' = failed /\ budget' = [budget EXCEPT !.deletes = @ + 1]
      BY <1>7 DEF DeleteFile, CancelSave, Spend
  <2>2. t.op = "delete" /\ t.file = f
      BY DEF Tx
  <2> HIDE DEF t
  <2>3. /\ Grows(txs, txs') /\ Len(txs') = Len(txs) + 1 /\ txs'[Len(txs')] = t
        /\ \A i \in 1..Len(txs) : txs'[i] = txs[i]
      BY <1>0, <2>1, AddsOne
  <2>4. budget'.edits = budget.edits
      BY <2>1 DEF TypeInv, IInv
  <2>5. /\ DOMAIN asked' = DOMAIN asked \cup {f} /\ asked'[f] = budget.edits
        /\ \A g \in DOMAIN asked : g # f => asked'[g] = asked[g]
      BY <2>1 DEF Put
  <2>6. DOMAIN pending' = DOMAIN pending \ {f} /\ \A g \in DOMAIN pending : g # f => pending'[g] = pending[g]
      BY <2>1 DEF Without
  <2>7. \A i \in DOMAIN txs' : txs'[i].op = "delete" => txs'[i].file \in DOMAIN asked'
      BY <1>0, <2>2, <2>3, <2>5 DEF Doomed
  <2>8. ASSUME NEW g \in DOMAIN asked'
        PROVE  asked'[g] <= budget'.edits /\ (g \in DOMAIN pending' => pending'[g] > asked'[g])
      BY <1>0, <2>4, <2>5, <2>6 DEF Doomed
  <2>9. ASSUME NEW g \in DOMAIN asked', g \notin failed', NEW i \in DOMAIN txs', SaveOf(txs'[i], g)
        PROVE  \/ txs'[i].arg > asked'[g]
               \/ \E j \in DOMAIN txs' : i < j /\ txs'[j].op = "delete" /\ txs'[j].file = g
    <3>1. i # Len(txs') /\ i \in DOMAIN txs /\ txs'[i] = txs[i] /\ i < Len(txs') /\ Len(txs') \in DOMAIN txs'
        BY <1>0, <2>2, <2>3, <2>9 DEF SaveOf
    <3>2. CASE g = f
        BY <2>2, <2>3, <3>1, <3>2
    <3>3. CASE g # f
      <4>1. \/ txs[i].arg > asked[g]
            \/ \E j \in DOMAIN txs : i < j /\ txs[j].op = "delete" /\ txs[j].file = g
          BY <1>0, <2>1, <2>5, <2>9, <3>1, <3>3 DEF Doomed
      <4> QED BY <1>0, <2>3, <2>5, <3>1, <3>3, <4>1
    <3> QED BY <3>2, <3>3
  <2> QED BY <2>7, <2>8, <2>9 DEF Doomed
<1>8. CASE Ends
  <2>1. /\ txs # <<>> /\ 1 \in DOMAIN txs /\ Len(txs') = Len(txs) - 1
        /\ pending' = pending /\ asked' = asked
        /\ \A i \in DOMAIN txs' : i + 1 \in DOMAIN txs /\ Alike(txs[i + 1], txs'[i])
      BY <1>0, <1>8, EndsDrops DEF Drops
  <2>2. failed \subseteq failed' /\ budget'.edits = budget.edits
    <3>1. CASE failed' = failed /\ budget' = budget
        BY <3>1
    <3>2. CASE TxFails
      <4>1. budget' = [budget EXCEPT !.mishaps = @ + 1] /\ failed \subseteq failed'
          BY <3>2 DEF TxFails, Spend
      <4> QED BY <4>1 DEF TypeInv, IInv
    <3> QED BY <1>0, <1>8, <3>1, <3>2, EndsCommits
  <2>3. \A i \in DOMAIN txs' : txs'[i].op = "delete" => txs'[i].file \in DOMAIN asked
      BY <1>0, <2>1 DEF Doomed, Alike
  <2>4. ASSUME NEW f \in DOMAIN asked, f \notin failed', NEW i \in DOMAIN txs', SaveOf(txs'[i], f)
        PROVE  \/ txs'[i].arg > asked[f]
               \/ \E j \in DOMAIN txs' : i < j /\ txs'[j].op = "delete" /\ txs'[j].file = f
    <3>1. i + 1 \in DOMAIN txs /\ SaveOf(txs[i + 1], f) /\ txs[i + 1].arg = txs'[i].arg
        BY <2>1, <2>4 DEF Alike, SaveOf
    <3>2. \/ txs[i + 1].arg > asked[f]
          \/ \E j \in DOMAIN txs : i + 1 < j /\ txs[j].op = "delete" /\ txs[j].file = f
        BY <1>0, <2>2, <2>4, <3>1 DEF Doomed
    <3>3. ASSUME NEW j \in DOMAIN txs, i + 1 < j, txs[j].op = "delete", txs[j].file = f
          PROVE  \E k \in DOMAIN txs' : i < k /\ txs'[k].op = "delete" /\ txs'[k].file = f
      <4>1. j - 1 \in DOMAIN txs' /\ i < j - 1 /\ (j - 1) + 1 = j
          BY <1>0, <2>1, <2>4, <3>3
      <4>2. Alike(txs[j], txs'[j - 1])
          BY <2>1, <4>1
      <4> QED BY <3>3, <4>1, <4>2 DEF Alike
    <3> QED BY <3>1, <3>2, <3>3
  <2> QED BY <1>0, <2>1, <2>2, <2>3, <2>4 DEF Doomed
<1> QED BY <1>2, <1>3, <1>4, <1>5, <1>6, <1>7, <1>8, StepKinds

LEMMA NextNoResurrection == IInv /\ [Next]_vars => NoResurrection'
<1> SUFFICES ASSUME IInv, [Next]_vars PROVE NoResurrection'
    OBVIOUS
<1>0. /\ TypeInv /\ Doomed /\ NoResurrection /\ txs \in Seq(Txs) /\ txs' \in Seq(Txs)
      /\ DOMAIN txs = 1..Len(txs) /\ DOMAIN txs' = 1..Len(txs') /\ Len(txs) \in Nat /\ Len(txs') \in Nat
    BY NextType DEF IInv, TypeInv
\* The queue only grows, and the tables stay.
<1>1. ASSUME Grows(txs, txs'), rows' = rows, blobs' = blobs, failed' = failed, asked' = asked
      PROVE  NoResurrection'
  <2>1. \A i \in DOMAIN txs : i \in DOMAIN txs' /\ txs'[i].op = txs[i].op /\ txs'[i].file = txs[i].file
      BY <1>0, <1>1 DEF Grows, Alike
  <2> QED BY <1>0, <1>1, <2>1 DEF NoResurrection
<1>2. CASE Edit
  <2>1. txs' = txs /\ rows' = rows /\ blobs' = blobs /\ failed' = failed /\ asked' = asked
      BY <1>2 DEF Edit, db
  <2> QED BY <1>0, <1>1, <2>1 DEF Grows, Alike
<1>3. CASE Hide
  <2>1. Flushes(txs, txs') /\ rows' = rows /\ blobs' = blobs /\ failed' = failed /\ asked' = asked
      BY <1>0, <1>3, FlushFlushes DEF Hide, db, hist
  <2> QED BY <1>1, <2>1 DEF Flushes
<1>4. CASE Leave
  <2>1. Flushes(txs, txs')
      BY <1>0, <1>4, LeaveFlushes
  <2>2. rows' = rows /\ blobs' = blobs /\ failed' = failed /\ asked' = asked
      BY <1>4 DEF Leave, db, hist
  <2> QED BY <1>1, <2>1, <2>2 DEF Flushes
<1>5. CASE Asides
    BY <1>0, <1>1, <1>5, AsidesAdd
<1>6. ASSUME NEW f \in Files, SaveTimer(f) PROVE NoResurrection'
  <2>1. txs' = Append(txs, Save(f)) /\ rows' = rows /\ blobs' = blobs /\ failed' = failed /\ asked' = asked
      BY <1>6 DEF SaveTimer, db, hist
  <2> QED BY <1>0, <1>1, <2>1, AddsOne
<1>7. ASSUME NEW f \in Files, DeleteFile(f) PROVE NoResurrection'
  <2> DEFINE t == [Tx("delete", f, 0) EXCEPT !.rest = IF active # f THEN {}
                       ELSE IF DOMAIN files = {f} THEN {NoFile} ELSE DOMAIN files \ {f}]
  <2>1. /\ txs' = Append(txs, t) /\ asked' = Put(asked, f, budget.edits)
        /\ rows' = rows /\ blobs' = blobs /\ failed' = failed
      BY <1>7 DEF DeleteFile, db
  <2>2. t.op = "delete" /\ t.file = f
      BY DEF Tx
  <2> HIDE DEF t
  <2>3. /\ Len(txs') = Len(txs) + 1 /\ txs'[Len(txs')] = t
        /\ \A i \in 1..Len(txs) : txs'[i] = txs[i]
      BY <1>0, <2>1, AddsOne
  <2>4. \E i \in DOMAIN txs' : txs'[i].op = "delete" /\ txs'[i].file = f
      BY <1>0, <2>2, <2>3
  <2>5. ASSUME NEW g \in DOMAIN asked' \ failed', g \in DOMAIN blobs' \ DOMAIN rows', g # f
        PROVE  \/ blobs'[g] > asked'[g]
               \/ \E i \in DOMAIN txs' : txs'[i].op = "delete" /\ txs'[i].file = g
    <3>1. g \in DOMAIN asked \ failed /\ g \in DOMAIN blobs \ DOMAIN rows /\ asked'[g] = asked[g]
        BY <2>1, <2>5 DEF Put
    <3>2. \/ blobs[g] > asked[g]
          \/ \E i \in DOMAIN txs : txs[i].op = "delete" /\ txs[i].file = g
        BY <1>0, <3>1 DEF NoResurrection
    <3> QED BY <1>0, <2>1, <2>3, <3>1, <3>2
  <2> QED BY <2>4, <2>5 DEF NoResurrection
<1>8. CASE Ends
  <2> DEFINE t == txs[1]
             Coming(f, q) == \E i \in DOMAIN q : q[i].op = "delete" /\ q[i].file = f
  <2>1. /\ txs # <<>> /\ 1 \in DOMAIN txs /\ asked' = asked /\ Len(txs') = Len(txs) - 1
        /\ \A i \in DOMAIN txs' : Alike(txs[i + 1], txs'[i])
      BY <1>0, <1>8, EndsDrops DEF Drops
  <2>2. \/ Commit(t) /\ failed' = failed
        \/ rows' = rows /\ blobs' = blobs /\ failed' = failed \cup {t.file}
      BY <1>0, <1>8, EndsCommits
  <2>3. ASSUME NEW i \in DOMAIN txs, i # 1 PROVE i - 1 \in DOMAIN txs' /\ Alike(txs[i], txs'[i - 1])
    <3>1. i - 1 \in DOMAIN txs' /\ (i - 1) + 1 = i
        BY <1>0, <2>1, <2>3
    <3> QED BY <2>1, <3>1
  <2>4. ASSUME NEW f, Coming(f, txs), ~(t.op = "delete" /\ t.file = f) PROVE Coming(f, txs')
    <3>1. PICK i \in DOMAIN txs : txs[i].op = "delete" /\ txs[i].file = f
        BY <2>4
    <3>2. i - 1 \in DOMAIN txs' /\ Alike(txs[i], txs'[i - 1])
        BY <2>3, <2>4, <3>1
    <3> QED BY <3>1, <3>2 DEF Alike
  <2>5. SUFFICES ASSUME NEW f \in DOMAIN asked, f \notin failed', f \in DOMAIN blobs', f \notin DOMAIN rows'
                 PROVE  blobs'[f] > asked[f] \/ Coming(f, txs')
      BY <2>1 DEF NoResurrection
  <2>6. ASSUME f \in DOMAIN blobs, f \notin DOMAIN rows PROVE blobs[f] > asked[f] \/ Coming(f, txs)
      BY <1>0, <2>2, <2>5, <2>6 DEF NoResurrection
  <2>7. ASSUME SaveOf(t, f) PROVE t.arg > asked[f] \/ Coming(f, txs)
      BY <1>0, <2>1, <2>2, <2>5, <2>7 DEF Doomed
  <2> HIDE DEF t, Coming
  <2>8. CASE rows' = rows /\ blobs' = blobs /\ failed' = failed \cup {t.file}
      BY <2>4, <2>5, <2>6, <2>8
  <2>9. CASE Commit(t)
    <3>1. CASE t.op = "create"
      <4>1. rows' = Put(rows, t.file, t.arg) /\ blobs' = Put(blobs, t.file, 0)
          BY <2>9, <3>1, Commits
      <4>2. f # t.file /\ f \notin DOMAIN rows /\ f \in DOMAIN blobs /\ blobs'[f] = blobs[f]
          BY <2>5, <4>1 DEF Put
      <4> QED BY <2>4, <2>6, <3>1, <4>2
    <3>2. CASE t.op = "save"
      <4>1. rows' = rows /\ blobs' = Put(blobs, t.file, t.arg)
          BY <2>9, <3>2, Commits
      <4>2. CASE t.file = f
        <5>1. blobs'[f] = t.arg /\ SaveOf(t, f)
            BY <3>2, <4>1, <4>2 DEF Put, SaveOf
        <5> QED BY <2>4, <2>7, <3>2, <5>1
      <4>3. CASE t.file # f
        <5>1. f \notin DOMAIN rows /\ f \in DOMAIN blobs /\ blobs'[f] = blobs[f]
            BY <2>5, <4>1, <4>3 DEF Put
        <5> QED BY <2>4, <2>6, <3>2, <5>1
      <4> QED BY <4>2, <4>3
    <3>3. CASE t.op = "delete"
      <4>1. rows' = Without(rows, t.file) /\ blobs' = Without(blobs, t.file)
          BY <2>9, <3>3, Commits
      <4>2. f # t.file /\ f \notin DOMAIN rows /\ f \in DOMAIN blobs /\ blobs'[f] = blobs[f]
          BY <2>5, <4>1 DEF Without
      <4> QED BY <2>4, <2>6, <4>2
    <3>4. CASE t.op = "rename"
      <4>1. rows' = (IF t.file \in DOMAIN rows THEN Put(rows, t.file, t.arg) ELSE rows) /\ blobs' = blobs
          BY <2>9, <3>4, Commits
      <4>2. f \notin DOMAIN rows
          BY <2>5, <4>1 DEF Put
      <4> QED BY <2>4, <2>5, <2>6, <3>4, <4>1, <4>2
    <3>5. CASE t.op \notin {"create", "save", "delete", "rename"}
      <4>1. rows' = rows /\ blobs' = blobs
          BY <2>9, <3>5, Commits
      <4> QED BY <2>4, <2>5, <2>6, <3>5, <4>1
    <3> QED BY <3>1, <3>2, <3>3, <3>4, <3>5
  <2> QED BY <2>2, <2>8, <2>9
<1> QED BY <1>2, <1>3, <1>4, <1>5, <1>6, <1>7, <1>8, StepKinds

-----------------------------------------------------------------------------
(* The theorems.                                                            *)

LEMMA InitIInv == Init => IInv
<1> SUFFICES ASSUME Init PROVE IInv
    OBVIOUS
<1>1. /\ txs = <<Tx("list", NoFile, 0)>> /\ loading = TRUE
      /\ typed = None /\ asked = None /\ pending = None
    BY DEF Init
<1>2. Len(txs) = 1 /\ DOMAIN txs = {1} /\ txs[1].op = "list" /\ txs[1].by = "waited" /\ txs # <<>>
    BY <1>1 DEF Tx
<1>3. Kept /\ ShownIsTyped
    BY <1>1 DEF Kept, ShownIsTyped, Owed, None
<1>4. Unborn /\ Opening
    BY <1>1, <1>2 DEF Unborn, Opening
<1>5. Cached /\ Doomed /\ NoResurrection
    BY <1>1, <1>2 DEF Cached, Doomed, NoResurrection, None
<1> QED BY <1>3, <1>4, <1>5, InitType DEF IInv

LEMMA NextIInv == IInv /\ [Next]_vars => IInv'
<1>1. IInv => TypeInv
    BY DEF IInv
<1> QED BY <1>1, NextType, NextKept, NextShown, NextUnborn, NextOpening, NextCached, NextDoomed,
           NextNoResurrection DEF IInv

LEMMA Invariance == Spec => []IInv
    BY InitIInv, NextIInv, PTL DEF Spec

\* Every variable keeps its type: transactions, timers and texts are those of
\* ids that were handed out (useProjectFiles.ts makes every id in addFile).
THEOREM TypeCorrect == Spec => []TypeOK
<1>1. TypeInv => TypeOK
  <2> SUFFICES ASSUME TypeInv PROVE TypeOK
      OBVIOUS
  <2>1. \A i \in DOMAIN txs :
           /\ txs[i].op \in {"list", "get", "save", "create", "delete", "rename"}
           /\ txs[i].file \in used \cup {NoFile}
           /\ txs[i].arg \in Names \cup Contents
           /\ txs[i].by \in {"waited", "cancelled", "gone"}
           /\ txs[i].rest \subseteq used \cup {NoFile}
    <3>1. \A i \in DOMAIN txs : txs[i] \in Txs /\ Fits(txs[i], used)
        BY DEF TypeInv
    <3> QED BY <3>1 DEF Txs, Ops, Fits
  <2>2. \A f \in {blobs, cache, pending, contents, typed, asked} : PartialOn(f, used, Contents)
      BY DEF TypeInv
  <2> QED BY <2>1, <2>2 DEF TypeInv, TypeOK
<1> QED BY <1>1, Invariance, PTL DEF IInv

\* A set of positions that is not empty has a last one, which Max chooses.
LEMMA MaxOfPositions ==
    ASSUME NEW n \in Nat, NEW S \in SUBSET (1..n), S # {}
    PROVE  Max(S) \in S /\ \A i \in S : i <= Max(S)
<1> DEFINE D == {n - i : i \in S}
<1>0. n \in Int /\ \A i \in S : i \in Int /\ 1 <= i /\ i <= n
    OBVIOUS
<1>1. (\A d \in D : \E i \in S : d = n - i) /\ \A i \in S : n - i \in D
    OBVIOUS
<1> HIDE DEF D
<1>2. D \subseteq Nat /\ D # {}
  <2>1. ASSUME NEW d \in D PROVE d \in Nat
    <3>1. PICK i \in S : d = n - i
        BY <1>1
    <3>2. i \in Int /\ 1 <= i /\ i <= n
        BY <1>0
    <3> QED BY <3>1, <3>2
  <2>2. PICK i \in S : TRUE
      OBVIOUS
  <2>3. n - i \in D
      BY <1>1
  <2> QED BY <2>1, <2>3
<1>3. PICK d \in D : \A e \in D : d <= e
  <2> DEFINE R == OpToRel(<, Nat)
  <2>1. IsWellFoundedOn(R, Nat)
      BY NatLessThanWellFounded
  <2>2. \A x, y \in Nat : <<y, x>> \in R <=> y < x
      BY DEF OpToRel
  <2> HIDE DEF R
  <2>3. \E x \in D : \A y \in D : <<y, x>> \notin R
      BY <1>2, <2>1, WFMin
  <2>4. \A x, y \in Nat : ~(y < x) => x <= y
      OBVIOUS
  <2>5. \E x \in D : \A y \in D : x <= y
      BY <1>2, <2>2, <2>3, <2>4
  <2> QED BY <2>5
<1>4. PICK m \in S : \A i \in S : m >= i
  <2>1. PICK m \in S : d = n - m
      BY <1>1
  <2>2. ASSUME NEW i \in S PROVE m >= i
    <3>1. n - m <= n - i
        BY <1>1, <1>3, <2>1
    <3>2. m \in Int /\ i \in Int
        BY <1>0
    <3> QED BY <1>0, <3>1, <3>2
  <2> QED BY <2>2
<1>5. \E x \in S : \A y \in S : x >= y
    BY <1>4
<1>6. Max(S) \in S /\ \A y \in S : Max(S) >= y
    BY <1>5, Zenon DEF Max
<1> QED BY <1>0, <1>6

\* What the user typed is never lost on its way to the database: through any
\* edits, timers, reloads and failures of other files' transactions, the newest
\* among the timer, the queue and the table is the last thing typed
\* (useProjectFiles.ts, scheduleSave and flushAllSaves).
THEOREM TypedKept == Spec => []TypedIsKept
<1>1. TypeInv /\ Kept => TypedIsKept
  <2> SUFFICES ASSUME TypeInv, Kept, NEW f \in Owed PROVE LastWrite(f) = typed[f]
      BY DEF TypedIsKept
  <2> DEFINE saves == {i \in DOMAIN txs : txs[i].op = "save" /\ txs[i].file = f}
  <2>1. /\ DOMAIN txs = 1..Len(txs) /\ Len(txs) \in Nat
      BY DEF TypeInv
  <2>2. CASE f \in DOMAIN pending
      BY <2>2 DEF Kept, LastWrite
  <2>3. CASE f \notin DOMAIN pending /\ saves # {}
    <3>1. Max(saves) \in saves /\ \A i \in saves : i <= Max(saves)
        BY <2>1, <2>3, MaxOfPositions
    <3>2. LastWrite(f) = txs[Max(saves)].arg
        BY <2>3 DEF LastWrite
    <3> DEFINE m == Max(saves)
    <3> HIDE DEF m
    <3>3. m \in DOMAIN txs /\ SaveOf(txs[m], f)
        BY <3>1 DEF m, SaveOf
    <3>4. \A j \in DOMAIN txs : m < j => ~SaveOf(txs[j], f)
      <4>1. \A j \in saves : j <= m
          BY <3>1 DEF m
      <4> QED BY <2>1, <3>3, <4>1 DEF SaveOf
    <3>5. NewestIs(txs, blobs, f, typed[f])
        BY <2>3 DEF Kept
    <3>6. txs[m].arg = typed[f]
        BY <3>3, <3>4, <3>5 DEF NewestIs
    <3> QED BY <3>2, <3>6 DEF m
  <2>4. CASE f \notin DOMAIN pending /\ saves = {}
    <3>1. NewestIs(txs, blobs, f, typed[f])
        BY <2>4 DEF Kept
    <3>2. f \in DOMAIN blobs /\ blobs[f] = typed[f]
        BY <2>4, <3>1 DEF NewestIs, SaveOf
    <3> QED BY <2>4, <3>2 DEF LastWrite
  <2> QED BY <2>2, <2>3, <2>4
<1> QED BY <1>1, Invariance, PTL DEF IInv

\* What the editor and the translator see is the last thing typed, whichever
\* read, cancelled or not, brought it (useProjectFiles.ts, loadFileContent).
THEOREM TypedShown == Spec => []ShownIsTyped
    BY Invariance, PTL DEF IInv

\* No text typed before a deletion is left in the table once the deletion is
\* over, although saves of it may have been queued in front of it or armed when
\* it was asked for (useProjectFiles.ts, handleDeleteFile).
THEOREM Resurrection == Spec => []NoResurrection
    BY Invariance, PTL DEF IInv
=============================================================================
