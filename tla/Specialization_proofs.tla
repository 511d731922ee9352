------------------------ MODULE Specialization_proofs ------------------------
(***************************************************************************)
(* Proofs about Specialization.  For every project and whatever the        *)
(* resolver answers: no body is lowered twice or inside itself, callees are*)
(* emitted before their callers, and a body is found under the key of the  *)
(* types it was lowered for.  The induction is on the stack of bodies being*)
(* lowered; what a statement calls is not looked into.  With the resolver  *)
(* as it is, for a project that is WellWritten: a call runs the body it    *)
(* asks for, and, if KeepsCaptures, a handle's body sees the variables     *)
(* there were when it was made.  That induction is on the handles made so  *)
(* far, over a registry that holds what the project declares (Filing).     *)
(***************************************************************************)
EXTENDS Specialization, SequenceTheorems, FiniteSetTheorems, TLAPS

Sequence(s) == s \in Seq({s[i] : i \in DOMAIN s})

\* What every body on the stack is known by.
Fields == {"key", "ast", "file", "args", "env", "pc"}

\* A key tells the file and the canonical form of the argument types.
MadeFor(key, file, args) ==
  /\ key.file = <<file.dir, file.base>>
  /\ key.args = [i \in DOMAIN args |-> canonicalizeType(args[i])]

\* The stack and the status: the script is at the bottom and nowhere else, and
\* the index is built once.
WellStacked ==
  /\ Sequence(stack)
  /\ \A i \in DOMAIN stack : Fields \subseteq DOMAIN stack[i]
  /\ status \in {"loading", "lowering", "done", "rejected"}
  /\ status = "lowering" <=> stack # <<>>
  /\ status # "loading" => index # <<>>
  /\ stack # <<>> => stack[1].key = Script

\* What has been lowered is cached and emitted, each body once and under its key.
WellEmitted ==
  /\ Sequence(order)
  /\ Script \notin DOMAIN cache
  /\ \A k \in DOMAIN cache : MadeFor(k, cache[k].file, cache[k].args)
  /\ \A i \in DOMAIN stack : stack[i].key # Script => MadeFor(stack[i].key, stack[i].file, stack[i].args)

\* The body a call runs was lowered in the file, and for types of the canonical
\* form, that the call asked for.
FoundUnderItsKey ==
  \A c \in called : \A spec \in c.got :
    MadeFor(c.key, spec.file, spec.args) /\ MadeFor(c.key, c.asked.file, c.asked.args)

IInv == WellStacked /\ WellEmitted /\ NoneTwice /\ CalleesComeFirst /\ FoundUnderItsKey

-----------------------------------------------------------------------------
(* Sequences.                                                               *)

\* A sequence of anything is one of its own elements.
LEMMA OwnElements ==
  ASSUME NEW T, NEW s \in Seq(T)
  PROVE  Sequence(s) /\ DOMAIN s = 1 .. Len(s) /\ Len(s) \in Nat
<1> DEFINE R == {s[i] : i \in DOMAIN s}
<1>1. Len(s) \in Nat /\ DOMAIN s = 1 .. Len(s) /\ s \in [1 .. Len(s) -> T]
  BY SMT
<1>2. s \in [1 .. Len(s) -> R]
  BY <1>1
<1>3. s \in Seq(R)
  BY <1>1, <1>2, SeqDef
<1> QED BY <1>1, <1>3 DEF Sequence

LEMMA SequenceFacts ==
  ASSUME NEW s, Sequence(s)
  PROVE  Len(s) \in Nat /\ DOMAIN s = 1 .. Len(s)
BY OwnElements DEF Sequence

LEMMA AppendFacts ==
  ASSUME NEW s, Sequence(s), NEW x
  PROVE  /\ Sequence(Append(s, x))
         /\ Len(Append(s, x)) = Len(s) + 1
         /\ DOMAIN Append(s, x) = 1 .. Len(s) + 1
         /\ \A i \in 1 .. Len(s) : Append(s, x)[i] = s[i]
         /\ Append(s, x)[Len(s) + 1] = x
<1> DEFINE T == {s[i] : i \in DOMAIN s} \cup {x}
<1>1. s \in Seq(T)
  <2>1. s \in Seq({s[i] : i \in DOMAIN s})
    BY DEF Sequence
  <2> QED BY <2>1, SMT
<1>2. x \in T
  OBVIOUS
<1> HIDE DEF T
<1>3. Append(s, x) \in Seq(T) /\ Len(Append(s, x)) = Len(s) + 1
  BY <1>1, <1>2, AppendProperties
<1>4. /\ \A i \in 1 .. Len(s) : Append(s, x)[i] = s[i]
      /\ Append(s, x)[Len(s) + 1] = x
  BY <1>1, <1>2, AppendProperties
<1>5. Sequence(Append(s, x)) /\ DOMAIN Append(s, x) = 1 .. Len(Append(s, x))
  BY <1>3, OwnElements
<1> QED BY <1>3, <1>4, <1>5

LEMMA FrontFacts ==
  ASSUME NEW s, Sequence(s), s # <<>>
  PROVE  /\ Len(s) \in Nat \ {0} /\ Last(s) = s[Len(s)]
         /\ Sequence(Front(s)) /\ Len(Front(s)) = Len(s) - 1
         /\ DOMAIN Front(s) = 1 .. Len(s) - 1
         /\ \A i \in 1 .. Len(s) - 1 : Front(s)[i] = s[i]
<1> DEFINE T == {s[i] : i \in DOMAIN s}
<1>1. s \in Seq(T)
  BY DEF Sequence
<1> HIDE DEF T
<1>2. Len(s) \in Nat \ {0}
  BY <1>1, EmptySeq, LenProperties
<1>3. /\ Front(s) \in Seq(T) /\ Len(Front(s)) = Len(s) - 1
      /\ \A i \in 1 .. Len(s) - 1 : Front(s)[i] = s[i]
  <2> DEFINE n == Len(s) - 1
  <2>1. n \in Nat /\ \A i \in 1 .. n : s[i] \in T
    BY <1>1, <1>2, ElementOfSeq
  <2>2. Front(s) = SubSeq(s, 1, n)
    BY DEF Front
  <2> HIDE DEF n
  <2>3. 1 \in Int /\ n \in Int /\ n - 1 + 1 = n /\ (1 <= n \/ n = 0) /\ \A i \in 1 .. n : 1 + i - 1 = i
    BY <2>1
  <2>4. /\ SubSeq(s, 1, n) \in Seq(T)
        /\ Len(SubSeq(s, 1, n)) = IF 1 <= n THEN n - 1 + 1 ELSE 0
        /\ \A i \in 1 .. n - 1 + 1 : SubSeq(s, 1, n)[i] = s[1 + i - 1]
    BY <2>1, <2>3, SubSeqProperties
  <2>5. Front(s) \in Seq(T) /\ Len(Front(s)) = n /\ \A i \in 1 .. n : Front(s)[i] = s[i]
    BY <2>2, <2>3, <2>4
  <2> QED BY <2>5 DEF n
<1>4. Sequence(Front(s)) /\ DOMAIN Front(s) = 1 .. Len(Front(s))
  BY <1>3, OwnElements
<1> QED BY <1>2, <1>3, <1>4 DEF Last

-----------------------------------------------------------------------------
(* The steps on the stack.                                                  *)

\* A statement that is done moves its own body on, and nothing else of any.
SameBodies(s) ==
  /\ Sequence(s) /\ Len(s) = Len(stack)
  /\ \A i \in 1 .. Len(stack) : /\ Fields \subseteq DOMAIN s[i]
                                /\ s[i].key = stack[i].key
                                /\ s[i].file = stack[i].file
                                /\ s[i].args = stack[i].args

LEMMA ChangedTop ==
  ASSUME Sequence(stack), stack # <<>>, \A i \in DOMAIN stack : Fields \subseteq DOMAIN stack[i],
         NEW top, Fields \subseteq DOMAIN top,
         top.key = stack[Len(stack)].key, top.file = stack[Len(stack)].file, top.args = stack[Len(stack)].args
  PROVE  SameBodies([stack EXCEPT ![Len(stack)] = top])
<1> DEFINE s == [stack EXCEPT ![Len(stack)] = top]
           T == {stack[i] : i \in DOMAIN stack} \cup {top}
<1>1. Len(stack) \in Nat \ {0} /\ DOMAIN stack = 1 .. Len(stack)
  BY SequenceFacts, FrontFacts
<1>2. stack \in Seq({stack[i] : i \in DOMAIN stack})
  BY DEF Sequence
<1>3. stack = [i \in 1 .. Len(stack) |-> stack[i]]
  BY <1>2, SMT
<1>4. /\ s \in [1 .. Len(stack) -> T] /\ DOMAIN s = 1 .. Len(stack)
      /\ \A i \in 1 .. Len(stack) : s[i] = IF i = Len(stack) THEN top ELSE stack[i]
  BY <1>1, <1>3
<1> HIDE DEF s, T
<1>5. s \in Seq(T) /\ Len(s) = Len(stack)
  <2>1. s \in Seq(T)
    BY <1>1, <1>4, SeqDef
  <2>2. DOMAIN s = 1 .. Len(s) /\ Len(s) \in Nat
    BY <2>1, OwnElements
  <2>3. 1 .. Len(s) = 1 .. Len(stack)
    BY <1>4, <2>2
  <2>4. Len(stack) \in 1 .. Len(s)
    BY <1>1, <2>3
  <2>5. Len(s) \in 1 .. Len(stack)
    BY <2>2, <2>3, <2>4
  <2>6. \A a, b \in Nat : a \in 1 .. b /\ b \in 1 .. a => a = b
    OBVIOUS
  <2>7. Len(s) = Len(stack)
    BY <1>1, <2>2, <2>4, <2>5, <2>6, Zenon
  <2> QED BY <2>1, <2>7
<1>6. Sequence(s)
  BY <1>5, OwnElements
<1>7. \A i \in 1 .. Len(stack) : /\ Fields \subseteq DOMAIN s[i]
                                /\ s[i].key = stack[i].key
                                /\ s[i].file = stack[i].file
                                /\ s[i].args = stack[i].args
  BY <1>1, <1>4
<1> QED BY <1>5, <1>6, <1>7 DEF SameBodies, s

LEMMA AdvanceMovesOn ==
  ASSUME Sequence(stack), stack # <<>>, \A i \in DOMAIN stack : Fields \subseteq DOMAIN stack[i],
         NEW targets, NEW types, Advance(targets, types)
  PROVE  SameBodies(stack')
<1> DEFINE was == stack[Len(stack)]
           top == [was EXCEPT !.pc = was.pc + 1, !.env = Assigned(targets, types)]
<1>1. Len(stack) \in DOMAIN stack
  BY SequenceFacts, FrontFacts
<1>2. stack' = [stack EXCEPT ![Len(stack)] = top]
  BY <1>1 DEF Advance, frame, Last
<1>3. Fields \subseteq DOMAIN was
  BY <1>1
<1> HIDE DEF was
<1>4. Fields \subseteq DOMAIN top /\ top.key = was.key /\ top.file = was.file /\ top.args = was.args
  BY <1>3 DEF Fields
<1> HIDE DEF top
<1> QED BY <1>2, <1>4, ChangedTop DEF was

LEMMA StopMovesOn ==
  ASSUME Sequence(stack), stack # <<>>, \A i \in DOMAIN stack : Fields \subseteq DOMAIN stack[i],
         NEW at, stack' = [stack EXCEPT ![Len(stack)].pc = at]
  PROVE  SameBodies(stack')
<1> DEFINE was == stack[Len(stack)]
           top == [was EXCEPT !.pc = at]
<1>1. Len(stack) \in DOMAIN stack
  BY SequenceFacts, FrontFacts
<1>2. stack' = [stack EXCEPT ![Len(stack)] = top]
  BY <1>1
<1>3. Fields \subseteq DOMAIN was
  BY <1>1
<1> HIDE DEF was
<1>4. Fields \subseteq DOMAIN top /\ top.key = was.key /\ top.file = was.file /\ top.args = was.args
  BY <1>3 DEF Fields
<1> HIDE DEF top
<1> QED BY <1>2, <1>4, ChangedTop DEF was

-----------------------------------------------------------------------------
(* The proof of the inductive invariant.                                    *)

LEMMA FrameIsTop ==
  ASSUME WellStacked, Lowering
  PROVE  /\ stack # <<>> /\ Len(stack) \in Nat \ {0} /\ DOMAIN stack = 1 .. Len(stack)
         /\ frame = stack[Len(stack)]
         /\ stack[1].key = Script
<1>1. stack # <<>>
  BY DEF WellStacked, Lowering
<1> QED BY <1>1, SequenceFacts, FrontFacts DEF WellStacked, frame

\* No function's key is the script's: it has the name of a file.
LEMMA KeyIsNoScript ==
  ASSUME NEW c
  PROVE  Key(c) # Script /\ MadeFor(Key(c), c.file, c.args)
<1>1. Key(c).file = <<c.file.dir, c.file.base>> /\ Script.file = <<>>
  BY DEF Key, mangleSpecName, Script
<1>2. \A x, y : <<x, y>> # <<>>
  OBVIOUS
<1>3. Key(c).args = [i \in DOMAIN c.args |-> canonicalizeType(c.args[i])]
  BY DEF Key, mangleSpecName
<1> QED BY <1>1, <1>2, <1>3 DEF MadeFor

\* What Noted keeps of the body asked for.
LEMMA NotedFacts ==
  ASSUME NEW c, NEW got
  PROVE  /\ Noted(c, got).got = got
         /\ Noted(c, got).caller = frame.key
         /\ c.k = "body" => /\ Noted(c, got).key = Key(c)
                            /\ Noted(c, got).asked.file = c.file
                            /\ Noted(c, got).asked.args = c.args
<1> DEFINE a == [ast |-> c.ast, file |-> c.file, args |-> c.args]
<1>1. a.file = c.file /\ a.args = c.args
  OBVIOUS
<1>2. /\ Noted(c, got).got = got
      /\ Noted(c, got).caller = frame.key
      /\ Noted(c, got).key = IF c.k = "body" THEN Key(c) ELSE Script
      /\ Noted(c, got).asked = IF c.k = "body" THEN a ELSE <<>>
  BY DEF Noted
<1> QED BY <1>1, <1>2

\* A body asked for is not looked into: what is in the cache or called stays as
\* it is while the bodies on the stack keep their keys.
LEMMA SameBodiesKeep ==
  ASSUME IInv, Lowering, SameBodies(stack'), UNCHANGED <<index, cache, order, inFlight, status>>
  PROVE  WellStacked' /\ WellEmitted' /\ NoneTwice'
<1>1. /\ stack # <<>> /\ Len(stack) \in Nat \ {0} /\ DOMAIN stack = 1 .. Len(stack)
      /\ stack[1].key = Script
  BY FrameIsTop DEF IInv
<1>2. Sequence(stack') /\ Len(stack') = Len(stack)
  BY DEF SameBodies
<1>3. DOMAIN stack' = 1 .. Len(stack)
  BY <1>2, SequenceFacts
<1>4. \A i \in 1 .. Len(stack) : /\ Fields \subseteq DOMAIN stack'[i]
                                 /\ stack'[i].key = stack[i].key
                                 /\ stack'[i].file = stack[i].file
                                 /\ stack'[i].args = stack[i].args
  BY DEF SameBodies
<1>5. stack' # <<>>
  <2>1. 1 \in DOMAIN stack'
    BY <1>1, <1>3
  <2> QED BY <2>1
<1>6. WellStacked'
  <2>1. stack'[1].key = Script
    BY <1>1, <1>4
  <2> QED BY <1>2, <1>3, <1>4, <1>5, <2>1 DEF WellStacked, IInv, Lowering
<1>7. WellEmitted'
  <2>1. \A i \in DOMAIN stack' : stack'[i].key # Script => MadeFor(stack'[i].key, stack'[i].file, stack'[i].args)
    BY <1>1, <1>3, <1>4 DEF IInv, WellEmitted
  <2> QED BY <2>1 DEF IInv, WellEmitted
<1>8. NoneTwice'
  <2>1. {stack'[i].key : i \in DOMAIN stack'} = {stack[i].key : i \in DOMAIN stack}
    BY <1>1, <1>3, <1>4
  <2>2. \A i, j \in DOMAIN stack' : i # j => stack'[i].key # stack'[j].key
    BY <1>1, <1>3, <1>4 DEF IInv, NoneTwice
  <2> QED BY <2>1, <2>2 DEF IInv, NoneTwice
<1> QED BY <1>6, <1>7, <1>8

\* What is said of the calls is kept while no body is emitted and no call found one.
LEMMA CallsKeep ==
  ASSUME CalleesComeFirst, FoundUnderItsKey, order' = order,
         \/ called' = called
         \/ \E c : called' = called \cup {Noted(c, {})}
  PROVE  CalleesComeFirst' /\ FoundUnderItsKey'
<1>1. CASE called' = called
  BY <1>1 DEF CalleesComeFirst, FoundUnderItsKey
<1>2. CASE \E c : called' = called \cup {Noted(c, {})}
  <2> PICK c : called' = called \cup {Noted(c, {})}
    BY <1>2
  <2>1. \A d \in called' : d \in called \/ d.got = {}
    BY NotedFacts
  <2>2. CalleesComeFirst'
    <3> SUFFICES ASSUME NEW d \in called', d.got # {}
                 PROVE  \E i \in DOMAIN order' :
                          order'[i] = d.key /\ (\A j \in DOMAIN order' : order'[j] = d.caller => i < j)
      BY DEF CalleesComeFirst
    <3> QED BY <2>1 DEF CalleesComeFirst
  <2>3. FoundUnderItsKey'
    <3> SUFFICES ASSUME NEW d \in called', NEW spec \in d.got
                 PROVE  MadeFor(d.key, spec.file, spec.args) /\ MadeFor(d.key, d.asked.file, d.asked.args)
      BY DEF FoundUnderItsKey
    <3> QED BY <2>1 DEF FoundUnderItsKey
  <2> QED BY <2>2, <2>3
<1> QED BY <1>1, <1>2

LEMMA RejectKeeps ==
  ASSUME IInv, Lowering, Reject
  PROVE  IInv'
<1>1. /\ stack' = <<>> /\ status' = "rejected" /\ inFlight' = {} /\ index' = index
      /\ cache' = cache /\ order' = order /\ called' = called
  BY DEF Reject, Lowering, wsVars
<1>2. DOMAIN stack' = {} /\ Sequence(stack')
  <2>1. <<>> \in Seq({}) /\ DOMAIN <<>> = {}
    BY EmptySeq
  <2> QED BY <1>1, <2>1, OwnElements
<1>3. WellStacked'
  BY <1>1, <1>2 DEF IInv, WellStacked, Lowering
<1>4. WellEmitted'
  BY <1>1, <1>2 DEF IInv, WellEmitted
<1>5. NoneTwice'
  BY <1>1, <1>2 DEF IInv, NoneTwice
<1>6. CalleesComeFirst' /\ FoundUnderItsKey'
  BY <1>1, CallsKeep DEF IInv
<1> QED BY <1>3, <1>4, <1>5, <1>6 DEF IInv

\* A statement that is lowered where it stands.
LEMMA StatementKeeps ==
  ASSUME IInv, Lowering, UNCHANGED <<cache, order, inFlight, status>>,
         \/ \E targets, types : Advance(targets, types)
         \/ \E at : stack' = [stack EXCEPT ![Len(stack)].pc = at],
         \/ called' = called
         \/ \E c : called' = called \cup {Noted(c, {})}
  PROVE  IInv'
<1>1. stack # <<>> /\ Sequence(stack) /\ \A i \in DOMAIN stack : Fields \subseteq DOMAIN stack[i]
  BY FrameIsTop DEF IInv, WellStacked
<1>2. SameBodies(stack')
  BY <1>1, AdvanceMovesOn, StopMovesOn
<1>3. WellStacked' /\ WellEmitted' /\ NoneTwice'
  BY <1>2, SameBodiesKeep DEF Lowering, wsVars
<1>4. CalleesComeFirst' /\ FoundUnderItsKey'
  BY CallsKeep DEF IInv
<1> QED BY <1>3, <1>4 DEF IInv

\* A call of a body that has been lowered: it is in the order, its caller is not
\* yet, being on the stack.
LEMMA LowerCallKeeps ==
  ASSUME IInv, LowerCall
  PROVE  IInv'
<1> PICK c \in {Callee} : /\ c.k = "body" /\ Key(c) \in DOMAIN cache
                          /\ IF c.single /\ Len(cache[Key(c)].outputs) # 1 THEN Reject
                             ELSE /\ Advance(stmt.targets, cache[Key(c)].outputs)
                                  /\ called' = called \cup {Noted(c, {cache[Key(c)]})}
                                  /\ UNCHANGED <<shared, status>>
  BY DEF LowerCall
<1>1. Lowering
  BY DEF LowerCall, AtStatement
<1>2. CASE Reject
  BY <1>1, <1>2, RejectKeeps
<1>3. CASE /\ Advance(stmt.targets, cache[Key(c)].outputs)
           /\ called' = called \cup {Noted(c, {cache[Key(c)]})}
           /\ UNCHANGED <<shared, status>>
  <2> DEFINE new == Noted(c, {cache[Key(c)]})
  <2>1. called' = called \cup {new} /\ UNCHANGED <<cache, order, inFlight, status, index>>
    BY <1>1, <1>3 DEF shared, Lowering, wsVars
  <2>2. stack # <<>> /\ Sequence(stack) /\ \A i \in DOMAIN stack : Fields \subseteq DOMAIN stack[i]
    BY <1>1, FrameIsTop DEF IInv, WellStacked
  <2>3. SameBodies(stack')
    BY <1>3, <2>2, AdvanceMovesOn
  <2>4. WellStacked' /\ WellEmitted' /\ NoneTwice'
    BY <1>1, <2>1, <2>3, SameBodiesKeep
  <2>5. new.got = {cache[Key(c)]} /\ new.caller = frame.key /\ new.key = Key(c)
        /\ new.asked.file = c.file /\ new.asked.args = c.args
    BY NotedFacts
  <2> HIDE DEF new
  <2>6. frame.key \notin DOMAIN cache
    <3>1. Len(stack) \in DOMAIN stack /\ frame = stack[Len(stack)]
      BY <1>1, FrameIsTop DEF IInv
    <3>2. frame.key \in inFlight \/ frame.key = Script
      BY <3>1 DEF IInv, NoneTwice
    <3> QED BY <3>2 DEF IInv, NoneTwice, WellEmitted
  <2>7. \A k \in DOMAIN cache : \E i \in DOMAIN order : order[i] = k
    BY DEF IInv, NoneTwice, Range
  <2>8. \A j \in DOMAIN order : order[j] \in DOMAIN cache
    BY DEF IInv, NoneTwice, Range
  <2>9. CalleesComeFirst'
    <3> SUFFICES ASSUME NEW d \in called', d.got # {}
                 PROVE  \E i \in DOMAIN order :
                          order[i] = d.key /\ (\A j \in DOMAIN order : order[j] = d.caller => i < j)
      BY <2>1 DEF CalleesComeFirst
    <3>1. CASE d \in called
      BY <3>1 DEF IInv, CalleesComeFirst
    <3>2. CASE d = new
      <4>1. PICK i \in DOMAIN order : order[i] = Key(c)
        BY <2>7
      <4>2. \A j \in DOMAIN order : order[j] # frame.key
        BY <2>6, <2>8
      <4> QED BY <2>5, <3>2, <4>1, <4>2
    <3> QED BY <2>1, <3>1, <3>2
  <2>10. FoundUnderItsKey'
    <3> SUFFICES ASSUME NEW d \in called', NEW spec \in d.got
                 PROVE  MadeFor(d.key, spec.file, spec.args) /\ MadeFor(d.key, d.asked.file, d.asked.args)
      BY DEF FoundUnderItsKey
    <3>1. CASE d \in called
      BY <3>1 DEF IInv, FoundUnderItsKey
    <3>2. CASE d = new
      <4>1. MadeFor(Key(c), cache[Key(c)].file, cache[Key(c)].args)
        BY DEF IInv, WellEmitted
      <4>2. MadeFor(Key(c), c.file, c.args)
        BY KeyIsNoScript
      <4> QED BY <2>5, <3>2, <4>1, <4>2
    <3> QED BY <2>1, <3>1, <3>2
  <2> QED BY <2>4, <2>9, <2>10 DEF IInv
<1> QED BY <1>2, <1>3

\* A body to be lowered first: its key is new among those on the stack.
LEMMA SpecializeKeeps ==
  ASSUME IInv, Specialize
  PROVE  IInv'
<1> PICK c \in {Callee} : /\ c.k = "body" /\ Key(c) \notin DOMAIN cache
                          /\ IF Recursive(Key(c)) THEN Reject
                             ELSE /\ stack' = Append(stack, NewFrame(c))
                                  /\ inFlight' = inFlight \cup {Key(c)}
                                  /\ UNCHANGED <<cache, order, anonCounter, status, called>>
  BY DEF Specialize
<1>1. Lowering
  BY DEF Specialize, AtStatement
<1>2. CASE Recursive(Key(c))
  BY <1>1, <1>2, RejectKeeps
<1>3. CASE ~Recursive(Key(c))
  <2> DEFINE key == Key(c)
             top == NewFrame(c)
             n == Len(stack)
  <2>1. /\ stack' = Append(stack, top) /\ inFlight' = inFlight \cup {key} /\ key \notin inFlight
        /\ UNCHANGED <<cache, order, status, called, index>>
    BY <1>1, <1>3 DEF Recursive, Lowering, wsVars
  <2>2. Fields \subseteq DOMAIN top /\ top.key = key /\ top.file = c.file /\ top.args = c.args
    BY DEF NewFrame, Fields
  <2>3. key # Script /\ MadeFor(key, c.file, c.args)
    BY KeyIsNoScript
  <2>4. key \notin DOMAIN cache
    OBVIOUS
  <2>5. /\ stack # <<>> /\ n \in Nat \ {0} /\ DOMAIN stack = 1 .. n /\ stack[1].key = Script
    BY <1>1, FrameIsTop DEF IInv
  <2> HIDE DEF key, top, n
  <2>6. /\ Sequence(stack') /\ DOMAIN stack' = 1 .. n + 1
        /\ \A i \in 1 .. n : stack'[i] = stack[i]
        /\ stack'[n + 1] = top
    BY <2>1, AppendFacts DEF IInv, WellStacked, n
  <2>7. stack' # <<>>
    <3>1. 1 \in DOMAIN stack'
      BY <2>5, <2>6
    <3> QED BY <3>1
  <2>8. \A i \in 1 .. n + 1 : i \in 1 .. n \/ i = n + 1
    BY <2>5
  <2>9. WellStacked'
    <3>1. stack'[1].key = Script
      BY <2>5, <2>6
    <3>2. \A i \in DOMAIN stack' : Fields \subseteq DOMAIN stack'[i]
      BY <2>2, <2>5, <2>6, <2>8 DEF IInv, WellStacked
    <3> QED BY <1>1, <2>1, <2>6, <2>7, <3>1, <3>2 DEF IInv, WellStacked, Lowering
  <2>10. WellEmitted'
    <3>1. \A i \in DOMAIN stack' : stack'[i].key # Script => MadeFor(stack'[i].key, stack'[i].file, stack'[i].args)
      <4> SUFFICES ASSUME NEW i \in DOMAIN stack', stack'[i].key # Script
                   PROVE  MadeFor(stack'[i].key, stack'[i].file, stack'[i].args)
        OBVIOUS
      <4>1. CASE i \in 1 .. n
        BY <2>5, <2>6, <4>1 DEF IInv, WellEmitted
      <4>2. CASE i = n + 1
        BY <2>2, <2>3, <2>6, <4>2
      <4> QED BY <2>6, <2>8, <4>1, <4>2
    <3> QED BY <2>1, <3>1 DEF IInv, WellEmitted
  <2>11. NoneTwice'
    <3>1. \A i \in 1 .. n : stack[i].key \in inFlight \cup {Script}
      BY <2>5 DEF IInv, NoneTwice
    <3>2. {stack'[i].key : i \in DOMAIN stack'} = {stack[i].key : i \in DOMAIN stack} \cup {key}
      <4>1. \A i \in DOMAIN stack' : stack'[i].key \in {stack[j].key : j \in DOMAIN stack} \cup {key}
        BY <2>2, <2>5, <2>6, <2>8
      <4>2. \A i \in DOMAIN stack : i \in DOMAIN stack' /\ stack'[i].key = stack[i].key
        BY <2>5, <2>6
      <4>3. n + 1 \in DOMAIN stack' /\ stack'[n + 1].key = key
        BY <2>2, <2>5, <2>6
      <4> QED BY <4>1, <4>2, <4>3
    <3>3. inFlight' = {stack'[i].key : i \in DOMAIN stack'} \ {Script}
      BY <2>1, <2>3, <3>2 DEF IInv, NoneTwice
    <3>4. \A i, j \in DOMAIN stack' : i # j => stack'[i].key # stack'[j].key
      <4> SUFFICES ASSUME NEW i \in 1 .. n + 1, NEW j \in 1 .. n + 1, i # j
                   PROVE  stack'[i].key # stack'[j].key
        BY <2>6
      <4>1. CASE i \in 1 .. n /\ j \in 1 .. n
        BY <2>5, <2>6, <4>1 DEF IInv, NoneTwice
      <4>2. \A m \in 1 .. n : stack'[m].key # key
        BY <2>1, <2>3, <2>6, <3>1
      <4> QED BY <2>2, <2>6, <2>8, <4>1, <4>2
    <3>5. inFlight' \cap DOMAIN cache = {}
      BY <2>1, <2>4 DEF IInv, NoneTwice
    <3> QED BY <2>1, <3>3, <3>4, <3>5 DEF IInv, NoneTwice
  <2>12. CalleesComeFirst' /\ FoundUnderItsKey'
    BY <2>1, CallsKeep DEF IInv
  <2> QED BY <2>9, <2>10, <2>11, <2>12 DEF IInv
<1> QED BY <1>2, <1>3

\* The end of a body: it is emitted behind all it calls, and its caller goes on.
LEMMA FinishKeeps ==
  ASSUME IInv, Finish
  PROVE  IInv'
<1>1. Lowering /\ frame.key # Script
  BY DEF Finish
<1>2. CASE Reject
  BY <1>1, <1>2, RejectKeeps
<1>3. CASE ~Reject
  <2> DEFINE key == frame.key
             n == Len(stack)
             m == Len(order)
             made == [ast |-> frame.ast, file |-> frame.file, args |-> frame.args,
                      outputs |-> [i \in DOMAIN frame.ast.outputs |-> env[frame.ast.outputs[i]]]]
  <2>1. /\ cache' = [k \in DOMAIN cache \cup {key} |-> IF k = key THEN made ELSE cache[k]]
        /\ order' = Append(order, key) /\ inFlight' = inFlight \ {key} /\ stack' = Front(stack)
        /\ UNCHANGED <<status, called, index>>
    BY <1>1, <1>3 DEF Finish, Emitted, Lowering, wsVars
  <2>2. /\ stack # <<>> /\ n \in Nat \ {0} /\ DOMAIN stack = 1 .. n /\ stack[1].key = Script
        /\ frame = stack[n]
    BY <1>1, FrameIsTop DEF IInv
  <2>3. made.file = stack[n].file /\ made.args = stack[n].args
    BY <2>2
  <2>4. key = stack[n].key /\ key # Script
    BY <1>1, <2>2
  <2> HIDE DEF key, n, m, made
  <2>5. n # 1 /\ n - 1 \in Nat \ {0} /\ \A i \in 1 .. n : i \in 1 .. n - 1 \/ i = n
    BY <2>2, <2>4
  <2>6. /\ Sequence(stack') /\ DOMAIN stack' = 1 .. n - 1
        /\ \A i \in 1 .. n - 1 : stack'[i] = stack[i]
    BY <2>1, <2>2, FrontFacts DEF IInv, WellStacked, n
  <2>7. stack' # <<>>
    <3>1. 1 \in 1 .. n - 1
      BY <2>2, <2>5
    <3>2. 1 \in DOMAIN stack'
      BY <2>6, <3>1, Zenon
    <3> QED BY <3>2
  <2>8. \A i \in 1 .. n - 1 : i \in 1 .. n /\ i # n
    BY <2>2
  <2>9. /\ Sequence(order') /\ m \in Nat /\ DOMAIN order = 1 .. m /\ DOMAIN order' = 1 .. m + 1
        /\ \A i \in 1 .. m : order'[i] = order[i]
        /\ order'[m + 1] = key
    BY <2>1, SequenceFacts, AppendFacts DEF IInv, WellEmitted, m
  <2>10. \A i \in 1 .. m + 1 : (i \in 1 .. m /\ i < m + 1) \/ i = m + 1
    BY <2>9
  <2>11. key \in inFlight /\ key \notin DOMAIN cache
    BY <2>2, <2>4 DEF IInv, NoneTwice
  <2>12. DOMAIN cache' = DOMAIN cache \cup {key}
    BY <2>1
  <2>13. WellStacked'
    <3>1. stack'[1].key = Script
      BY <2>2, <2>5, <2>6
    <3>2. \A i \in DOMAIN stack' : Fields \subseteq DOMAIN stack'[i]
      BY <2>2, <2>6, <2>8 DEF IInv, WellStacked
    <3> QED BY <1>1, <2>1, <2>6, <2>7, <3>1, <3>2 DEF IInv, WellStacked, Lowering
  <2>14. WellEmitted'
    <3>1. \A k \in DOMAIN cache' : MadeFor(k, cache'[k].file, cache'[k].args)
      <4> SUFFICES ASSUME NEW k \in DOMAIN cache'
                   PROVE  MadeFor(k, cache'[k].file, cache'[k].args)
        OBVIOUS
      <4>1. CASE k = key
        <5>1. MadeFor(stack[n].key, stack[n].file, stack[n].args)
          BY <2>2, <2>4 DEF IInv, WellEmitted
        <5>2. cache'[k] = made
          BY <2>1, <4>1
        <5> QED BY <2>3, <2>4, <4>1, <5>1, <5>2
      <4>2. CASE k # key
        <5>1. k \in DOMAIN cache /\ cache'[k] = cache[k]
          BY <2>1, <2>12, <4>2
        <5> QED BY <5>1 DEF IInv, WellEmitted
      <4> QED BY <4>1, <4>2
    <3>2. \A i \in DOMAIN stack' : stack'[i].key # Script => MadeFor(stack'[i].key, stack'[i].file, stack'[i].args)
      BY <2>2, <2>6, <2>8 DEF IInv, WellEmitted
    <3>3. Script \notin DOMAIN cache'
      BY <2>4, <2>12 DEF IInv, WellEmitted
    <3> QED BY <2>9, <3>1, <3>2, <3>3 DEF WellEmitted
  <2>15. NoneTwice'
    <3>1. \A i \in 1 .. n - 1 : stack[i].key # key
      BY <2>2, <2>4, <2>8 DEF IInv, NoneTwice
    <3>2. {stack'[i].key : i \in DOMAIN stack'} = {stack[i].key : i \in DOMAIN stack} \ {key}
      <4>1. \A i \in DOMAIN stack' : stack'[i].key \in {stack[j].key : j \in DOMAIN stack} \ {key}
        BY <2>2, <2>6, <2>8, <3>1
      <4>2. \A i \in DOMAIN stack : stack[i].key = key \/ (i \in DOMAIN stack' /\ stack'[i].key = stack[i].key)
        BY <2>2, <2>4, <2>5, <2>6
      <4> QED BY <4>1, <4>2
    <3>3. inFlight' = {stack'[i].key : i \in DOMAIN stack'} \ {Script}
      BY <2>1, <3>2 DEF IInv, NoneTwice
    <3>4. \A i, j \in DOMAIN stack' : i # j => stack'[i].key # stack'[j].key
      BY <2>2, <2>6, <2>8 DEF IInv, NoneTwice
    <3>5. \A i \in 1 .. m : order[i] \in DOMAIN cache
      BY <2>9 DEF IInv, NoneTwice, Range
    <3>6. \A i, j \in DOMAIN order' : i # j => order'[i] # order'[j]
      <4> SUFFICES ASSUME NEW i \in 1 .. m + 1, NEW j \in 1 .. m + 1, i # j
                   PROVE  order'[i] # order'[j]
        BY <2>9
      <4>1. CASE i \in 1 .. m /\ j \in 1 .. m
        BY <2>9, <4>1 DEF IInv, NoneTwice
      <4>2. \A l \in 1 .. m : order'[l] # key
        BY <2>9, <2>11, <3>5
      <4> QED BY <2>9, <2>10, <4>1, <4>2
    <3>7. Range(order') = DOMAIN cache'
      <4>1. \A k \in DOMAIN cache : \E i \in 1 .. m : order'[i] = k
        BY <2>9 DEF IInv, NoneTwice, Range
      <4>2. \A i \in 1 .. m + 1 : order'[i] \in DOMAIN cache \cup {key}
        BY <2>9, <2>10, <3>5
      <4>3. m + 1 \in 1 .. m + 1 /\ 1 .. m \subseteq 1 .. m + 1
        BY <2>9
      <4> QED BY <2>9, <2>12, <4>1, <4>2, <4>3 DEF Range
    <3>8. inFlight' \cap DOMAIN cache' = {}
      BY <2>1, <2>12 DEF IInv, NoneTwice
    <3> QED BY <3>3, <3>4, <3>6, <3>7, <3>8 DEF NoneTwice
  <2>16. CalleesComeFirst'
    <3> SUFFICES ASSUME NEW d \in called, d.got # {}
                 PROVE  \E i \in DOMAIN order' :
                          order'[i] = d.key /\ (\A j \in DOMAIN order' : order'[j] = d.caller => i < j)
      BY <2>1 DEF CalleesComeFirst
    <3> PICK i \in 1 .. m : order[i] = d.key /\ (\A j \in 1 .. m : order[j] = d.caller => i < j)
      BY <2>9 DEF IInv, CalleesComeFirst
    <3>1. i \in 1 .. m + 1 /\ i < m + 1 /\ order'[i] = d.key
      BY <2>9
    <3>2. \A j \in 1 .. m + 1 : order'[j] = d.caller => i < j
      BY <2>9, <2>10, <3>1
    <3> QED BY <2>9, <3>1, <3>2
  <2>17. FoundUnderItsKey'
    BY <2>1 DEF IInv, FoundUnderItsKey
  <2> QED BY <2>13, <2>14, <2>15, <2>16, <2>17 DEF IInv
<1> QED BY <1>2, <1>3

\* The end of the script: nothing is left on the stack.
LEMMA FinishScriptKeeps ==
  ASSUME IInv, FinishScript
  PROVE  IInv'
<1>1. /\ Lowering /\ frame.key = Script /\ stack' = <<>> /\ status' = "done"
      /\ UNCHANGED <<cache, order, inFlight, called, index>>
  BY DEF FinishScript, Lowering, wsVars, shared
<1>2. /\ stack # <<>> /\ Len(stack) \in Nat \ {0} /\ DOMAIN stack = 1 .. Len(stack) /\ stack[1].key = Script
      /\ frame = stack[Len(stack)]
  BY <1>1, FrameIsTop DEF IInv
<1>3. Len(stack) = 1
  BY <1>1, <1>2 DEF IInv, NoneTwice
<1>4. inFlight = {}
  BY <1>2, <1>3 DEF IInv, NoneTwice
<1>5. DOMAIN stack' = {} /\ Sequence(stack')
  <2>1. <<>> \in Seq({}) /\ DOMAIN <<>> = {}
    BY EmptySeq
  <2> QED BY <1>1, <2>1, OwnElements
<1>6. WellStacked'
  BY <1>1, <1>5 DEF IInv, WellStacked, Lowering
<1>7. WellEmitted'
  BY <1>1, <1>5 DEF IInv, WellEmitted
<1>8. NoneTwice'
  BY <1>1, <1>4, <1>5 DEF IInv, NoneTwice
<1>9. CalleesComeFirst' /\ FoundUnderItsKey'
  BY <1>1, CallsKeep DEF IInv
<1> QED BY <1>6, <1>7, <1>8, <1>9 DEF IInv

\* The first body is the script's, and it is pushed once: the index that finalize
\* builds is never the empty one.
LEMMA StartKeeps ==
  ASSUME IInv, Start
  PROVE  IInv'
<1>1. index = <<>> /\ index' = buildFunctionIndex(registry', mainFile) /\ UNCHANGED <<cache, order, inFlight, called>>
  BY DEF Start, finalize, shared
<1>2. index' # <<>>
  <2>1. "mainFile" \in DOMAIN index'
    BY <1>1 DEF buildFunctionIndex
  <2>2. DOMAIN <<>> = {}
    OBVIOUS
  <2> QED BY <2>1, <2>2
<1>3. status = "loading" /\ stack = <<>>
  BY <1>1 DEF IInv, WellStacked
<1>4. inFlight = {}
  BY <1>3 DEF IInv, NoneTwice
<1>5. CalleesComeFirst' /\ FoundUnderItsKey'
  BY <1>1, CallsKeep DEF IInv
<1>6. CASE status' = "rejected" /\ stack' = stack
  <2>1. WellStacked'
    BY <1>2, <1>3, <1>6 DEF IInv, WellStacked
  <2>2. WellEmitted' /\ NoneTwice'
    BY <1>1, <1>6 DEF IInv, WellEmitted, NoneTwice
  <2> QED BY <1>5, <2>1, <2>2 DEF IInv
<1>7. CASE status' = "lowering" /\ \E body : stack' = <<[key |-> Script, ast |-> body, file |-> mainFile, class |-> NoName,
                                                        args |-> <<>>, env |-> <<>>, pc |-> 1]>>
  <2> PICK body : stack' = <<[key |-> Script, ast |-> body, file |-> mainFile, class |-> NoName,
                              args |-> <<>>, env |-> <<>>, pc |-> 1]>>
    BY <1>7
  <2> DEFINE script == [key |-> Script, ast |-> body, file |-> mainFile, class |-> NoName,
                        args |-> <<>>, env |-> <<>>, pc |-> 1]
  <2>1. Fields \subseteq DOMAIN script /\ script.key = Script
    BY DEF Fields
  <2>2. stack' = <<script>>
    OBVIOUS
  <2> HIDE DEF script
  <2>3. <<script>> \in Seq({script}) /\ DOMAIN <<script>> = {1} /\ <<script>>[1] = script
    OBVIOUS
  <2>4. Sequence(stack') /\ DOMAIN stack' = {1} /\ stack'[1] = script /\ stack' # <<>>
    <3>1. Sequence(<<script>>)
      BY <2>3, OwnElements
    <3>2. <<script>> # <<>>
      OBVIOUS
    <3> QED BY <2>2, <2>3, <3>1, <3>2
  <2>5. WellStacked'
    BY <1>2, <1>7, <2>1, <2>4 DEF IInv, WellStacked
  <2>6. WellEmitted'
    BY <1>1, <2>1, <2>4 DEF IInv, WellEmitted
  <2>7. NoneTwice'
    BY <1>1, <1>4, <2>1, <2>4 DEF IInv, NoneTwice
  <2> QED BY <1>5, <2>5, <2>6, <2>7 DEF IInv
<1> QED BY <1>6, <1>7 DEF Start

LEMMA NextIInv ==
  ASSUME IInv, [Next]_vars
  PROVE  IInv'
<1>1. CASE Load
  <2>1. UNCHANGED <<index, stack, cache, order, inFlight, status, called>>
    BY <1>1 DEF Load, Register, shared
  <2>2. CalleesComeFirst' /\ FoundUnderItsKey'
    BY <2>1, CallsKeep DEF IInv
  <2> QED BY <2>1, <2>2 DEF IInv, WellStacked, WellEmitted, NoneTwice
<1>2. CASE Start
  BY <1>2, StartKeeps
<1>3. CASE LowerSet
  BY <1>3, StatementKeeps DEF LowerSet, AtStatement, shared
<1>4. CASE LowerStop
  BY <1>4, StatementKeeps DEF LowerStop, AtStatement, shared
<1>5. CASE LowerAnonFunc
  BY <1>5, StatementKeeps DEF LowerAnonFunc, AtStatement
<1>6. CASE LowerFuncHandle
  BY <1>6, StatementKeeps DEF LowerFuncHandle, AtStatement, shared
<1>7. CASE LowerError
  <2>1. Lowering /\ Reject
    BY <1>7 DEF LowerError, AtStatement
  <2> QED BY <2>1, RejectKeeps
<1>8. CASE LowerBuiltin
  BY <1>8, StatementKeeps DEF LowerBuiltin, AtStatement, shared
<1>9. CASE LowerCall
  BY <1>9, LowerCallKeeps
<1>10. CASE Specialize
  BY <1>10, SpecializeKeeps
<1>11. CASE Finish
  BY <1>11, FinishKeeps
<1>12. CASE FinishScript
  BY <1>12, FinishScriptKeeps
<1>13. CASE UNCHANGED vars
  <2>1. UNCHANGED <<index, stack, cache, order, inFlight, status, called>>
    BY <1>13 DEF vars, wsVars, shared
  <2>2. CalleesComeFirst' /\ FoundUnderItsKey'
    BY <2>1, CallsKeep DEF IInv
  <2> QED BY <2>1, <2>2 DEF IInv, WellStacked, WellEmitted, NoneTwice
<1> QED BY <1>1, <1>2, <1>3, <1>4, <1>5, <1>6, <1>7, <1>8, <1>9, <1>10, <1>11, <1>12, <1>13 DEF Next, Stopped

LEMMA InitIInv == Init => IInv
<1> SUFFICES ASSUME Init
             PROVE  IInv
  OBVIOUS
<1>1. /\ stack = <<>> /\ cache = <<>> /\ order = <<>> /\ inFlight = {}
      /\ status = "loading" /\ called = {}
  BY DEF Init
<1>2. <<>> \in Seq({}) /\ DOMAIN <<>> = {}
  BY EmptySeq
<1>3. Sequence(<<>>)
  BY <1>2, OwnElements
<1>4. WellStacked /\ WellEmitted
  BY <1>1, <1>2, <1>3 DEF WellStacked, WellEmitted
<1>5. NoneTwice
  BY <1>1, <1>2 DEF NoneTwice, Range
<1>6. CalleesComeFirst /\ FoundUnderItsKey
  BY <1>1 DEF CalleesComeFirst, FoundUnderItsKey
<1> QED BY <1>4, <1>5, <1>6 DEF IInv

LEMMA Invariance == Spec => []IInv
<1>1. IInv /\ [Next]_vars => IInv'
  BY NextIInv
<1> QED BY <1>1, InitIInv, PTL DEF Spec

-----------------------------------------------------------------------------
(* Arithmetic of sequences and sets.                                        *)

\* A set of numbers has a least element, and a bounded one a greatest.
LEMMA LeastOf ==
  ASSUME NEW S \in SUBSET Nat, S # {}
  PROVE  Min(S) \in S /\ \A x \in S : Min(S) <= x
<1> DEFINE R == OpToRel(<, Nat)
<1>1. IsWellFoundedOn(R, Nat)
  BY NatLessThanWellFounded
<1>2. \A x, y \in Nat : <<y, x>> \in R <=> y < x
  BY DEF OpToRel
<1> HIDE DEF R
<1>3. \E x \in S : \A y \in S : <<y, x>> \notin R
  BY <1>1, WFMin
<1>4. \A x, y \in Nat : ~(y < x) => x <= y
  OBVIOUS
<1>5. \E x \in S : \A y \in S : x <= y
  BY <1>2, <1>3, <1>4
<1> QED BY <1>5 DEF Min

LEMMA GreatestOf ==
  ASSUME NEW n \in Nat, NEW S \in SUBSET (1 .. n), S # {}
  PROVE  Max(S) \in S
<1> DEFINE B == {m \in Nat : \A x \in S : x <= m}
<1>1. n \in B /\ B \subseteq Nat
  OBVIOUS
<1> DEFINE b == Min(B)
<1>2. b \in B /\ \A m \in B : b <= m
  BY <1>1, LeastOf
<1> HIDE DEF b
<1>3. b \in S
  <2> SUFFICES ASSUME b \notin S
               PROVE  FALSE
    OBVIOUS
  <2> PICK x \in S : TRUE
    OBVIOUS
  <2>1. x \in 1 .. n /\ x <= b /\ b \in Nat
    BY <1>2
  <2>2. b - 1 \in Nat
    BY <2>1
  <2>3. \A y \in S : y <= b - 1
    BY <1>2, <2>1
  <2>4. b - 1 \in B
    BY <2>2, <2>3
  <2> QED BY <1>2, <2>1, <2>4
<1>4. \A y \in S : b >= y
  BY <1>2
<1> QED BY <1>3, <1>4 DEF Max

\* What FirstOf answers is one of the alternatives.
LEMMA FirstIsOne ==
  ASSUME NEW alternatives, DOMAIN alternatives \subseteq Nat, FirstOf(alternatives) # {}
  PROVE  \E i \in DOMAIN alternatives : FirstOf(alternatives) = alternatives[i]
<1> DEFINE found == {i \in DOMAIN alternatives : alternatives[i] # {}}
<1>1. FirstOf(alternatives) = IF found = {} THEN {} ELSE alternatives[Min(found)]
  BY DEF FirstOf
<1>2. found # {} /\ found \in SUBSET Nat
  BY <1>1
<1>3. Min(found) \in found
  BY <1>2, LeastOf
<1> QED BY <1>1, <1>2, <1>3

LEMMA ConcatFacts ==
  ASSUME NEW s, Sequence(s), NEW t, Sequence(t)
  PROVE  /\ Sequence(s \o t)
         /\ Len(s) \in Nat /\ Len(t) \in Nat
         /\ Len(s \o t) = Len(s) + Len(t)
         /\ DOMAIN (s \o t) = 1 .. Len(s) + Len(t)
         /\ DOMAIN s = 1 .. Len(s) /\ DOMAIN t = 1 .. Len(t)
         /\ \A i \in 1 .. Len(s) : (s \o t)[i] = s[i]
         /\ \A i \in 1 .. Len(t) : (s \o t)[Len(s) + i] = t[i]
         /\ \A i \in 1 .. Len(s) + Len(t) : i \in 1 .. Len(s) \/ (i - Len(s) \in 1 .. Len(t) /\ i = Len(s) + (i - Len(s)))
<1> DEFINE T == {s[i] : i \in DOMAIN s} \cup {t[i] : i \in DOMAIN t}
<1>1. s \in Seq(T)
  <2>1. s \in Seq({s[i] : i \in DOMAIN s})
    BY DEF Sequence
  <2> QED BY <2>1, SMT
<1>2. t \in Seq(T)
  <2>1. t \in Seq({t[i] : i \in DOMAIN t})
    BY DEF Sequence
  <2> QED BY <2>1, SMT
<1>3. /\ Len(s) \in Nat /\ DOMAIN s = 1 .. Len(s)
      /\ Len(t) \in Nat /\ DOMAIN t = 1 .. Len(t)
  BY SequenceFacts
<1> HIDE DEF T
<1>4. /\ s \o t \in Seq(T) /\ Len(s \o t) = Len(s) + Len(t)
      /\ \A i \in 1 .. Len(s) + Len(t) : (s \o t)[i] = IF i <= Len(s) THEN s[i] ELSE t[i - Len(s)]
  BY <1>1, <1>2, ConcatProperties
<1>5. Sequence(s \o t) /\ DOMAIN (s \o t) = 1 .. Len(s \o t)
  BY <1>4, OwnElements
<1>6. \A i \in 1 .. Len(s) : (s \o t)[i] = s[i]
  <2> TAKE i \in 1 .. Len(s)
  <2>1. i \in 1 .. Len(s) + Len(t) /\ i <= Len(s)
    BY <1>3
  <2> QED BY <1>4, <2>1
<1>7. \A i \in 1 .. Len(t) : (s \o t)[Len(s) + i] = t[i]
  <2> TAKE i \in 1 .. Len(t)
  <2>1. Len(s) + i \in 1 .. Len(s) + Len(t) /\ ~(Len(s) + i <= Len(s)) /\ (Len(s) + i) - Len(s) = i
    BY <1>3
  <2>2. (s \o t)[Len(s) + i] = IF Len(s) + i <= Len(s) THEN s[Len(s) + i] ELSE t[(Len(s) + i) - Len(s)]
    BY <1>4, <2>1
  <2> QED BY <2>1, <2>2
<1>8. \A i \in 1 .. Len(s) + Len(t) : i \in 1 .. Len(s) \/ (i - Len(s) \in 1 .. Len(t) /\ i = Len(s) + (i - Len(s)))
  BY <1>3
<1> QED BY <1>3, <1>4, <1>5, <1>6, <1>7, <1>8

LEMMA TailFacts ==
  ASSUME NEW s, Sequence(s), s # <<>>
  PROVE  /\ Sequence(Tail(s))
         /\ \A i \in DOMAIN Tail(s) : i + 1 \in DOMAIN s /\ Tail(s)[i] = s[i + 1]
<1> DEFINE T == {s[i] : i \in DOMAIN s}
<1>1. s \in Seq(T)
  BY DEF Sequence
<1>2. Len(s) \in Nat /\ DOMAIN s = 1 .. Len(s)
  BY SequenceFacts
<1> HIDE DEF T
<1>3. /\ Tail(s) \in Seq(T) /\ Len(Tail(s)) = Len(s) - 1
      /\ \A i \in 1 .. Len(Tail(s)) : Tail(s)[i] = s[i + 1]
  BY <1>1, HeadTailProperties
<1>4. Sequence(Tail(s)) /\ DOMAIN Tail(s) = 1 .. Len(Tail(s))
  BY <1>3, OwnElements
<1> QED BY <1>2, <1>3, <1>4

\* A function from the first numbers is a sequence.
LEMMA Listed ==
  ASSUME NEW n \in Nat, NEW s, s = [i \in 1 .. n |-> s[i]]
  PROVE  Sequence(s) /\ Len(s) = n /\ DOMAIN s = 1 .. n
<1> DEFINE T == {s[i] : i \in DOMAIN s}
<1>1. DOMAIN s = 1 .. n
  <2> DEFINE f == [i \in 1 .. n |-> s[i]]
  <2>1. DOMAIN f = 1 .. n
    OBVIOUS
  <2> QED BY <2>1
<1>2. s \in [1 .. n -> T]
  BY <1>1
<1>3. s \in Seq(T)
  BY <1>2, SeqDef
<1>4. Len(s) = n
  BY <1>1, <1>3, LenProperties
<1> QED BY <1>1, <1>3, <1>4, OwnElements

\* The elements of a finite set, each once.
LEMMA Enumerated ==
  ASSUME NEW S, IsFiniteSet(S)
  PROVE  LET s == SetToSeq(S)
         IN  /\ Sequence(s)
             /\ \A i, j \in DOMAIN s : s[i] = s[j] => i = j
             /\ \A i \in DOMAIN s : s[i] \in S
             /\ \A x \in S : \E i \in DOMAIN s : s[i] = x
<1> DEFINE n == Cardinality(S)
           s == SetToSeq(S)
<1>1. n \in Nat /\ ExistsBijection(1 .. n, S)
  BY FS_CardinalityType
<1> PICK f \in Bijection(1 .. n, S) : TRUE
  BY <1>1 DEF ExistsBijection
<1>2. f \in [1 .. n -> S] /\ IsInjective(f)
  BY DEF Bijection, Injection, IsInjective
<1> HIDE DEF n
<1>3. s \in [1 .. n -> S] /\ IsInjective(s)
  BY <1>2 DEF SetToSeq, n
<1> HIDE DEF s
<1>4. IsFiniteSet(1 .. n) /\ Cardinality(1 .. n) = n
  BY <1>1, FS_Interval
<1>5. s \in Injection(1 .. n, S)
  BY <1>3 DEF Injection
<1>6. s \in Surjection(1 .. n, S)
  BY <1>4, <1>5, FS_Injection DEF n
<1>7. s = [i \in 1 .. n |-> s[i]] /\ DOMAIN s = 1 .. n
  BY <1>3
<1>8. Sequence(s)
  BY <1>1, <1>7, Listed
<1>9. \A i, j \in DOMAIN s : s[i] = s[j] => i = j
  BY <1>3 DEF IsInjective
<1>10. \A x \in S : \E i \in DOMAIN s : s[i] = x
  BY <1>6, <1>7 DEF Surjection
<1>11. \A i \in DOMAIN s : s[i] \in S
  BY <1>3
<1> QED BY <1>8, <1>9, <1>10, <1>11 DEF s

LEMMA FiniteNames ==
  ASSUME NEW args, Sequence(args)
  PROVE  IsFiniteSet(ArgNames(args))
<1> DEFINE D == {j \in DOMAIN args : args[j].k # "num"}
           f == [i \in D |-> args[i].name]
<1>1. Len(args) \in Nat /\ DOMAIN args = 1 .. Len(args)
  BY SequenceFacts
<1>2. IsFiniteSet(1 .. Len(args))
  BY <1>1, FS_Interval
<1>3. IsFiniteSet(D)
  BY <1>1, <1>2, FS_Subset
<1>4. f \in Surjection(D, ArgNames(args))
  BY DEF Surjection, ArgNames
<1> QED BY <1>3, <1>4, FS_Surjection

-----------------------------------------------------------------------------
(* The functions a project holds.                                           *)

\* Under which name its body is lowered, which, and where: the functions of a
\* file, the first of a file that has a name, the methods of a class and its
\* constructor.
Function(salt, ast, file) == [salt |-> salt, ast |-> ast, file |-> file]
LocalFunctions(f) == {Function(<<f.functions[i].name>>, f.functions[i], f) : i \in DOMAIN f.functions}
FirstFunction(n) ==
  LET f == registry.filesByFuncName[n]
  IN  {Function(<<Last(n)>>, f.functions[i], f) : i \in {1} \cap DOMAIN f.functions}
MethodNames(info) == UNION {Names(info.def.methods[i].body) : i \in DOMAIN info.def.methods}
Salts(c, m, info) == {classMethodSpecName(c, m)} \cup (IF m = info.constructorName THEN {c} ELSE {})
ClassFunctions(c) ==
  LET info == getClassInfo(registry, c)
  IN  UNION {{Function(s, CHOOSE fn \in lookupClassMethodAST(info, m) : TRUE, info.file) : s \in Salts(c, m, info)} :
               m \in {x \in MethodNames(info) : lookupClassMethodAST(info, x) # {}}}

NamedFiles == {mainFile} \cup Range(registry.filesByFuncName)
Held ==
  (UNION {LocalFunctions(f) : f \in NamedFiles})
    \cup (UNION {FirstFunction(n) : n \in DOMAIN registry.filesByFuncName})
    \cup (UNION {ClassFunctions(c) : c \in ClassNames(registry)})

\* What the parser makes is sequences.
Listings ==
  /\ \A f \in NamedFiles : DOMAIN f.functions \subseteq Nat
  /\ \A f \in DOMAIN index.fileImports : Sequence(f.imports) /\ \A i \in DOMAIN f.imports : Sequence(f.imports[i].path)
  /\ \A c \in ClassNames(registry) :
       LET blocks == getClassInfo(registry, c).def.methods
       IN  DOMAIN blocks \subseteq Nat /\ \A i \in DOMAIN blocks : DOMAIN blocks[i].body \subseteq Nat

Indexed == index = buildFunctionIndex(registry, mainFile)

LEMMA IndexFacts ==
  ASSUME Indexed
  PROVE  /\ index.workspaceFunctions = DOMAIN registry.filesByFuncName
         /\ index.workspaceFileSubfunctions =
              [n \in DOMAIN registry.filesByFuncName |-> Subfunctions(n, registry.filesByFuncName[n])]
         /\ \E statics : index.fileImports = [f \in WithImports(registry, mainFile) |-> ImportEntries(f, statics)]
BY DEF Indexed, buildFunctionIndex

\* What FirstOf answers.
LEMMA OneOf ==
  ASSUME NEW alternatives, DOMAIN alternatives \subseteq Nat, NEW t \in FirstOf(alternatives)
  PROVE  \E i \in DOMAIN alternatives : t \in alternatives[i]
BY FirstIsOne

LEMMA FoundInBody ==
  ASSUME NEW functions, DOMAIN functions \subseteq Nat, NEW n, NEW fn \in findStmtInBody(functions, n)
  PROVE  \E i \in DOMAIN functions : fn = functions[i] /\ <<functions[i].name>> = n
<1> DEFINE alternatives == [i \in DOMAIN functions |-> IF <<functions[i].name>> = n THEN {functions[i]} ELSE {}]
<1>1. fn \in FirstOf(alternatives) /\ DOMAIN alternatives \subseteq Nat
  BY DEF findStmtInBody
<1>2. PICK i \in DOMAIN alternatives : fn \in alternatives[i]
  BY <1>1, OneOf
<1> QED BY <1>2

\* The shape of an answer of the resolver.
Answer(t, n) ==
  \/ t.k \in {"builtin", "privateFunction", "workspaceClassConstructor"}
  \/ t.k = "localFunction" /\ t.from \in {"main", "classFile", "privateFile"}
  \/ t.k = "localFunction" /\ t.from = "workspaceFile" /\ t.at \in DOMAIN registry.filesByFuncName
  \/ t.k = "workspaceFunction" /\ t.name \in DOMAIN registry.filesByFuncName /\ (n = <<n[1]>> => Last(t.name) = n[1])
  \/ t.k = "classMethod"

LEMMA LastOfOne == \A x : Last(<<x>>) = x
BY DEF Last

LEMMA LastOfConcat ==
  ASSUME NEW s, Sequence(s), NEW x
  PROVE  Last(s \o <<x>>) = x
<1>1. Sequence(<<x>>) /\ Len(<<x>>) = 1
  <2>1. <<x>> \in Seq({x}) /\ Len(<<x>>) = 1
    OBVIOUS
  <2> QED BY <2>1, OwnElements
<1>2. Len(s \o <<x>>) = Len(s) + 1 /\ (s \o <<x>>)[Len(s) + 1] = <<x>>[1]
  BY <1>1, ConcatFacts
<1> QED BY <1>2 DEF Last

LEMMA ImportedAnswer ==
  ASSUME Indexed, NEW imp, NEW n, NEW t \in Imported(imp, n, index), Sequence(imp.path)
  PROVE  Answer(t, n)
<1> DEFINE full == IF imp.wildcard THEN imp.path \o n ELSE imp.path
<1>1. \/ \E c : t = Method(c, n, FALSE)
      \/ t = [k |-> "workspaceFunction", name |-> full] /\ full \in index.workspaceFunctions
         /\ (~imp.wildcard => n = <<Last(imp.path)>>)
      \/ t = [k |-> "workspaceClassConstructor", class |-> full]
  BY DEF Imported
<1> HIDE DEF full
<1>2. CASE \E c : t = Method(c, n, FALSE)
  BY <1>2 DEF Method, Answer
<1>3. CASE t = [k |-> "workspaceClassConstructor", class |-> full]
  BY <1>3 DEF Answer
<1>4. CASE /\ t = [k |-> "workspaceFunction", name |-> full] /\ full \in index.workspaceFunctions
           /\ (~imp.wildcard => n = <<Last(imp.path)>>)
  <2>1. t.k = "workspaceFunction" /\ t.name = full
    BY <1>4
  <2>2. full \in DOMAIN registry.filesByFuncName
    BY <1>4, IndexFacts
  <2>3. n = <<n[1]>> => Last(full) = n[1]
    <3>1. CASE imp.wildcard
      BY <3>1, LastOfConcat DEF full
    <3>2. CASE ~imp.wildcard
      BY <1>4, <3>2 DEF full
    <3> QED BY <3>1, <3>2
  <2> QED BY <2>1, <2>2, <2>3 DEF Answer
<1> QED BY <1>1, <1>2, <1>3, <1>4

LEMMA ViaImportsAnswer ==
  ASSUME Indexed, Listings, NEW n, NEW site, NEW wildcard, NEW t \in resolveViaImports(n, site, index, wildcard)
  PROVE  Answer(t, n)
<1> DEFINE imports == index.fileImports[site.file]
           alternatives == [i \in DOMAIN imports |->
                              IF imports[i].wildcard = wildcard THEN Imported(imports[i], n, index) ELSE {}]
<1>1. site.file \in DOMAIN index.fileImports /\ t \in FirstOf(alternatives)
  BY DEF resolveViaImports
<1> PICK statics : index.fileImports = [f \in WithImports(registry, mainFile) |-> ImportEntries(f, statics)]
  BY IndexFacts
<1>2. imports = ImportEntries(site.file, statics)
  BY <1>1
<1> HIDE DEF imports
<1>3. DOMAIN imports = DOMAIN site.file.imports /\ \A i \in DOMAIN imports : imports[i].path = site.file.imports[i].path
  BY <1>2 DEF ImportEntries
<1>4. Sequence(site.file.imports) /\ \A i \in DOMAIN imports : Sequence(imports[i].path)
  BY <1>1, <1>3 DEF Listings
<1>5. DOMAIN alternatives = DOMAIN imports /\ DOMAIN alternatives \subseteq Nat
  <2>1. DOMAIN site.file.imports = 1 .. Len(site.file.imports) /\ Len(site.file.imports) \in Nat
    BY <1>4, SequenceFacts
  <2> QED BY <1>3, <2>1
<1>6. PICK i \in DOMAIN imports : t \in alternatives[i]
  BY <1>1, <1>5, OneOf
<1>7. t \in Imported(imports[i], n, index)
  BY <1>6
<1> QED BY <1>4, <1>7, ImportedAnswer

LEMMA LocalAnswer ==
  ASSUME Indexed, NEW n, NEW site, NEW t \in LocalFunction(n, site, index)
  PROVE  Answer(t, n)
<1> DEFINE tiers == <<LocalInMain(n, site, index), LocalInWorkspaceFile(n, site, index), LocalInPrivateFile(n, site, index)>>
<1>1. CASE t \in LocalInClass(n, site, index)
  <2>1. t = [k |-> "localFunction", from |-> "classFile"]
    BY <1>1 DEF LocalInClass
  <2> QED BY <2>1 DEF Answer
<1>2. CASE t \in FirstOf(tiers)
  <2>1. DOMAIN tiers \subseteq Nat /\ DOMAIN tiers = 1 .. 3
    OBVIOUS
  <2>2. PICK i \in DOMAIN tiers : t \in tiers[i]
    BY <1>2, <2>1, OneOf
  <2>3. \/ t \in LocalInMain(n, site, index)
        \/ t \in LocalInWorkspaceFile(n, site, index)
        \/ t \in LocalInPrivateFile(n, site, index)
    BY <2>1, <2>2
  <2>4. CASE t \in LocalInMain(n, site, index)
    <3>1. t = [k |-> "localFunction", from |-> "main"]
      BY <2>4 DEF LocalInMain
    <3> QED BY <3>1 DEF Answer
  <2>5. CASE t \in LocalInPrivateFile(n, site, index)
    <3>1. t = [k |-> "localFunction", from |-> "privateFile"]
      BY <2>5 DEF LocalInPrivateFile
    <3> QED BY <3>1 DEF Answer
  <2>6. CASE t \in LocalInWorkspaceFile(n, site, index)
    <3>1. PICK at : /\ t = [k |-> "localFunction", from |-> "workspaceFile", at |-> at]
                    /\ n \in At(index.workspaceFileSubfunctions, at)
      BY <2>6 DEF LocalInWorkspaceFile
    <3>2. at \in DOMAIN index.workspaceFileSubfunctions
      BY <3>1 DEF At
    <3>3. at \in DOMAIN registry.filesByFuncName
      BY <3>2, IndexFacts
    <3> QED BY <3>1, <3>3 DEF Answer
  <2> QED BY <2>3, <2>4, <2>5, <2>6
<1> QED BY <1>1, <1>2 DEF LocalFunction

LEMMA GlobalAnswer ==
  ASSUME Indexed, NEW n, NEW t \in Global(n, index)
  PROVE  Answer(t, n)
<1> DEFINE a == IF n \in index.workspaceFunctions THEN {[k |-> "workspaceFunction", name |-> n]} ELSE {}
           b == IF n \in index.workspaceClasses THEN {[k |-> "workspaceClassConstructor", class |-> n]} ELSE {}
           c == IF n[1] \in Builtins /\ Len(n) = 1 THEN {[k |-> "builtin", name |-> n[1]]} ELSE {}
           tiers == <<a, b, c>>
<1>1. t \in FirstOf(tiers)
  BY DEF Global
<1> HIDE DEF a, b, c
<1>2. DOMAIN tiers \subseteq Nat /\ DOMAIN tiers = 1 .. 3
  OBVIOUS
<1>3. PICK i \in DOMAIN tiers : t \in tiers[i]
  BY <1>1, <1>2, OneOf
<1>4. t \in a \/ t \in b \/ t \in c
  BY <1>2, <1>3
<1>5. CASE t \in a
  <2>1. t = [k |-> "workspaceFunction", name |-> n] /\ n \in DOMAIN registry.filesByFuncName
    BY <1>5, IndexFacts DEF a
  <2> QED BY <2>1, LastOfOne DEF Answer
<1>6. CASE t \in b
  <2>1. t = [k |-> "workspaceClassConstructor", class |-> n]
    BY <1>6 DEF b
  <2> QED BY <2>1 DEF Answer
<1>7. CASE t \in c
  <2>1. t = [k |-> "builtin", name |-> n[1]]
    BY <1>7 DEF c
  <2> QED BY <2>1 DEF Answer
<1> QED BY <1>4, <1>5, <1>6, <1>7

LEMMA ResolverAnswers ==
  ASSUME Indexed, Listings, NEW n, NEW classes, NEW site, NEW t \in resolveFunction(n, classes, site, index)
  PROVE  Answer(t, n)
<1> DEFINE a == PinnedMethod(n, classes, site, index)
           b == resolveViaImports(n, site, index, FALSE)
           c == LocalFunction(n, site, index)
           d == resolveViaImports(n, site, index, TRUE)
           e == PrivateFunction(n, site, index)
           f == ArgumentMethod(n, classes, index)
           g == Global(n, index)
           tiers == <<a, b, c, d, e, f, g>>
<1>1. t \in FirstOf(tiers)
  BY DEF resolveFunction
<1>2. t \in a => \E x, y : t = Method(x, n, y)
  BY DEF PinnedMethod
<1>3. t \in f => \E x, y : t = Method(x, n, y)
  BY DEF ArgumentMethod
<1>4. t \in e => t = [k |-> "privateFunction"]
  BY DEF PrivateFunction
<1>5. (t \in b \/ t \in d) => Answer(t, n)
  BY ViaImportsAnswer
<1>6. t \in c => Answer(t, n)
  BY LocalAnswer
<1>7. t \in g => Answer(t, n)
  BY GlobalAnswer
<1> HIDE DEF a, b, c, d, e, f, g
<1>8. DOMAIN tiers \subseteq Nat /\ DOMAIN tiers = 1 .. 7
  OBVIOUS
<1>9. PICK i \in DOMAIN tiers : t \in tiers[i]
  BY <1>1, <1>8, OneOf
<1>10. t \in a \/ t \in b \/ t \in c \/ t \in d \/ t \in e \/ t \in f \/ t \in g
  BY <1>8, <1>9
<1>11. (\E x, y : t = Method(x, n, y)) => Answer(t, n)
  BY DEF Method, Answer
<1>12. t = [k |-> "privateFunction"] => Answer(t, n)
  BY DEF Answer
<1> QED BY <1>2, <1>3, <1>4, <1>5, <1>6, <1>7, <1>10, <1>11, <1>12

\* What resolve is told to lower is a function the project holds.
Told(t) ==
  /\ t.k = "userFunction" => Function(<<t.name>>, t.ast, t.file) \in Held
  /\ t.k = "classMethod" => Function(classMethodSpecName(t.class, t.name), t.ast, t.file) \in Held
  /\ t.k = "classConstructor" => Function(t.class, t.ast, t.file) \in Held

LEMMA NothingTold == Told(Unsupported) /\ Told(Unresolved)
BY DEF Told, Unsupported, Unresolved

LEMMA UserFunctionTold ==
  ASSUME NEW n, NEW file, NEW found, found # {} => n = <<n[1]>>,
         \A fn \in found : Function(n, fn, file) \in Held
  PROVE  LET t == userFunction(n, found, file)
         IN  /\ Told(t)
             /\ t.k = "userFunction" => t = [k |-> "userFunction", name |-> n[1], ast |-> t.ast, file |-> t.file]
<1> DEFINE fn == CHOOSE x \in found : TRUE
           t == userFunction(n, found, file)
<1>1. CASE found = {}
  <2>1. t = Unsupported
    BY <1>1 DEF userFunction
  <2> QED BY <2>1, NothingTold DEF Unsupported
<1>2. CASE found # {}
  <2>1. fn \in found
    BY <1>2
  <2> HIDE DEF fn
  <2>2. t = [k |-> "userFunction", name |-> n[1], ast |-> fn, file |-> file]
    BY <1>2 DEF userFunction, fn
  <2> HIDE DEF t
  <2>3. t.k = "userFunction" /\ t.name = n[1] /\ t.ast = fn /\ t.file = file
    BY <2>2
  <2>4. Function(<<t.name>>, t.ast, t.file) \in Held
    BY <1>2, <2>1, <2>3
  <2>5. Told(t)
    BY <2>3, <2>4 DEF Told
  <2> QED BY <2>2, <2>3, <2>5 DEF t
<1> QED BY <1>1, <1>2

LEMMA LocalHeld ==
  ASSUME Listings, NEW f \in NamedFiles, NEW n, NEW fn \in findStmtInBody(f.functions, n)
  PROVE  Function(n, fn, f) \in Held /\ n = <<n[1]>>
<1>1. DOMAIN f.functions \subseteq Nat
  BY DEF Listings
<1>2. PICK i \in DOMAIN f.functions : fn = f.functions[i] /\ <<f.functions[i].name>> = n
  BY <1>1, FoundInBody
<1>3. Function(n, fn, f) \in LocalFunctions(f)
  BY <1>2 DEF LocalFunctions
<1>4. Function(n, fn, f) \in Held
  BY <1>3 DEF Held
<1>5. \A x : <<x>>[1] = x
  OBVIOUS
<1> QED BY <1>2, <1>4, <1>5

LEMMA FoundMethod ==
  ASSUME NEW info, NEW m, lookupClassMethodAST(info, m) # {}, DOMAIN info.def.methods \subseteq Nat,
         \A i \in DOMAIN info.def.methods : DOMAIN info.def.methods[i].body \subseteq Nat
  PROVE  m \in MethodNames(info)
<1> DEFINE blocks == info.def.methods
           alternatives == [i \in DOMAIN blocks |-> findStmtInBody(blocks[i].body, m)]
           found == FirstOf(alternatives)
           receiver(fn) == IF fn.outputs = <<>> THEN "obj" ELSE fn.outputs[1]
<1>1. found # {}
  <2>1. lookupClassMethodAST(info, m) =
          IF m = info.constructorName THEN {[fn EXCEPT !.params = <<receiver(fn)>> \o @] : fn \in found} ELSE found
    BY DEF lookupClassMethodAST
  <2> HIDE DEF found, receiver
  <2>2. CASE m = info.constructorName
    <3> DEFINE with(fn) == [fn EXCEPT !.params = <<receiver(fn)>> \o @]
    <3>1. {with(fn) : fn \in found} # {}
      BY <2>1, <2>2
    <3> HIDE DEF with
    <3> QED BY <3>1
  <2>3. CASE m # info.constructorName
    BY <2>1, <2>3
  <2> QED BY <2>2, <2>3
<1> PICK fn \in found : TRUE
  BY <1>1
<1>2. DOMAIN alternatives \subseteq Nat /\ DOMAIN alternatives = DOMAIN blocks
  OBVIOUS
<1>3. PICK i \in DOMAIN blocks : fn \in findStmtInBody(blocks[i].body, m)
  BY <1>2, OneOf
<1>4. PICK j \in DOMAIN blocks[i].body : <<blocks[i].body[j].name>> = m
  BY <1>3, FoundInBody
<1>5. m \in Names(blocks[i].body)
  BY <1>4 DEF Names
<1> QED BY <1>3, <1>5 DEF MethodNames

LEMMA ClassTargetTold ==
  ASSUME Listings, NEW c, NEW m, NEW kind, NEW strip,
         kind \in {"classMethod", "classConstructor"},
         kind = "classConstructor" => m = getClassInfo(registry, c).constructorName
  PROVE  Told(classTarget(registry, c, m, kind, strip)) /\ classTarget(registry, c, m, kind, strip).k # "userFunction"
<1> DEFINE info == getClassInfo(registry, c)
           found == lookupClassMethodAST(info, m)
           fn == CHOOSE x \in found : TRUE
           t == classTarget(registry, c, m, kind, strip)
<1>1. CASE t = Unsupported
  BY <1>1, NothingTold DEF Unsupported
<1>2. CASE /\ c \in ClassNames(registry) /\ found # {}
           /\ t = [k |-> kind, class |-> c, name |-> m, strip |-> strip, ast |-> fn, file |-> info.file]
  <2>1. m \in MethodNames(info)
    BY <1>2, FoundMethod DEF Listings
  <2>2. \A s \in Salts(c, m, info) : Function(s, fn, info.file) \in ClassFunctions(c)
    <3> DEFINE of(x) == {Function(s, CHOOSE y \in lookupClassMethodAST(info, x) : TRUE, info.file) : s \in Salts(c, x, info)}
    <3>1. ClassFunctions(c) = UNION {of(x) : x \in {y \in MethodNames(info) : lookupClassMethodAST(info, y) # {}}}
      BY DEF ClassFunctions
    <3>2. \A s \in Salts(c, m, info) : Function(s, fn, info.file) \in of(m)
      OBVIOUS
    <3> HIDE DEF of, fn
    <3> QED BY <1>2, <2>1, <3>1, <3>2
  <2>3. \A s \in Salts(c, m, info) : Function(s, fn, info.file) \in Held
    BY <1>2, <2>2 DEF Held
  <2>4. classMethodSpecName(c, m) \in Salts(c, m, info) /\ (kind = "classConstructor" => c \in Salts(c, m, info))
    BY DEF Salts
  <2> DEFINE r == [k |-> kind, class |-> c, name |-> m, strip |-> strip, ast |-> fn, file |-> info.file]
  <2>5. t.k = kind /\ t.class = c /\ t.name = m /\ t.ast = fn /\ t.file = info.file
    <3>1. r.k = kind /\ r.class = c /\ r.name = m /\ r.ast = fn /\ r.file = info.file
      OBVIOUS
    <3> HIDE DEF r, t, fn, info
    <3> QED BY <1>2, <3>1 DEF r
  <2> HIDE DEF fn, found, t, info, r
  <2>6. Told(t) /\ t.k # "userFunction"
    BY <2>3, <2>4, <2>5 DEF Told
  <2> QED BY <2>6 DEF t
<1> QED BY <1>1, <1>2 DEF classTarget

Lone(t, n) == t.k = "userFunction" => t = [k |-> "userFunction", name |-> n[1], ast |-> t.ast, file |-> t.file]

LEMMA TargetTold ==
  ASSUME Listings, NEW n, n = <<n[1]>>, NEW target, Answer(target, n)
  PROVE  Told(Resolved(target, n, registry)) /\ Lone(Resolved(target, n, registry), n)
<1> DEFINE t == Resolved(target, n, registry)
<1>1. CASE target.k = "builtin"
  BY <1>1 DEF Resolved, Told, Lone
<1>2. CASE target.k = "privateFunction" \/ (target.k = "localFunction" /\ target.from \in {"classFile", "privateFile"})
  <2>1. t = Unsupported
    BY <1>2 DEF Resolved
  <2> QED BY <2>1, NothingTold DEF Lone, Unsupported
<1>3. CASE target.k = "localFunction" /\ target.from = "main"
  <2>1. t = userFunction(n, findStmtInBody(mainFile.functions, n), mainFile)
    BY <1>3 DEF Resolved
  <2>2. mainFile \in NamedFiles
    BY DEF NamedFiles
  <2>3. \A fn \in findStmtInBody(mainFile.functions, n) : Function(n, fn, mainFile) \in Held
    BY <2>2, LocalHeld
  <2> QED BY <2>1, <2>3, UserFunctionTold DEF Lone
<1>4. CASE target.k = "localFunction" /\ target.from = "workspaceFile" /\ target.at \in DOMAIN registry.filesByFuncName
  <2> DEFINE file == registry.filesByFuncName[target.at]
  <2>1. t = userFunction(n, findStmtInBody(file.functions, n), file)
    BY <1>4 DEF Resolved
  <2>2. file \in NamedFiles
    BY <1>4 DEF NamedFiles, Range
  <2>3. \A fn \in findStmtInBody(file.functions, n) : Function(n, fn, file) \in Held
    BY <2>2, LocalHeld
  <2> QED BY <2>1, <2>3, UserFunctionTold DEF Lone
<1>5. CASE target.k = "workspaceFunction" /\ target.name \in DOMAIN registry.filesByFuncName /\ Last(target.name) = n[1]
  <2> DEFINE file == registry.filesByFuncName[target.name]
             found == {file.functions[i] : i \in {1} \cap DOMAIN file.functions}
  <2>1. t = userFunction(n, found, file)
    BY <1>5 DEF Resolved
  <2>2. \A fn \in found : Function(n, fn, file) \in FirstFunction(target.name)
    BY <1>5 DEF FirstFunction
  <2>3. \A fn \in found : Function(n, fn, file) \in Held
    BY <1>5, <2>2 DEF Held
  <2> QED BY <2>1, <2>3, UserFunctionTold DEF Lone
<1>6. CASE target.k = "classMethod"
  <2>1. t = classTarget(registry, findDefiningClass(registry, target.class, target.name), target.name, "classMethod", target.strip)
    BY <1>6 DEF Resolved
  <2>2. Told(t) /\ t.k # "userFunction"
    BY <2>1, ClassTargetTold
  <2> QED BY <2>2 DEF Lone
<1>7. CASE target.k = "workspaceClassConstructor"
  <2>1. t = classTarget(registry, target.class, getClassInfo(registry, target.class).constructorName, "classConstructor", FALSE)
    BY <1>7 DEF Resolved
  <2>2. \E strip : t = classTarget(registry, target.class, getClassInfo(registry, target.class).constructorName, "classConstructor", strip)
    BY <2>1, Zenon
  <2>3. Told(t) /\ t.k # "userFunction"
    BY <2>2, ClassTargetTold
  <2> QED BY <2>3 DEF Lone
<1> QED BY <1>1, <1>2, <1>3, <1>4, <1>5, <1>6, <1>7 DEF Answer

\* Whatever a name of one part is looked up for, the answer is a function held.
LEMMA ResolveTold ==
  ASSUME Indexed, Listings, NEW n, n = <<n[1]>>, NEW classes, NEW site
  PROVE  Told(resolve(n, classes, site)) /\ Lone(resolve(n, classes, site), n)
<1> DEFINE found == resolveFunction(n, classes, site, index)
           target == CHOOSE t \in found : TRUE
<1>1. resolve(n, classes, site) = IF found = {} THEN Unresolved ELSE Resolved(target, n, registry)
  BY DEF resolve, ResolvedAmong
<1>2. CASE found = {}
  BY <1>1, <1>2, NothingTold DEF Lone, Unresolved
<1>3. CASE found # {}
  <2>1. target \in found
    BY <1>3
  <2> HIDE DEF target
  <2>2. Answer(target, n)
    BY <2>1, ResolverAnswers
  <2> QED BY <1>1, <1>3, <2>2, TargetTold
<1> QED BY <1>2, <1>3

\* The answer for the parent of a class, whose name may have several parts.
LEMMA ConstructorTold ==
  ASSUME Indexed, Listings, NEW n, NEW site, NEW t, t = resolve(n, <<>>, site), t.k = "classConstructor"
  PROVE  Function(t.class, t.ast, t.file) \in Held
<1> DEFINE found == resolveFunction(n, <<>>, site, index)
           target == CHOOSE x \in found : TRUE
<1>1. t = IF found = {} THEN Unresolved ELSE Resolved(target, n, registry)
  BY DEF resolve, ResolvedAmong
<1>2. found # {} /\ t = Resolved(target, n, registry)
  BY <1>1 DEF Unresolved
<1>3. target \in found
  BY <1>2
<1> HIDE DEF target, found
<1>4. Answer(target, n)
  BY <1>3, ResolverAnswers DEF found
<1>5. CASE target.k = "builtin"
  BY <1>2, <1>5 DEF Resolved
<1>6. CASE target.k \in {"privateFunction", "localFunction", "workspaceFunction"}
  <2>1. \/ t = Unsupported
        \/ \E f, x : t = userFunction(n, f, x)
    BY <1>2, <1>4, <1>6 DEF Resolved, Answer
  <2>2. \A f, x : userFunction(n, f, x).k # "classConstructor"
    BY DEF userFunction, Unsupported
  <2> QED BY <2>1, <2>2 DEF Unsupported
<1>7. CASE target.k = "classMethod"
  <2>1. t = classTarget(registry, findDefiningClass(registry, target.class, target.name), target.name, "classMethod", target.strip)
    BY <1>2, <1>7 DEF Resolved
  <2>2. Told(t)
    BY <2>1, ClassTargetTold
  <2> QED BY <2>2 DEF Told
<1>8. CASE target.k = "workspaceClassConstructor"
  <2>1. t = classTarget(registry, target.class, getClassInfo(registry, target.class).constructorName, "classConstructor", FALSE)
    BY <1>2, <1>8 DEF Resolved
  <2>2. \E strip : t = classTarget(registry, target.class, getClassInfo(registry, target.class).constructorName, "classConstructor", strip)
    BY <2>1, Zenon
  <2>3. Told(t)
    BY <2>2, ClassTargetTold
  <2> QED BY <2>3 DEF Told
<1> QED BY <1>4, <1>5, <1>6, <1>7, <1>8 DEF Answer

-----------------------------------------------------------------------------
(* What the theorems about handles and bodies take for granted of a project.*)

Arguments(args) == Sequence(args) /\ \A i \in DOMAIN args : args[i].k \in {"num", "var", "less"}

\* A statement as the parser makes it: only [a, b] = n(...) has several targets.
Written(s) ==
  /\ s.k \in {"set", "stop", "handle", "anon"} \cup Calls
  /\ s.k = "set" => Arguments(<<s.value>>)
  /\ s.k \in Calls \cup {"anon"} => Arguments(s.args)
  /\ s.k = "anon" => Sequence(s.params)
  /\ s.k \in Calls => Sequence(s.targets) /\ (Len(s.targets) <= 1 \/ (s.k = "call" /\ s.form = "multi"))
  /\ s.k = "call" => s.form \in {"expr", "bare", "multi"} /\ (s.form = "bare" => s.targets = <<>>)

Text(ast) ==
  /\ Sequence(ast.params) /\ Sequence(ast.outputs) /\ Sequence(ast.body)
  /\ \A i \in DOMAIN ast.body : Written(ast.body[i])

\* The place of a function's file and the name its body is lowered under tell
\* which function it is, and the names made for anonymous functions are new.
ToldApart ==
  /\ \A f, g \in Held : f.salt = g.salt /\ f.file.dir = g.file.dir /\ f.file.base = g.file.base => f = g
  /\ \A i \in 0 .. anonCounter : \A f \in Held : f.salt # <<"anon_" \o ToString(i)>>
  /\ \A i, j \in 0 .. anonCounter : "anon_" \o ToString(i) = "anon_" \o ToString(j) => i = j

\* A program: what it holds is sequences of statements, told apart by name.
Program ==
  /\ Sequence(Entry) /\ \A i \in DOMAIN Entry : Written(Entry[i])
  /\ status # "loading" =>
       /\ Listings /\ ToldApart
       /\ \A f \in Held : Text(f.ast) /\ "scope" \notin DOMAIN f.ast

\* Where a handle keeps what it captured: it is not called by [a, b] = h(...),
\* and names none of its variables like a constant or a builtin.
KeepsCaptures ==
  status = "lowering" /\ frame.pc \in DOMAIN frame.ast.body =>
    /\ stmt.k = "anon" => Mentioned(stmt) \cap DOMAIN env \cap (Constants \cup Builtins) \subseteq Range(stmt.params)
    /\ stmt.k = "call" /\ stmt.form = "multi" /\ stmt.name \in DOMAIN env /\ env[stmt.name].k = "handle" =>
         env[stmt.name].captures = <<>>

-----------------------------------------------------------------------------
(* The handles made so far, T, and where they are.                          *)

Kept(ty, T) == ty \in T \/ ty.k \in {"num", "class"}
AllKept(types, T) == \A i \in DOMAIN types : Kept(types[i], T)

\* A body is a function the project holds or that of an anonymous handle.
Made(salt, ast, file, T, H) ==
  \/ Function(salt, ast, file) \in H
  \/ \E h \in T : h.target.k = "anonymous" /\ salt = <<h.target.name>> /\ ast = h.target.ast /\ file = h.target.file

Pure(t) == t = [k |-> t.k, name |-> t.name, file |-> t.file, ast |-> t.ast]
UserHandle(h, H) ==
  /\ h.target.k = "userFunc" /\ Pure(h.target) /\ h.captures = <<>>
  /\ Function(<<h.target.name>>, h.target.ast, h.target.file) \in H
BuiltinHandle(h) == h.target = [k |-> "builtin", name |-> h.target.name] /\ h.captures = <<>>
Anonymous(h, T, count) ==
  LET ast == h.target.ast
      taken == h.captures
  IN  /\ h.target.k = "anonymous" /\ Pure(h.target)
      /\ \E i \in Nat : i < count /\ h.target.name = "anon_" \o ToString(i)
      /\ Text(ast) /\ Len(ast.outputs) = 1 /\ "scope" \in DOMAIN ast
      /\ Sequence(taken) /\ Sequence(ast.own) /\ ast.params = ast.own \o [i \in DOMAIN taken |-> taken[i].name]
      /\ \A i \in DOMAIN taken : /\ Kept(taken[i].ty, T) /\ taken[i].ty = ast.scope[taken[i].name]
                                 /\ taken[i].name \notin Range(ast.own)
      /\ \A i, j \in DOMAIN taken : taken[i].name = taken[j].name => i = j

Handles(T, H, count) ==
  /\ \A h \in T : h = Handle(h.target, h.captures) /\ (UserHandle(h, H) \/ BuiltinHandle(h) \/ Anonymous(h, T, count))
  /\ \A g, h \in T : g.target.k = "anonymous" /\ h.target.k = "anonymous" /\ g.target.name = h.target.name => g = h

\* Every variable around it that the body names was captured.
Takes(h) ==
  h.target.k = "anonymous" =>
    LET ast == h.target.ast
    IN  \A n \in (Mentioned(ast.body[1]) \cap DOMAIN ast.scope) \ Range(ast.own) :
          \E i \in DOMAIN h.captures : h.captures[i].name = n

\* The last place of a name among the parameters is the one that counts.
Places(names, n) == {i \in DOMAIN names : names[i] = n}

\* With these arguments the body finds the variables it names as they were.
Sight(ast, args) ==
  "scope" \in DOMAIN ast =>
    \A n \in (Mentioned(ast.body[1]) \cap DOMAIN ast.scope) \ Range(ast.own) :
      n \in Range(ast.params) /\ args[Max(Places(ast.params, n))] = ast.scope[n]

-----------------------------------------------------------------------------
(* What a statement calls.                                                  *)

EnvKept(T) == \A n \in DOMAIN env : Kept(env[n], T)

\* w: the handles are to have all they name.
Fine(c, T, w) ==
  \/ c.k = "refused"
  \/ c.k = "value" /\ Kept(c.ty, T)
  \/ /\ c.k = "body" /\ Made(c.salt, c.ast, c.file, T, Held)
     /\ Sequence(c.args) /\ AllKept(c.args, T) /\ Len(c.args) = Len(c.ast.params)
     /\ w => Sight(c.ast, c.args)
Alone(c) == c.k = "body" => c.single

LEMMA KeptNumber == \A T, x : Kept(Num(x), T) /\ Kept(Class(x), T)
BY DEF Kept, Num, Class

LEMMA RefusedFine == \A T, w : Fine(Refused, T, w) /\ Alone(Refused)
BY DEF Refused, Fine, Alone

LEMMA ValueFine ==
  ASSUME NEW T, NEW w, NEW ty, Kept(ty, T)
  PROVE  Fine(Value(ty), T, w) /\ Alone(Value(ty))
BY DEF Value, Fine, Alone

LEMMA BodyFine ==
  ASSUME NEW T, NEW w, NEW salt, NEW t, NEW types, NEW single, Made(salt, t.ast, t.file, T, Held),
         Sequence(types), AllKept(types, T),
         w /\ Len(types) = Len(t.ast.params) => Sight(t.ast, types)
  PROVE  Fine(Body(salt, t, types, single), T, w) /\ (single => Alone(Body(salt, t, types, single)))
<1>1. CASE Len(types) # Len(t.ast.params)
  BY <1>1, RefusedFine DEF Body
<1>2. CASE Len(types) = Len(t.ast.params)
  <2> DEFINE class == IF "class" \in DOMAIN t THEN t.class ELSE NoName
             c == [k |-> "body", salt |-> salt, ast |-> t.ast, file |-> t.file, args |-> types, single |-> single,
                   class |-> class]
  <2>1. Body(salt, t, types, single) = c
    BY <1>2 DEF Body
  <2> HIDE DEF class
  <2>2. c.k = "body" /\ c.salt = salt /\ c.ast = t.ast /\ c.file = t.file /\ c.args = types /\ c.single = single
    OBVIOUS
  <2> HIDE DEF c
  <2> QED BY <1>2, <2>1, <2>2 DEF Fine, Alone
<1> QED BY <1>1, <1>2

\* A function of the project has no scope to see.
LEMMA HeldFine ==
  ASSUME Program, status # "loading", NEW T, NEW w, NEW salt, NEW t, NEW types, NEW single,
         Function(salt, t.ast, t.file) \in Held, Sequence(types), AllKept(types, T)
  PROVE  Fine(Body(salt, t, types, single), T, w) /\ (single => Alone(Body(salt, t, types, single)))
<1> DEFINE f == Function(salt, t.ast, t.file)
<1>1. f.ast = t.ast
  BY DEF Function
<1>2. "scope" \notin DOMAIN t.ast
  BY <1>1 DEF Program
<1>3. Made(salt, t.ast, t.file, T, Held)
  BY DEF Made
<1>4. Sight(t.ast, types)
  BY <1>2 DEF Sight
<1> QED BY <1>3, <1>4, BodyFine

LEMMA TypesKept ==
  ASSUME NEW T, EnvKept(T), NEW args, Arguments(args)
  PROVE  Sequence(Types(args)) /\ AllKept(Types(args), T) /\ Len(Types(args)) = Len(args)
<1> DEFINE s == Types(args)
<1>1. Len(args) \in Nat /\ DOMAIN args = 1 .. Len(args)
  BY SequenceFacts DEF Arguments
<1>2. s = [i \in 1 .. Len(args) |-> ArgType(args[i])]
  BY <1>1 DEF Types
<1>3. s = [i \in 1 .. Len(args) |-> s[i]]
  BY <1>2
<1>4. Sequence(s) /\ Len(s) = Len(args) /\ DOMAIN s = 1 .. Len(args)
  BY <1>1, <1>3, Listed
<1>5. \A i \in 1 .. Len(args) : Kept(ArgType(args[i]), T)
  <2> SUFFICES ASSUME NEW i \in 1 .. Len(args)
               PROVE  Kept(ArgType(args[i]), T)
    OBVIOUS
  <2> DEFINE a == args[i]
  <2>1. a.k \in {"num", "var", "less"}
    BY <1>1 DEF Arguments
  <2> HIDE DEF a
  <2>2. CASE a.k = "num"
    <3>1. ArgType(a) = Num({a.n})
      BY <2>2 DEF ArgType
    <3> QED BY <3>1, KeptNumber DEF a
  <2>3. CASE a.k = "var"
    <3>1. ArgType(a) = IF a.name \in DOMAIN env THEN env[a.name] ELSE Num(Unknown)
      BY <2>3 DEF ArgType
    <3> QED BY <3>1, KeptNumber DEF EnvKept, a
  <2>4. CASE a.k = "less"
    <3>1. ArgType(a) = Num({n - 1 : n \in env[a.name].exact})
      BY <2>4 DEF ArgType
    <3> QED BY <3>1, KeptNumber DEF a
  <2> QED BY <2>1, <2>2, <2>3, <2>4
<1>6. AllKept(s, T)
  BY <1>2, <1>4, <1>5 DEF AllKept
<1> QED BY <1>4, <1>6

LEMMA PrefixedKept ==
  ASSUME NEW T, NEW ty, Kept(ty, T), NEW types, Sequence(types), AllKept(types, T)
  PROVE  Sequence(<<ty>> \o types) /\ AllKept(<<ty>> \o types, T) /\ <<ty>> \o types # <<>>
<1> DEFINE one == <<ty>>
<1>1. Sequence(one) /\ Len(one) = 1 /\ one[1] = ty
  <2>1. one \in Seq({ty}) /\ Len(one) = 1 /\ one[1] = ty
    OBVIOUS
  <2> QED BY <2>1, OwnElements
<1> HIDE DEF one
<1> DEFINE s == one \o types
<1>2. /\ Sequence(s) /\ Len(types) \in Nat /\ Len(s) = 1 + Len(types)
      /\ DOMAIN s = 1 .. 1 + Len(types) /\ DOMAIN types = 1 .. Len(types)
      /\ \A i \in 1 .. 1 : s[i] = one[i]
      /\ \A i \in 1 .. Len(types) : s[1 + i] = types[i]
      /\ \A i \in 1 .. 1 + Len(types) : i \in 1 .. 1 \/ (i - 1 \in 1 .. Len(types) /\ i = 1 + (i - 1))
  <2>0. Sequence(one)
    BY <1>1
  <2>1. /\ Sequence(one \o types) /\ Len(types) \in Nat /\ Len(one \o types) = Len(one) + Len(types)
        /\ DOMAIN (one \o types) = 1 .. Len(one) + Len(types) /\ DOMAIN types = 1 .. Len(types)
        /\ \A i \in 1 .. Len(one) : (one \o types)[i] = one[i]
        /\ \A i \in 1 .. Len(types) : (one \o types)[Len(one) + i] = types[i]
    BY <2>0, ConcatFacts
  <2>2. /\ Len(s) = 1 + Len(types) /\ DOMAIN s = 1 .. 1 + Len(types)
        /\ \A i \in 1 .. 1 : s[i] = one[i]
        /\ \A i \in 1 .. Len(types) : s[1 + i] = types[i]
    BY <1>1, <2>1
  <2>3. \A i \in 1 .. 1 + Len(types) : i \in 1 .. 1 \/ (i - 1 \in 1 .. Len(types) /\ i = 1 + (i - 1))
    BY <2>1
  <2> QED BY <2>1, <2>2, <2>3
<1> HIDE DEF s
<1>3. \A i \in 1 .. 1 + Len(types) : s[i] = ty \/ \E j \in 1 .. Len(types) : s[i] = types[j]
  <2> TAKE i \in 1 .. 1 + Len(types)
  <2>1. CASE i \in 1 .. 1
    BY <1>1, <1>2, <2>1
  <2>2. CASE i - 1 \in 1 .. Len(types) /\ i = 1 + (i - 1)
    BY <1>2, <2>2
  <2> QED BY <1>2, <2>1, <2>2
<1>4. AllKept(s, T)
  BY <1>2, <1>3 DEF AllKept
<1>5. s # <<>>
  <2>1. 1 \in DOMAIN s
    BY <1>2
  <2>2. DOMAIN <<>> = {}
    OBVIOUS
  <2> QED BY <2>1, <2>2
<1> QED BY <1>2, <1>4, <1>5 DEF s, one

LEMMA TailKept ==
  ASSUME NEW T, NEW types, Sequence(types), AllKept(types, T), types # <<>>
  PROVE  Sequence(Tail(types)) /\ AllKept(Tail(types), T)
BY TailFacts DEF AllKept

\* The arguments a handle adds are the variables it took.
LEMMA TakenFacts ==
  ASSUME NEW T, NEW h, Sequence(h.captures), \A i \in DOMAIN h.captures : Kept(h.captures[i].ty, T)
  PROVE  LET tys == [i \in DOMAIN h.captures |-> h.captures[i].ty]
             names == [i \in DOMAIN h.captures |-> h.captures[i].name]
         IN  /\ Sequence(tys) /\ AllKept(tys, T) /\ Len(tys) = Len(h.captures)
             /\ Sequence(names) /\ Len(names) = Len(h.captures)
<1> DEFINE tys == [i \in DOMAIN h.captures |-> h.captures[i].ty]
           names == [i \in DOMAIN h.captures |-> h.captures[i].name]
<1>1. Len(h.captures) \in Nat /\ DOMAIN h.captures = 1 .. Len(h.captures)
  BY SequenceFacts
<1>2. tys = [i \in 1 .. Len(h.captures) |-> tys[i]]
  BY <1>1
<1>3. names = [i \in 1 .. Len(h.captures) |-> names[i]]
  BY <1>1
<1>4. AllKept(tys, T)
  BY DEF AllKept
<1> HIDE DEF tys, names
<1>5. Sequence(tys) /\ Len(tys) = Len(h.captures)
  BY <1>1, <1>2, Listed
<1>6. Sequence(names) /\ Len(names) = Len(h.captures)
  BY <1>1, <1>3, Listed
<1> QED BY <1>4, <1>5, <1>6 DEF tys, names

LEMMA ConcatKept ==
  ASSUME NEW T, NEW s, Sequence(s), AllKept(s, T), NEW t, Sequence(t), AllKept(t, T)
  PROVE  Sequence(s \o t) /\ AllKept(s \o t, T)
<1>1. /\ Sequence(s \o t) /\ DOMAIN (s \o t) = 1 .. Len(s) + Len(t)
      /\ DOMAIN s = 1 .. Len(s) /\ DOMAIN t = 1 .. Len(t)
  BY ConcatFacts
<1>2. \A i \in 1 .. Len(s) + Len(t) : Kept((s \o t)[i], T)
  <2> TAKE i \in 1 .. Len(s) + Len(t)
  <2>1. CASE i \in 1 .. Len(s)
    <3>1. (s \o t)[i] = s[i]
      BY <2>1, ConcatFacts
    <3> QED BY <1>1, <2>1, <3>1 DEF AllKept
  <2>2. CASE i - Len(s) \in 1 .. Len(t) /\ i = Len(s) + (i - Len(s))
    <3> DEFINE j == i - Len(s)
    <3>1. j \in 1 .. Len(t) /\ i = Len(s) + j
      BY <2>2
    <3> HIDE DEF j
    <3>2. (s \o t)[i] = t[j]
      BY <3>1, ConcatFacts
    <3> QED BY <1>1, <3>1, <3>2 DEF AllKept
  <2> QED BY <2>1, <2>2, ConcatFacts
<1> QED BY <1>1, <1>2 DEF AllKept

\* Where a name is in a list put behind another that does not have it.
LEMMA LastPlace ==
  ASSUME NEW own, Sequence(own), NEW names, Sequence(names), NEW params, params = own \o names,
         NEW j \in DOMAIN names, names[j] \notin Range(own), \A i \in DOMAIN names : names[i] = names[j] => i = j
  PROVE  /\ Max(Places(params, names[j])) = Len(own) + j
         /\ names[j] \in Range(params)
<1> DEFINE m == Len(own)
           k == Len(names)
           n == names[j]
           S == {i \in DOMAIN params : params[i] = n}
<1>1. /\ m \in Nat /\ k \in Nat /\ DOMAIN own = 1 .. m /\ DOMAIN names = 1 .. k
      /\ DOMAIN params = 1 .. m + k
      /\ \A i \in 1 .. m : params[i] = own[i]
      /\ \A i \in 1 .. k : params[m + i] = names[i]
      /\ \A i \in 1 .. m + k : i \in 1 .. m \/ (i - m \in 1 .. k /\ i = m + (i - m))
  BY ConcatFacts
<1> HIDE DEF m, k, n
<1>2. params[m + j] = n /\ m + j \in 1 .. m + k
  BY <1>1 DEF n
<1>3. \A i \in 1 .. m + k : params[i] = n => i = m + j
  <2> SUFFICES ASSUME NEW i \in 1 .. m + k, params[i] = n
               PROVE  i = m + j
    OBVIOUS
  <2>1. CASE i \in 1 .. m
    BY <1>1, <2>1 DEF Range, n
  <2>2. CASE i - m \in 1 .. k /\ i = m + (i - m)
    <3> DEFINE l == i - m
    <3>1. l \in 1 .. k /\ i = m + l
      BY <2>2
    <3> HIDE DEF l
    <3>2. names[l] = names[j]
      BY <1>1, <3>1 DEF n
    <3> QED BY <1>1, <3>1, <3>2
  <2> QED BY <1>1, <2>1, <2>2
<1>4. S = {m + j}
  BY <1>1, <1>2, <1>3
<1>5. Max(S) = m + j
  <2>1. S \in SUBSET (1 .. m + k) /\ m + k \in Nat /\ S # {}
    BY <1>1, <1>2, <1>4
  <2> HIDE DEF S
  <2>2. Max(S) \in S
    BY <2>1, GreatestOf
  <2> QED BY <1>4, <2>2
<1>6. n \in Range(params)
  BY <1>1, <1>2 DEF Range
<1>7. S = Places(params, n)
  BY DEF Places
<1> QED BY <1>5, <1>6, <1>7 DEF m, n

\* Where the parameters of an anonymous function end, what it took begins.
LEMMA AnonymousSight ==
  ASSUME NEW T, NEW h, Anonymous(h, T, anonCounter), Takes(h), NEW types, Sequence(types),
         NEW args, args = types \o [i \in DOMAIN h.captures |-> h.captures[i].ty],
         Len(args) = Len(h.target.ast.params)
  PROVE  Sight(h.target.ast, args)
<1> DEFINE ast == h.target.ast
           own == ast.own
           taken == h.captures
           tys == [i \in DOMAIN taken |-> taken[i].ty]
           names == [i \in DOMAIN taken |-> taken[i].name]
<1>1. /\ Sequence(taken) /\ Sequence(own) /\ ast.params = own \o names
      /\ \A i \in DOMAIN taken : taken[i].ty = ast.scope[taken[i].name] /\ taken[i].name \notin Range(own)
      /\ \A i, j \in DOMAIN taken : taken[i].name = taken[j].name => i = j
      /\ h.target.k = "anonymous"
  BY DEF Anonymous
<1>2. /\ Sequence(tys) /\ Len(tys) = Len(taken) /\ Sequence(names) /\ Len(names) = Len(taken)
  BY <1>1, TakenFacts DEF Anonymous
<1>3. /\ DOMAIN tys = DOMAIN taken /\ DOMAIN names = DOMAIN taken
      /\ \A i \in DOMAIN taken : tys[i] = taken[i].ty /\ names[i] = taken[i].name
  OBVIOUS
<1>4. args = types \o tys
  OBVIOUS
<1> SUFFICES ASSUME NEW n \in (Mentioned(ast.body[1]) \cap DOMAIN ast.scope) \ Range(own)
             PROVE  n \in Range(ast.params) /\ args[Max(Places(ast.params, n))] = ast.scope[n]
  BY DEF Sight
<1>5. PICK j \in DOMAIN taken : taken[j].name = n
  BY <1>1 DEF Takes
<1>6. Len(ast.params) = Len(args)
  OBVIOUS
<1> HIDE DEF ast, own, taken, tys, names
<1>7. names[j] = n /\ n \notin Range(own) /\ \A i \in DOMAIN names : names[i] = names[j] => i = j
  BY <1>1, <1>3, <1>5
<1>8. Max(Places(ast.params, n)) = Len(own) + j /\ n \in Range(ast.params)
  <2> DEFINE params == ast.params
  <2>1. Sequence(own) /\ Sequence(names) /\ params = own \o names /\ j \in DOMAIN names
    BY <1>1, <1>2, <1>3
  <2>2. names[j] \notin Range(own) /\ \A i \in DOMAIN names : names[i] = names[j] => i = j
    BY <1>7
  <2> HIDE DEF params
  <2>3. Max(Places(params, names[j])) = Len(own) + j /\ names[j] \in Range(params)
    BY <2>1, <2>2, LastPlace
  <2> QED BY <1>7, <2>3 DEF params
<1>9. /\ Len(own \o names) = Len(own) + Len(names) /\ Len(own) \in Nat /\ Len(names) \in Nat
  BY <1>1, <1>2, ConcatFacts
<1>10. /\ Len(types \o tys) = Len(types) + Len(tys) /\ Len(types) \in Nat
       /\ DOMAIN tys = 1 .. Len(tys)
       /\ \A i \in 1 .. Len(tys) : (types \o tys)[Len(types) + i] = tys[i]
  BY <1>2, ConcatFacts
<1>11. Len(types) = Len(own)
  BY <1>1, <1>2, <1>4, <1>6, <1>9, <1>10
<1>12. args[Len(own) + j] = tys[j]
  BY <1>3, <1>4, <1>10, <1>11
<1>13. tys[j] = ast.scope[n]
  BY <1>1, <1>3, <1>5
<1> QED BY <1>8, <1>12, <1>13

LEMMA NumberBuiltin ==
  ASSUME NEW T, NEW w, NEW name, NEW types
  PROVE  Fine(lowerBuiltinCall(name, types), T, w) /\ Alone(lowerBuiltinCall(name, types))
BY KeptNumber, ValueFine, RefusedFine DEF lowerBuiltinCall

LEMMA UserCallFine ==
  ASSUME NEW T, NEW w, NEW t, NEW types,
         Fine(Body(<<t.name>>, t, types, TRUE), T, w), Alone(Body(<<t.name>>, t, types, TRUE))
  PROVE  Fine(lowerUserCall(t, types), T, w) /\ Alone(lowerUserCall(t, types))
BY RefusedFine DEF lowerUserCall

LEMMA HandleCallFine ==
  ASSUME Program, status # "loading", NEW T, Handles(T, Held, anonCounter), NEW h \in T, NEW w, w => Takes(h),
         NEW types, Sequence(types), AllKept(types, T)
  PROVE  Fine(lowerHandleCall(h, types), T, w) /\ Alone(lowerHandleCall(h, types))
<1> DEFINE t == h.target
           tys == [i \in DOMAIN h.captures |-> h.captures[i].ty]
           args == types \o tys
<1>1. CASE BuiltinHandle(h)
  <2>1. h.target.k = "builtin"
    BY <1>1 DEF BuiltinHandle
  <2> QED BY <2>1, NumberBuiltin DEF lowerHandleCall
<1>2. CASE UserHandle(h, Held)
  <2>1. h.target.k = "userFunc" /\ Function(<<t.name>>, t.ast, t.file) \in Held
    BY <1>2 DEF UserHandle
  <2>2. Sequence(h.captures) /\ DOMAIN h.captures = {}
    <3>1. <<>> \in Seq({}) /\ DOMAIN <<>> = {}
      BY EmptySeq
    <3>2. Sequence(<<>>)
      BY <3>1, OwnElements
    <3> QED BY <1>2, <3>1, <3>2 DEF UserHandle
  <2>3. Sequence(tys) /\ AllKept(tys, T)
    BY <2>2, TakenFacts
  <2> HIDE DEF tys
  <2>4. Sequence(args) /\ AllKept(args, T)
    BY <2>3, ConcatKept
  <2>5. lowerHandleCall(h, types) = lowerUserCall(t, args)
    BY <2>1 DEF lowerHandleCall, tys
  <2> HIDE DEF t, args
  <2>6. Fine(Body(<<t.name>>, t, args, TRUE), T, w) /\ Alone(Body(<<t.name>>, t, args, TRUE))
    BY <2>1, <2>4, HeldFine
  <2> QED BY <2>5, <2>6, UserCallFine
<1>3. CASE Anonymous(h, T, anonCounter)
  <2>1. t.k = "anonymous" /\ Sequence(h.captures) /\ \A i \in DOMAIN h.captures : Kept(h.captures[i].ty, T)
    BY <1>3 DEF Anonymous
  <2>2. Sequence(tys) /\ AllKept(tys, T)
    BY <2>1, TakenFacts
  <2>3. w /\ Len(args) = Len(t.ast.params) => Sight(t.ast, args)
    BY <1>3, AnonymousSight
  <2> HIDE DEF tys
  <2>4. Sequence(args) /\ AllKept(args, T)
    BY <2>2, ConcatKept
  <2>5. lowerHandleCall(h, types) = lowerUserCall(t, args)
    BY <2>1 DEF lowerHandleCall, tys
  <2>6. Made(<<t.name>>, t.ast, t.file, T, Held)
    BY <2>1 DEF Made
  <2> HIDE DEF t, args
  <2>7. Fine(Body(<<t.name>>, t, args, TRUE), T, w) /\ Alone(Body(<<t.name>>, t, args, TRUE))
    BY <2>3, <2>4, <2>6, BodyFine
  <2> QED BY <2>5, <2>7, UserCallFine
<1> QED BY <1>1, <1>2, <1>3 DEF Handles

\* A function of the project, called with these types.
LEMMA DispatchFine ==
  ASSUME Program, status # "loading", NEW T, NEW w, NEW t, Told(t), t.k = "classMethod",
         NEW types, Sequence(types), AllKept(types, T), types # <<>>
  PROVE  Fine(dispatchResolvedMethodCall(t, types), T, w) /\ Alone(dispatchResolvedMethodCall(t, types))
<1> DEFINE salt == classMethodSpecName(t.class, t.name)
           given == IF t.strip THEN Tail(types) ELSE types
<1>1. Function(salt, t.ast, t.file) \in Held
  BY DEF Told
<1>2. Sequence(given) /\ AllKept(given, T)
  BY TailKept
<1> HIDE DEF salt, given
<1>3. \E single : single = TRUE /\ dispatchResolvedMethodCall(t, types) = Body(salt, t, given, single)
  BY Zenon DEF dispatchResolvedMethodCall, salt, given
<1> PICK single : single /\ dispatchResolvedMethodCall(t, types) = Body(salt, t, given, single)
  BY <1>3
<1>4. Fine(Body(salt, t, given, single), T, w) /\ (single => Alone(Body(salt, t, given, single)))
  BY <1>1, <1>2, HeldFine
<1> QED BY <1>4

LEMMA ConstructorFine ==
  ASSUME Program, status # "loading", NEW T, NEW w, NEW t, Function(t.class, t.ast, t.file) \in Held,
         NEW ty, Kept(ty, T), NEW types, Sequence(types), AllKept(types, T)
  PROVE  /\ Fine(Body(t.class, t, <<ty>> \o types, TRUE), T, w)
         /\ Alone(Body(t.class, t, <<ty>> \o types, TRUE))
<1> DEFINE given == <<ty>> \o types
           salt == t.class
<1>1. Sequence(given) /\ AllKept(given, T)
  BY PrefixedKept
<1>2. Function(salt, t.ast, t.file) \in Held
  OBVIOUS
<1> HIDE DEF given, salt
<1>3. \E single : single = TRUE
  OBVIOUS
<1> PICK single : single = TRUE
  BY <1>3
<1>4. Fine(Body(salt, t, given, single), T, w) /\ (single => Alone(Body(salt, t, given, single)))
  BY <1>1, <1>2, HeldFine
<1>5. single = TRUE
  OBVIOUS
<1>6. Fine(Body(salt, t, given, TRUE), T, w) /\ Alone(Body(salt, t, given, TRUE))
  BY <1>4, <1>5, Zenon
<1> QED BY <1>6 DEF given, salt

LEMMA CallOfFine ==
  ASSUME Program, status # "loading", NEW T, NEW w, NEW t, Told(t), NEW n,
         NEW types, Sequence(types), AllKept(types, T)
  PROVE  Fine(CallOf(t, n, types), T, w) /\ Alone(CallOf(t, n, types))
<1>1. CASE t.k = "userFunction"
  <2>1. CallOf(t, n, types) = lowerUserCall(t, types)
    BY <1>1 DEF CallOf
  <2> DEFINE salt == <<t.name>>
  <2>2. Function(salt, t.ast, t.file) \in Held
    BY <1>1 DEF Told
  <2> HIDE DEF salt
  <2>3. \E single : single = TRUE
    OBVIOUS
  <2> PICK single : single = TRUE
    BY <2>3
  <2>4. Fine(Body(salt, t, types, single), T, w) /\ (single => Alone(Body(salt, t, types, single)))
    BY <2>2, HeldFine
  <2>5. single = TRUE
    OBVIOUS
  <2>6. Fine(Body(salt, t, types, TRUE), T, w) /\ Alone(Body(salt, t, types, TRUE))
    BY <2>4, <2>5, Zenon
  <2>7. Fine(lowerUserCall(t, types), T, w) /\ Alone(lowerUserCall(t, types))
    BY <2>6, UserCallFine DEF salt
  <2> QED BY <2>1, <2>7
<1>2. CASE t.k = "classConstructor"
  <2>1. CallOf(t, n, types) = Body(t.class, t, <<Class(t.class)>> \o types, TRUE)
    BY <1>2 DEF CallOf, lowerClassConstructorCall
  <2>2. Function(t.class, t.ast, t.file) \in Held
    BY <1>2 DEF Told
  <2> DEFINE ty == Class(t.class)
  <2>3. Kept(ty, T)
    BY KeptNumber
  <2> HIDE DEF ty
  <2>4. Fine(Body(t.class, t, <<ty>> \o types, TRUE), T, w) /\ Alone(Body(t.class, t, <<ty>> \o types, TRUE))
    BY <2>2, <2>3, ConstructorFine
  <2> QED BY <2>1, <2>4 DEF ty
<1>3. CASE t.k = "classMethod" /\ types # <<>>
  <2>1. CallOf(t, n, types) = dispatchResolvedMethodCall(t, types)
    BY <1>3 DEF CallOf
  <2> QED BY <1>3, <2>1, DispatchFine
<1>4. CASE t.k = "builtin"
  <2>1. CallOf(t, n, types) = lowerBuiltinCall(n, types)
    BY <1>4 DEF CallOf
  <2> QED BY <2>1, NumberBuiltin
<1>5. CASE t.k \notin {"userFunction", "classConstructor", "builtin"} /\ ~(t.k = "classMethod" /\ types # <<>>)
  <2>1. CallOf(t, n, types) = Refused
    BY <1>5 DEF CallOf
  <2> QED BY <2>1, RefusedFine
<1> QED BY <1>1, <1>2, <1>3, <1>4, <1>5

\* What is taken for granted where a statement is lowered.
Ready(T, w) ==
  /\ Program /\ Indexed /\ status # "loading"
  /\ Handles(T, Held, anonCounter) /\ EnvKept(T)
  /\ w => \A h \in T : Takes(h)

LEMMA HandleHeld ==
  ASSUME NEW T, EnvKept(T), NEW n \in DOMAIN env, env[n].k = "handle"
  PROVE  env[n] \in T
BY DEF EnvKept, Kept

LEMMA FuncCallFine ==
  ASSUME NEW T, NEW w, Ready(T, w), NEW n, NEW args, Arguments(args)
  PROVE  Fine(lowerFuncCall(n, args), T, w) /\ Alone(lowerFuncCall(n, args))
<1> DEFINE types == Types(args)
           classes == IF anyArgIsClassInstance(args) THEN Classes(Types(args)) ELSE <<>>
           t == resolve(<<n>>, classes, callSite)
<1>1. Sequence(types) /\ AllKept(types, T)
  BY TypesKept DEF Ready
<1>2. <<n>> = << <<n>>[1] >>
  OBVIOUS
<1>3. Told(t)
  <2> DEFINE name == <<n>>
  <2>1. name = <<name[1]>>
    BY <1>2
  <2> HIDE DEF name, classes
  <2>2. Indexed /\ Listings
    BY DEF Ready, Program
  <2>3. Told(resolve(name, classes, callSite))
    BY <2>1, <2>2, ResolveTold
  <2> QED BY <2>3 DEF name
<1>4. lowerFuncCall(n, args) = IF n \in DOMAIN env THEN IF env[n].k = "num" THEN Value(Num(Unknown)) ELSE Refused
                               ELSE CallOf(t, n, types)
  BY DEF lowerFuncCall
<1> HIDE DEF t, types
<1>5. Fine(CallOf(t, n, types), T, w) /\ Alone(CallOf(t, n, types))
  BY <1>1, <1>3, CallOfFine DEF Ready
<1>6. Fine(Value(Num(Unknown)), T, w) /\ Alone(Value(Num(Unknown)))
  BY KeptNumber, ValueFine
<1> QED BY <1>4, <1>5, <1>6, RefusedFine

LEMMA ExpressionFine ==
  ASSUME NEW T, NEW w, Ready(T, w), NEW n, NEW args, Arguments(args)
  PROVE  Fine(Expression(n, args), T, w) /\ Alone(Expression(n, args))
<1>1. CASE n \in DOMAIN env /\ env[n].k = "handle"
  <2> DEFINE h == env[n]
             types == Types(args)
  <2>1. h \in T
    BY <1>1, HandleHeld DEF Ready
  <2>2. Sequence(types) /\ AllKept(types, T)
    BY TypesKept DEF Ready
  <2>3. Expression(n, args) = lowerHandleCall(h, types)
    BY <1>1 DEF Expression
  <2> HIDE DEF h, types
  <2>4. Fine(lowerHandleCall(h, types), T, w) /\ Alone(lowerHandleCall(h, types))
    BY <2>1, <2>2, HandleCallFine DEF Ready
  <2> QED BY <2>3, <2>4
<1>2. CASE ~(n \in DOMAIN env /\ env[n].k = "handle")
  <2>1. Expression(n, args) = lowerFuncCall(n, args)
    BY <1>2 DEF Expression
  <2> QED BY <2>1, FuncCallFine
<1> QED BY <1>1, <1>2

\* [a, b] = n(...) takes no more results than there are.
Fits(c) ==
  c.k = "body" => (c.single /\ Len(stmt.targets) <= 1) \/ DOMAIN stmt.targets \subseteq DOMAIN c.ast.outputs

LEMMA AloneFits ==
  ASSUME Len(stmt.targets) <= 1
  PROVE  \A c : Alone(c) => Fits(c)
BY DEF Alone, Fits

LEMMA RefusedFits == Fits(Refused)
BY DEF Refused, Fits

LEMMA PureCopy ==
  ASSUME NEW t, Pure(t)
  PROVE  LET u == [t EXCEPT !.k = "userFunction"]
         IN  u.k = "userFunction" /\ u.name = t.name /\ u.ast = t.ast /\ u.file = t.file
<1> DEFINE u == [t EXCEPT !.k = "userFunction"]
<1>1. t = [k |-> t.k, name |-> t.name, file |-> t.file, ast |-> t.ast]
  BY DEF Pure
<1>2. DOMAIN t = {"k", "name", "file", "ast"}
  BY <1>1
<1>3. DOMAIN u = DOMAIN t /\ u.k = "userFunction" /\ \A x \in DOMAIN t \ {"k"} : u[x] = t[x]
  BY <1>2
<1> QED BY <1>2, <1>3

LEMMA HandleKinds ==
  ASSUME NEW T, Handles(T, Held, anonCounter), NEW h \in T
  PROVE  /\ h = Handle(h.target, h.captures)
         /\ \/ h.target.k = "userFunc" /\ UserHandle(h, Held)
            \/ h.target.k = "builtin" /\ BuiltinHandle(h)
            \/ h.target.k = "anonymous" /\ Anonymous(h, T, anonCounter)
<1>1. h = Handle(h.target, h.captures) /\ (UserHandle(h, Held) \/ BuiltinHandle(h) \/ Anonymous(h, T, anonCounter))
  BY DEF Handles
<1>2. UserHandle(h, Held) => h.target.k = "userFunc"
  BY DEF UserHandle
<1>3. BuiltinHandle(h) => h.target.k = "builtin"
  <2> DEFINE u == h.target
             name == u.name
  <2>1. BuiltinHandle(h) => u = [k |-> "builtin", name |-> name]
    BY DEF BuiltinHandle
  <2> HIDE DEF u, name
  <2>2. BuiltinHandle(h) => u.k = "builtin"
    BY <2>1
  <2> QED BY <2>2 DEF u
<1>4. Anonymous(h, T, anonCounter) => h.target.k = "anonymous"
  BY DEF Anonymous
<1> QED BY <1>1, <1>2, <1>3, <1>4

\* The function that a name called as a statement means.
LEMMA StatementTargetFine ==
  ASSUME NEW T, NEW w, Ready(T, w), NEW n, NEW args, Arguments(args), NEW single,
         StatementTarget(n).k = "userFunction",
         Len(StatementTarget(n).ast.outputs) = 1 =>
           (w /\ n \in DOMAIN env /\ env[n].k = "handle" => env[n].captures = <<>>)
  PROVE  LET t == StatementTarget(n)
         IN  /\ Fine(Body(<<t.name>>, t, Types(args), single), T, w)
             /\ Made(<<t.name>>, t.ast, t.file, T, Held)
<1> DEFINE t == StatementTarget(n)
           types == Types(args)
           salt == <<t.name>>
<1>1. Sequence(types) /\ AllKept(types, T)
  BY TypesKept DEF Ready
<1>2. CASE Function(salt, t.ast, t.file) \in Held
  <2> HIDE DEF t, types, salt
  <2>1. Fine(Body(salt, t, types, single), T, w)
    BY <1>1, <1>2, HeldFine DEF Ready
  <2>2. Made(salt, t.ast, t.file, T, Held)
    BY <1>2 DEF Made
  <2> QED BY <2>1, <2>2 DEF t, types, salt
<1>3. CASE n \notin DOMAIN env \/ env[n].k # "handle"
  <2>1. t = resolve(<<n>>, <<>>, callSite)
    BY <1>3 DEF StatementTarget
  <2> DEFINE name == <<n>>
             classes == <<>>
  <2>2. name = <<name[1]>>
    OBVIOUS
  <2> HIDE DEF name, classes
  <2>3. Indexed /\ Listings
    BY DEF Ready, Program
  <2>4. Told(resolve(name, classes, callSite))
    BY <2>2, <2>3, ResolveTold
  <2>5. Told(t)
    BY <2>1, <2>4 DEF name, classes
  <2>6. Function(salt, t.ast, t.file) \in Held
    BY <2>5 DEF Told
  <2> QED BY <1>2, <2>6
<1>4. CASE n \in DOMAIN env /\ env[n].k = "handle"
  <2> DEFINE h == env[n]
             u == h.target
  <2>1. h \in T
    BY <1>4, HandleHeld DEF Ready
  <2>2. t = IF u.k = "builtin" THEN Unsupported ELSE [u EXCEPT !.k = "userFunction"]
    BY <1>4 DEF StatementTarget
  <2>3. u.k # "builtin" /\ t = [u EXCEPT !.k = "userFunction"]
    BY <2>2 DEF Unsupported
  <2>4. UserHandle(h, Held) \/ Anonymous(h, T, anonCounter)
    BY <2>1, <2>3, HandleKinds DEF Ready
  <2>5. Pure(u)
    BY <2>4 DEF UserHandle, Anonymous
  <2>6. t.name = u.name /\ t.ast = u.ast /\ t.file = u.file
    BY <2>3, <2>5, PureCopy
  <2>7. CASE UserHandle(h, Held)
    <3>1. Function(salt, t.ast, t.file) \in Held
      BY <2>6, <2>7 DEF UserHandle
    <3> QED BY <1>2, <3>1
  <2>8. CASE Anonymous(h, T, anonCounter)
    <3>1. u.k = "anonymous" /\ Len(u.ast.outputs) = 1
      BY <2>8 DEF Anonymous
    <3>2. w => h.captures = <<>>
      BY <1>4, <2>6, <3>1
    <3>3. w => Sight(t.ast, types)
      <4> SUFFICES ASSUME w
                   PROVE  Sight(u.ast, types)
        BY <2>6
      <4>1. Takes(h)
        BY <2>1 DEF Ready
      <4>2. DOMAIN h.captures = {}
        BY <3>2
      <4> QED BY <3>1, <4>1, <4>2 DEF Takes, Sight
    <3>4. Made(salt, t.ast, t.file, T, Held)
      BY <2>1, <2>6, <3>1 DEF Made
    <3> HIDE DEF t, types, salt
    <3>5. Fine(Body(salt, t, types, single), T, w)
      BY <1>1, <3>3, <3>4, BodyFine
    <3> QED BY <3>4, <3>5 DEF t, types, salt
  <2> QED BY <2>4, <2>7, <2>8
<1> QED BY <1>3, <1>4

LEMMA MadeText ==
  ASSUME Program, status # "loading", NEW T, Handles(T, Held, anonCounter), NEW salt, NEW ast, NEW file, Made(salt, ast, file, T, Held)
  PROVE  Text(ast)
<1>1. CASE Function(salt, ast, file) \in Held
  <2> DEFINE f == Function(salt, ast, file)
  <2>1. f.ast = ast
    BY DEF Function
  <2> HIDE DEF f
  <2>2. f \in Held
    BY <1>1 DEF f
  <2> QED BY <2>1, <2>2 DEF Program
<1>2. ASSUME NEW h \in T, h.target.k = "anonymous", ast = h.target.ast
      PROVE  Text(ast)
  <2>1. Anonymous(h, T, anonCounter)
    BY <1>2, HandleKinds
  <2> QED BY <1>2, <2>1 DEF Anonymous
<1> QED BY <1>1, <1>2 DEF Made

LEMMA MultiFine ==
  ASSUME NEW T, NEW w, Ready(T, w), NEW t, NEW args, NEW targets, Sequence(targets),
         t.k = "userFunction" => Fine(Body(<<t.name>>, t, Types(args), FALSE), T, w) /\ Made(<<t.name>>, t.ast, t.file, T, Held),
         stmt.targets = targets
  PROVE  Fine(lowerMultiAssignCall(t, args, targets), T, w) /\ Fits(lowerMultiAssignCall(t, args, targets))
<1>1. CASE t.k # "userFunction" \/ Len(targets) > Len(t.ast.outputs)
  <2>1. lowerMultiAssignCall(t, args, targets) = Refused
    BY <1>1 DEF lowerMultiAssignCall
  <2> QED BY <2>1, RefusedFine, RefusedFits
<1>2. CASE t.k = "userFunction" /\ ~(Len(targets) > Len(t.ast.outputs))
  <2> DEFINE c == Body(<<t.name>>, t, Types(args), FALSE)
  <2>1. lowerMultiAssignCall(t, args, targets) = c
    BY <1>2 DEF lowerMultiAssignCall
  <2>2. c.k = "body" => c.ast = t.ast
    BY DEF Body, Refused
  <2> DEFINE salt == <<t.name>>
  <2>3. Made(salt, t.ast, t.file, T, Held)
    BY <1>2
  <2> HIDE DEF salt
  <2>4. Text(t.ast)
    BY <2>3, MadeText DEF Ready
  <2>5. Sequence(t.ast.outputs)
    BY <2>4 DEF Text
  <2>6. DOMAIN targets \subseteq DOMAIN t.ast.outputs
    <3> DEFINE o == t.ast.outputs
    <3>1. Len(targets) \in Nat /\ DOMAIN targets = 1 .. Len(targets)
      BY SequenceFacts
    <3>2. Sequence(o)
      BY <2>5
    <3> HIDE DEF o
    <3>3. Len(o) \in Nat /\ DOMAIN o = 1 .. Len(o)
      BY <3>2, SequenceFacts
    <3>4. ~(Len(targets) > Len(o))
      BY <1>2 DEF o
    <3>5. DOMAIN targets \subseteq DOMAIN o
      BY <3>1, <3>3, <3>4
    <3> QED BY <3>5 DEF o
  <2> HIDE DEF c
  <2>7. Fits(c)
    BY <2>2, <2>6 DEF Fits
  <2>8. Fine(c, T, w)
    BY <1>2 DEF c
  <2> QED BY <2>1, <2>7, <2>8
<1> QED BY <1>1, <1>2

LEMMA BareFine ==
  ASSUME NEW T, NEW w, Ready(T, w), NEW n, NEW args, Arguments(args), stmt.targets = <<>>
  PROVE  Fine(Bare(n, args), T, w) /\ Fits(Bare(n, args))
<1> DEFINE t == IF n \in DOMAIN env /\ env[n].k # "handle" THEN Unresolved ELSE StatementTarget(n)
<1>1. Bare(n, args) = BareCall(t, n, args)
  BY DEF Bare
<1>2. CASE t.k = "userFunction" /\ Len(t.ast.outputs) # 1
  <2>1. t = StatementTarget(n)
    BY <1>2 DEF Unresolved
  <2> DEFINE u == StatementTarget(n)
             none == <<>>
  <2>2. u.k = "userFunction" /\ Len(u.ast.outputs) # 1
    BY <1>2, <2>1
  <2>3. Fine(Body(<<u.name>>, u, Types(args), FALSE), T, w) /\ Made(<<u.name>>, u.ast, u.file, T, Held)
    <3>1. \E single : single = FALSE
      OBVIOUS
    <3> PICK single : single = FALSE
      BY <3>1
    <3>2. Fine(Body(<<u.name>>, u, Types(args), single), T, w) /\ Made(<<u.name>>, u.ast, u.file, T, Held)
      BY <2>2, StatementTargetFine
    <3>3. single = FALSE
      OBVIOUS
    <3> QED BY <3>2, <3>3, Zenon
  <2>4. Sequence(none) /\ stmt.targets = none
    <3>1. <<>> \in Seq({})
      BY EmptySeq
    <3> QED BY <3>1, OwnElements
  <2>5. t # Unsupported
    BY <1>2 DEF Unsupported
  <2>6. Bare(n, args) = lowerMultiAssignCall(u, args, none)
    BY <1>1, <1>2, <2>1, <2>5 DEF BareCall
  <2> HIDE DEF t, u, none
  <2>7. Fine(lowerMultiAssignCall(u, args, none), T, w) /\ Fits(lowerMultiAssignCall(u, args, none))
    BY <2>3, <2>4, MultiFine
  <2> QED BY <2>6, <2>7
<1>3. CASE ~(t.k = "userFunction" /\ Len(t.ast.outputs) # 1)
  <2> HIDE DEF t
  <2>1. Bare(n, args) \in {Refused, Value(Num(Unknown)), Expression(n, args)}
    BY <1>1, <1>3 DEF BareCall
  <2>2. Fine(Value(Num(Unknown)), T, w) /\ Alone(Value(Num(Unknown)))
    BY KeptNumber, ValueFine
  <2>3. Fine(Expression(n, args), T, w) /\ Alone(Expression(n, args))
    BY ExpressionFine
  <2>4. Len(stmt.targets) <= 1
    BY 0 <= 1
  <2> QED BY <2>1, <2>2, <2>3, <2>4, RefusedFine, AloneFits
<1> QED BY <1>2, <1>3

LEMMA InstanceFine ==
  ASSUME NEW T, NEW w, Ready(T, w), NEW n, NEW classes, NEW c, NEW types,
         Sequence(types), AllKept(types, T), types # <<>>
  PROVE  LET t == resolveForTargetClass(<<n>>, classes, c, callSite)
         IN  Fine(InstanceCall(t, types), T, w) /\ Alone(InstanceCall(t, types))
<1> DEFINE t == resolveForTargetClass(<<n>>, classes, c, callSite)
           name == <<n>>
           site == [callSite EXCEPT !.targetClassName = c]
<1>1. t = resolve(name, classes, site)
  BY DEF resolveForTargetClass
<1>2. name = <<name[1]>>
  OBVIOUS
<1> HIDE DEF t, name, site
<1>3. Indexed /\ Listings
  BY DEF Ready, Program
<1>4. Told(t)
  BY <1>1, <1>2, <1>3, ResolveTold
<1>5. CASE t.k # "classMethod"
  <2>1. InstanceCall(t, types) = Refused
    BY <1>5 DEF InstanceCall
  <2> QED BY <2>1, RefusedFine DEF t
<1>6. CASE t.k = "classMethod"
  <2>1. InstanceCall(t, types) = dispatchResolvedMethodCall(t, types)
    BY <1>6 DEF InstanceCall
  <2>2. Fine(dispatchResolvedMethodCall(t, types), T, w) /\ Alone(dispatchResolvedMethodCall(t, types))
    BY <1>4, <1>6, DispatchFine DEF Ready
  <2> QED BY <2>1, <2>2 DEF t
<1> QED BY <1>5, <1>6

LEMMA StaticFine ==
  ASSUME NEW T, NEW w, Ready(T, w), NEW n, NEW classes, NEW c, NEW types,
         Sequence(types), AllKept(types, T)
  PROVE  LET t == resolveForTargetClass(<<n>>, classes, c, callSite)
         IN  Fine(StaticCall(t, types), T, w) /\ Alone(StaticCall(t, types))
<1> DEFINE t == resolveForTargetClass(<<n>>, classes, c, callSite)
           name == <<n>>
           site == [callSite EXCEPT !.targetClassName = c]
           salt == classMethodSpecName(t.class, t.name)
<1>1. t = resolve(name, classes, site)
  BY DEF resolveForTargetClass
<1>2. name = <<name[1]>>
  OBVIOUS
<1> HIDE DEF t, name, site
<1>3. Indexed /\ Listings
  BY DEF Ready, Program
<1>4. Told(t)
  BY <1>1, <1>2, <1>3, ResolveTold
<1>5. CASE t.k # "classMethod"
  <2>1. StaticCall(t, types) = Refused
    BY <1>5 DEF StaticCall
  <2> QED BY <2>1, RefusedFine DEF t
<1>6. CASE t.k = "classMethod"
  <2>1. Function(salt, t.ast, t.file) \in Held
    BY <1>4, <1>6 DEF Told
  <2> HIDE DEF salt
  <2>2. \E single : single = TRUE /\ StaticCall(t, types) = Body(salt, t, types, single)
    BY <1>6, Zenon DEF StaticCall, salt
  <2> PICK single : single /\ StaticCall(t, types) = Body(salt, t, types, single)
    BY <2>2
  <2>3. Fine(Body(salt, t, types, single), T, w) /\ (single => Alone(Body(salt, t, types, single)))
    BY <2>1, HeldFine DEF Ready
  <2>4. Fine(StaticCall(t, types), T, w) /\ Alone(StaticCall(t, types))
    BY <2>3
  <2> QED BY <2>4 DEF t
<1> QED BY <1>5, <1>6

LEMMA MethodFine ==
  ASSUME NEW T, NEW w, Ready(T, w), NEW base, NEW n, NEW args, Arguments(args)
  PROVE  Fine(MethodCall(base, n, args), T, w) /\ Alone(MethodCall(base, n, args))
<1> DEFINE types == Types(args)
           types2 == <<env[base]>> \o types
           ti == resolveForTargetClass(<<n>>, Classes(types2), env[base].name, callSite)
           ts == resolveForTargetClass(<<n>>, Classes(types), <<base>>, callSite)
<1>1. Sequence(types) /\ AllKept(types, T)
  BY TypesKept DEF Ready
<1>2. MethodCall(base, n, args) =
        IF base \in DOMAIN env THEN IF env[base].k # "class" THEN Refused ELSE InstanceCall(ti, types2)
        ELSE IF <<base>> \notin ClassNames(registry) THEN Refused ELSE StaticCall(ts, types)
  BY DEF MethodCall
<1>3. CASE base \in DOMAIN env
  <2> DEFINE ty == env[base]
  <2>1. Kept(ty, T)
    BY <1>3 DEF Ready, EnvKept
  <2> HIDE DEF ty, types
  <2>2. Sequence(<<ty>> \o types) /\ AllKept(<<ty>> \o types, T) /\ <<ty>> \o types # <<>>
    BY <1>1, <2>1, PrefixedKept
  <2> DEFINE given == <<ty>> \o types
             classes == Classes(given)
             c == ty.name
  <2>3. Sequence(given) /\ AllKept(given, T) /\ given # <<>>
    BY <2>2
  <2> HIDE DEF given, classes, c
  <2>4. /\ Fine(InstanceCall(resolveForTargetClass(<<n>>, classes, c, callSite), given), T, w)
        /\ Alone(InstanceCall(resolveForTargetClass(<<n>>, classes, c, callSite), given))
    BY <2>3, InstanceFine
  <2>5. Fine(InstanceCall(ti, types2), T, w) /\ Alone(InstanceCall(ti, types2))
    BY <2>4 DEF given, classes, c, ty
  <2> HIDE DEF ti, types2
  <2> QED BY <1>2, <1>3, <2>5, RefusedFine
<1>4. CASE base \notin DOMAIN env
  <2> DEFINE classes == Classes(types)
             c == <<base>>
  <2>1. Fine(StaticCall(ts, types), T, w) /\ Alone(StaticCall(ts, types))
    <3> HIDE DEF types, classes, c
    <3>1. /\ Fine(StaticCall(resolveForTargetClass(<<n>>, classes, c, callSite), types), T, w)
          /\ Alone(StaticCall(resolveForTargetClass(<<n>>, classes, c, callSite), types))
      BY <1>1, StaticFine
    <3> QED BY <3>1 DEF classes, c
  <2> HIDE DEF ts, types
  <2> QED BY <1>2, <1>4, <2>1, RefusedFine
<1> QED BY <1>3, <1>4

LEMMA SuperFine ==
  ASSUME NEW T, NEW w, Ready(T, w), NEW n, NEW parent, NEW args, Arguments(args)
  PROVE  Fine(lowerSuperCall(n, parent, args), T, w) /\ Alone(lowerSuperCall(n, parent, args))
<1> DEFINE types == Types(args)
           tc == resolve(parent, <<>>, callSite)
           ti == resolveForTargetClass(<<n>>, Classes(types), parent, callSite)
           classes == Classes(types)
<1>1. Sequence(types) /\ AllKept(types, T) /\ Len(types) = Len(args)
  BY TypesKept DEF Ready
<1>2. args # <<>> => types # <<>>
  <2>1. Len(args) \in Nat /\ args \in Seq({args[i] : i \in DOMAIN args})
    BY SequenceFacts DEF Arguments, Sequence
  <2>2. args # <<>> => Len(args) # 0
    <3> DEFINE S == {args[i] : i \in DOMAIN args}
    <3> HIDE DEF S
    <3>1. args \in Seq(S)
      BY <2>1 DEF S
    <3> QED BY <3>1, EmptySeq
  <2>3. Len(<<>>) = 0
    OBVIOUS
  <2> QED BY <1>1, <2>2, <2>3
<1>3. lowerSuperCall(n, parent, args) =
        IF parent \notin ClassNames(registry) THEN Refused
        ELSE IF ~classHasMethod(registry, parent, <<n>>) THEN SuperConstructor(tc, n, args)
        ELSE IF args = <<>> THEN Refused ELSE InstanceCall(ti, types)
  BY DEF lowerSuperCall
<1>4. Fine(SuperConstructor(tc, n, args), T, w) /\ Alone(SuperConstructor(tc, n, args))
  <2>1. CASE n \notin DOMAIN env \/ tc.k # "classConstructor"
    <3>1. SuperConstructor(tc, n, args) = Refused
      BY <2>1 DEF SuperConstructor
    <3> QED BY <3>1, RefusedFine
  <2>2. CASE n \in DOMAIN env /\ tc.k = "classConstructor"
    <3> DEFINE ty == env[n]
    <3>1. Indexed /\ Listings
      BY DEF Ready, Program
    <3>2. Function(tc.class, tc.ast, tc.file) \in Held
      BY <2>2, <3>1, ConstructorTold
    <3>3. Kept(ty, T)
      BY <2>2 DEF Ready, EnvKept
    <3>4. SuperConstructor(tc, n, args) = Body(tc.class, tc, <<ty>> \o types, TRUE)
      BY <2>2 DEF SuperConstructor
    <3> HIDE DEF tc, ty, types
    <3>5. /\ Fine(Body(tc.class, tc, <<ty>> \o types, TRUE), T, w)
          /\ Alone(Body(tc.class, tc, <<ty>> \o types, TRUE))
      BY <1>1, <3>2, <3>3, ConstructorFine DEF Ready
    <3> QED BY <3>4, <3>5
  <2> QED BY <2>1, <2>2
<1>5. args # <<>> => Fine(InstanceCall(ti, types), T, w) /\ Alone(InstanceCall(ti, types))
  <2> SUFFICES ASSUME args # <<>>
               PROVE  Fine(InstanceCall(ti, types), T, w) /\ Alone(InstanceCall(ti, types))
    OBVIOUS
  <2>1. types # <<>>
    BY <1>2
  <2> HIDE DEF types, classes
  <2>2. /\ Fine(InstanceCall(resolveForTargetClass(<<n>>, classes, parent, callSite), types), T, w)
        /\ Alone(InstanceCall(resolveForTargetClass(<<n>>, classes, parent, callSite), types))
    BY <1>1, <2>1, InstanceFine
  <2> QED BY <2>2 DEF classes
<1> HIDE DEF tc, ti, types
<1> QED BY <1>3, <1>4, <1>5, RefusedFine

\* Whatever a statement calls, its body is one the project or a handle holds, and
\* is asked for values that are numbers, objects and handles made before.
LEMMA CalleeFine ==
  ASSUME NEW T, NEW w, Ready(T, w), w => KeepsCaptures, AtStatement(Calls), frame.pc \in DOMAIN frame.ast.body,
         Written(stmt)
  PROVE  Fine(Callee, T, w) /\ Fits(Callee)
<1> DEFINE args == stmt.args
           n == stmt.name
<1>1. stmt.k \in Calls /\ status = "lowering"
  BY DEF AtStatement, Lowering
<1>2. Arguments(args) /\ Sequence(stmt.targets)
  BY <1>1 DEF Written
<1>10. Len(stmt.targets) <= 1 \/ (stmt.k = "call" /\ stmt.form = "multi")
  BY <1>1 DEF Written
<1>3. CASE ~Lowers(args)
  <2>1. Callee = Refused
    BY <1>3 DEF Callee
  <2> QED BY <2>1, RefusedFine, RefusedFits
<1>4. CASE Lowers(args) /\ stmt.k = "call" /\ stmt.form = "expr"
  <2>9. Len(stmt.targets) <= 1
    BY <1>10, <1>4
  <2>1. Callee = Expression(n, args)
    BY <1>4 DEF Callee
  <2> HIDE DEF n, args
  <2>2. Fine(Expression(n, args), T, w) /\ Alone(Expression(n, args))
    BY <1>2, ExpressionFine
  <2> QED BY <2>1, <2>2, <2>9, AloneFits
<1>5. CASE Lowers(args) /\ stmt.k = "call" /\ stmt.form = "bare"
  <2>1. Callee = Bare(n, args)
    BY <1>5 DEF Callee
  <2>2. stmt.targets = <<>>
    BY <1>1, <1>5 DEF Written
  <2> HIDE DEF n, args
  <2>3. Fine(Bare(n, args), T, w) /\ Fits(Bare(n, args))
    BY <1>2, <2>2, BareFine
  <2> QED BY <2>1, <2>3
<1>6. CASE Lowers(args) /\ stmt.k = "call" /\ stmt.form = "multi"
  <2> DEFINE t == StatementTarget(n)
             targets == stmt.targets
  <2>1. Callee = lowerMultiAssignCall(t, args, targets)
    BY <1>6 DEF Callee
  <2>2. w /\ n \in DOMAIN env /\ env[n].k = "handle" => env[n].captures = <<>>
    BY <1>1, <1>6 DEF KeepsCaptures
  <2>3. t.k = "userFunction" => Fine(Body(<<t.name>>, t, Types(args), FALSE), T, w) /\ Made(<<t.name>>, t.ast, t.file, T, Held)
    <3> SUFFICES ASSUME t.k = "userFunction"
                 PROVE  Fine(Body(<<t.name>>, t, Types(args), FALSE), T, w) /\ Made(<<t.name>>, t.ast, t.file, T, Held)
      OBVIOUS
    <3> HIDE DEF n, args
    <3>1. \E single : single = FALSE
      OBVIOUS
    <3> PICK single : single = FALSE
      BY <3>1
    <3>2. Fine(Body(<<t.name>>, t, Types(args), single), T, w) /\ Made(<<t.name>>, t.ast, t.file, T, Held)
      BY <1>2, <2>2, StatementTargetFine
    <3>3. single = FALSE
      OBVIOUS
    <3> QED BY <3>2, <3>3, Zenon
  <2>4. stmt.targets = targets /\ Sequence(targets)
    BY <1>2
  <2> HIDE DEF t, args, targets
  <2>5. Fine(lowerMultiAssignCall(t, args, targets), T, w) /\ Fits(lowerMultiAssignCall(t, args, targets))
    BY <2>3, <2>4, MultiFine
  <2> QED BY <2>1, <2>5
<1>7. CASE Lowers(args) /\ stmt.k = "method"
  <2>9. Len(stmt.targets) <= 1
    BY <1>10, <1>7
  <2> DEFINE base == stmt.base
  <2>1. Callee = MethodCall(base, n, args)
    BY <1>7 DEF Callee
  <2> HIDE DEF n, args, base
  <2>2. Fine(MethodCall(base, n, args), T, w) /\ Alone(MethodCall(base, n, args))
    BY <1>2, MethodFine
  <2> QED BY <2>1, <2>2, <2>9, AloneFits
<1>8. CASE Lowers(args) /\ stmt.k = "super"
  <2>9. Len(stmt.targets) <= 1
    BY <1>10, <1>8
  <2> DEFINE parent == stmt.parent
  <2>1. Callee = lowerSuperCall(n, parent, args)
    BY <1>8 DEF Callee
  <2> HIDE DEF n, args, parent
  <2>2. Fine(lowerSuperCall(n, parent, args), T, w) /\ Alone(lowerSuperCall(n, parent, args))
    BY <1>2, SuperFine
  <2> QED BY <2>1, <2>2, <2>9, AloneFits
<1>9. stmt.k = "call" => stmt.form \in {"expr", "bare", "multi"}
  BY DEF Written
<1> QED BY <1>1, <1>3, <1>4, <1>5, <1>6, <1>7, <1>8, <1>9 DEF Calls

-----------------------------------------------------------------------------
(* What a key tells.                                                        *)

LEMMA HandleFacts ==
  ASSUME NEW target, NEW captures
  PROVE  LET h == Handle(target, captures)
         IN  /\ h.k = "handle" /\ h.target = target /\ h.captures = captures
             /\ h = Handle(h.target, h.captures)
             /\ h.canon.k = "handle" /\ h.canon.target = handleTargetId(target)
BY DEF Handle

\* The values there are: each is told by its canonical form.
LEMMA CanonTells ==
  ASSUME Program, status # "loading", NEW T, Handles(T, Held, anonCounter),
         NEW a, Kept(a, T), NEW b, Kept(b, T), canonicalizeType(a) = canonicalizeType(b)
  PROVE  a = b
<1>1. \A h \in T : h.k = "handle" /\ h.canon.k = "handle" /\ h.canon.target = handleTargetId(h.target)
  <2> SUFFICES ASSUME NEW h \in T
               PROVE  h.k = "handle" /\ h.canon.k = "handle" /\ h.canon.target = handleTargetId(h.target)
    OBVIOUS
  <2> DEFINE target == h.target
             captures == h.captures
             g == Handle(target, captures)
  <2>1. h = g
    BY HandleKinds
  <2>2. g.k = "handle" /\ g.canon.k = "handle" /\ g.canon.target = handleTargetId(target)
    <3> HIDE DEF target, captures
    <3> QED BY HandleFacts
  <2> QED BY <2>1, <2>2
<1>2. \A x : Kept(x, T) => (x \in T /\ x.k = "handle") \/ (x.k # "handle" /\ canonicalizeType(x) = x)
  BY <1>1 DEF Kept, canonicalizeType
<1>3. \A x : x.k = "handle" => canonicalizeType(x) = x.canon
  BY DEF canonicalizeType
<1>4. CASE a.k # "handle" \/ b.k # "handle"
  BY <1>1, <1>2, <1>3, <1>4
<1>5. CASE a \in T /\ b \in T
  <2> DEFINE s == a.target
             t == b.target
  <2>1. handleTargetId(s) = handleTargetId(t)
    BY <1>1, <1>3, <1>5
  <2>2. /\ s.k = "userFunc" => handleTargetId(s) = <<"userFunc", s.file, s.name>>
        /\ s.k = "builtin" => handleTargetId(s) = <<"builtin", s.name>>
        /\ s.k = "anonymous" => handleTargetId(s) = <<"anonymous", s.name>>
    BY DEF handleTargetId
  <2>3. /\ t.k = "userFunc" => handleTargetId(t) = <<"userFunc", t.file, t.name>>
        /\ t.k = "builtin" => handleTargetId(t) = <<"builtin", t.name>>
        /\ t.k = "anonymous" => handleTargetId(t) = <<"anonymous", t.name>>
    BY DEF handleTargetId
  <2>4. /\ a = Handle(s, a.captures) /\ b = Handle(t, b.captures)
        /\ \/ s.k = "userFunc" /\ UserHandle(a, Held)
           \/ s.k = "builtin" /\ BuiltinHandle(a)
           \/ s.k = "anonymous" /\ Anonymous(a, T, anonCounter)
        /\ \/ t.k = "userFunc" /\ UserHandle(b, Held)
           \/ t.k = "builtin" /\ BuiltinHandle(b)
           \/ t.k = "anonymous" /\ Anonymous(b, T, anonCounter)
    BY <1>5, HandleKinds
  <2>5. s.k = t.k
    <3>1. \A x, y, u, v, z : <<x, y, z>>[1] = x /\ <<u, v>>[1] = u
      OBVIOUS
    <3> HIDE DEF s, t
    <3>2. handleTargetId(s)[1] = s.k
      BY <2>2, <2>4, <3>1
    <3>3. handleTargetId(t)[1] = t.k
      BY <2>3, <2>4, <3>1
    <3> QED BY <2>1, <3>2, <3>3
  <2>6. CASE s.k = "anonymous"
    <3> HIDE DEF s, t
    <3>1. <<"anonymous", s.name>> = <<"anonymous", t.name>>
      BY <2>1, <2>2, <2>3, <2>5, <2>6
    <3>2. s.name = t.name
      BY <3>1
    <3> QED BY <1>5, <2>5, <2>6, <3>2 DEF Handles, s, t
  <2>7. CASE s.k = "builtin"
    <3>1. a.captures = <<>> /\ b.captures = <<>> /\ s = [k |-> "builtin", name |-> s.name]
          /\ t = [k |-> "builtin", name |-> t.name]
      BY <2>4, <2>5, <2>7 DEF BuiltinHandle
    <3> HIDE DEF s, t
    <3>2. <<"builtin", s.name>> = <<"builtin", t.name>>
      BY <2>1, <2>2, <2>3, <2>5, <2>7
    <3>3. s.name = t.name
      BY <3>2
    <3> QED BY <2>4, <3>1, <3>3
  <2>8. CASE s.k = "userFunc"
    <3>1. /\ a.captures = <<>> /\ b.captures = <<>>
          /\ s = [k |-> s.k, name |-> s.name, file |-> s.file, ast |-> s.ast]
          /\ t = [k |-> t.k, name |-> t.name, file |-> t.file, ast |-> t.ast]
          /\ Function(<<s.name>>, s.ast, s.file) \in Held /\ Function(<<t.name>>, t.ast, t.file) \in Held
      BY <2>4, <2>5, <2>8 DEF UserHandle, Pure
    <3> HIDE DEF s, t
    <3>2. <<"userFunc", s.file, s.name>> = <<"userFunc", t.file, t.name>>
      BY <2>1, <2>2, <2>3, <2>5, <2>8
    <3>3. s.name = t.name /\ s.file = t.file
      BY <3>2
    <3> DEFINE f == Function(<<s.name>>, s.ast, s.file)
               g == Function(<<t.name>>, t.ast, t.file)
    <3>4. f.salt = g.salt /\ f.file = g.file /\ f.ast = s.ast /\ g.ast = t.ast
      BY <3>3 DEF Function
    <3>5. f \in Held /\ g \in Held
      BY <3>1
    <3> HIDE DEF f, g
    <3>6. f = g
      BY <3>4, <3>5 DEF Program, ToldApart
    <3>7. s = t
      BY <2>5, <3>1, <3>3, <3>4, <3>6
    <3> QED BY <2>4, <3>1, <3>7
  <2> QED BY <2>4, <2>6, <2>7, <2>8
<1> QED BY <1>2, <1>4, <1>5

\* Types of the same canonical form are the same types.
LEMMA ArgsTell ==
  ASSUME Program, status # "loading", NEW T, Handles(T, Held, anonCounter),
         NEW a, Sequence(a), AllKept(a, T), NEW b, Sequence(b), AllKept(b, T),
         [i \in DOMAIN a |-> canonicalizeType(a[i])] = [i \in DOMAIN b |-> canonicalizeType(b[i])]
  PROVE  a = b
<1> DEFINE f == [i \in DOMAIN a |-> canonicalizeType(a[i])]
           g == [i \in DOMAIN b |-> canonicalizeType(b[i])]
<1>1. DOMAIN f = DOMAIN a /\ DOMAIN g = DOMAIN b
  OBVIOUS
<1>2. DOMAIN a = DOMAIN b
  BY <1>1
<1>3. \A i \in DOMAIN a : f[i] = canonicalizeType(a[i])
  OBVIOUS
<1>4. \A i \in DOMAIN b : g[i] = canonicalizeType(b[i])
  OBVIOUS
<1>5. f = g
  OBVIOUS
<1> HIDE DEF f, g
<1>6. \A i \in DOMAIN a : a[i] = b[i]
  <2> SUFFICES ASSUME NEW i \in DOMAIN a
               PROVE  a[i] = b[i]
    OBVIOUS
  <2> DEFINE x == a[i]
             y == b[i]
  <2>1. Kept(x, T) /\ Kept(y, T)
    BY <1>2 DEF AllKept
  <2>2. canonicalizeType(x) = canonicalizeType(y)
    BY <1>2, <1>3, <1>4, <1>5
  <2> HIDE DEF x, y
  <2>3. x = y
    BY <2>1, <2>2, CanonTells
  <2> QED BY <2>3 DEF x, y
<1>7. a = [i \in DOMAIN a |-> a[i]] /\ b = [i \in DOMAIN b |-> b[i]]
  <2>1. \A s : Sequence(s) => s = [i \in DOMAIN s |-> s[i]]
    <3> SUFFICES ASSUME NEW s, Sequence(s)
                 PROVE  s = [i \in DOMAIN s |-> s[i]]
      OBVIOUS
    <3> DEFINE S == {s[i] : i \in DOMAIN s}
    <3>1. s \in Seq(S)
      BY DEF Sequence
    <3> HIDE DEF S
    <3> QED BY <3>1
  <2> QED BY <2>1
<1> QED BY <1>2, <1>6, <1>7

\* The name a body is lowered under and the place of its file tell the body.
LEMMA MadeTells ==
  ASSUME Program, status # "loading", NEW T, Handles(T, Held, anonCounter), NEW salt,
         anonCounter \in Nat, NEW a, NEW f, Made(salt, a, f, T, Held), NEW b, NEW g, Made(salt, b, g, T, Held), f.dir = g.dir, f.base = g.base
  PROVE  a = b /\ f = g
<1> DEFINE x == Function(salt, a, f)
           y == Function(salt, b, g)
<1>1. x.salt = salt /\ y.salt = salt /\ x.ast = a /\ y.ast = b /\ x.file = f /\ y.file = g
  BY DEF Function
<1> HIDE DEF x, y
<1>2. Made(salt, a, f, T, Held) = (x \in Held \/ \E h \in T : h.target.k = "anonymous" /\ salt = <<h.target.name>>
                                                        /\ a = h.target.ast /\ f = h.target.file)
  BY DEF Made, x
<1>3. Made(salt, b, g, T, Held) = (y \in Held \/ \E h \in T : h.target.k = "anonymous" /\ salt = <<h.target.name>>
                                                        /\ b = h.target.ast /\ g = h.target.file)
  BY DEF Made, y
<1>4. CASE x \in Held /\ y \in Held
  <2>1. x = y
    BY <1>1, <1>4 DEF Program, ToldApart
  <2> QED BY <1>1, <2>1
<1>5. \A h \in T : h.target.k = "anonymous" => \A z \in Held : z.salt # <<h.target.name>>
  <2> SUFFICES ASSUME NEW h \in T, h.target.k = "anonymous", NEW z \in Held
               PROVE  z.salt # <<h.target.name>>
    OBVIOUS
  <2>1. Anonymous(h, T, anonCounter)
    BY HandleKinds
  <2>2. PICK i \in Nat : i < anonCounter /\ h.target.name = "anon_" \o ToString(i)
    BY <2>1 DEF Anonymous
  <2>3. \A j \in 0 .. anonCounter : z.salt # <<"anon_" \o ToString(j)>>
    BY DEF Program, ToldApart
  <2> DEFINE name == "anon_" \o ToString(i)
  <2>4. z.salt # <<name>>
    <3>1. anonCounter \in Int => i \in 0 .. anonCounter
      BY <2>2
    <3>2. anonCounter \in Int
      OBVIOUS
    <3> QED BY <2>3, <3>1, <3>2
  <2> QED BY <2>2, <2>4
<1>6. \A s, t : <<s>> = <<t>> => s = t
  OBVIOUS
<1>7. ASSUME NEW h \in T, h.target.k = "anonymous", salt = <<h.target.name>>, a = h.target.ast, f = h.target.file,
             NEW i \in T, i.target.k = "anonymous", salt = <<i.target.name>>, b = i.target.ast, g = i.target.file
      PROVE  a = b /\ f = g
  <2>1. h.target.name = i.target.name
    BY <1>6, <1>7
  <2>2. h = i
    BY <1>7, <2>1 DEF Handles
  <2> QED BY <1>7, <2>2
<1> QED BY <1>1, <1>2, <1>3, <1>4, <1>5, <1>7

-----------------------------------------------------------------------------
(* The inductive invariant.                                                 *)

\* A body being lowered, and one that has been, under the key k.
FrameFine(f, T, H) ==
  /\ Text(f.ast) /\ f.pc \in Nat \ {0}
  /\ Sequence(f.args) /\ AllKept(f.args, T)
  /\ \A n \in DOMAIN f.env : Kept(f.env[n], T)
  /\ IF f.key = Script THEN "scope" \notin DOMAIN f.ast ELSE Made(f.key.name, f.ast, f.file, T, H)
CachedFine(k, x, T, H) ==
  /\ Sequence(x.args) /\ AllKept(x.args, T)
  /\ Made(k.name, x.ast, x.file, T, H)
  /\ Sequence(x.outputs) /\ DOMAIN x.outputs = DOMAIN x.ast.outputs /\ AllKept(x.outputs, T)

\* A body that begins sees the variables around an anonymous function as they were.
Seen(f) ==
  "scope" \in DOMAIN f.ast =>
    \A n \in (Mentioned(f.ast.body[1]) \cap DOMAIN f.ast.scope) \ Range(f.ast.own) :
      f.pc = 1 => n \in DOMAIN f.env /\ f.env[n] = f.ast.scope[n]

\* T: the handles made so far.
Sound(T, w) ==
  /\ anonCounter \in Nat
  /\ Handles(T, Held, anonCounter)
  /\ w => \A h \in T : Takes(h)
  /\ \A i \in DOMAIN stack : FrameFine(stack[i], T, Held) /\ (w => Seen(stack[i]))
  /\ \A k \in DOMAIN cache : CachedFine(k, cache[k], T, Held)
  /\ status = "loading" => T = {} /\ DOMAIN cache = {} /\ called = {}
  /\ status # "loading" => unread = <<>> /\ Indexed
  /\ RunsItsOwnBody

LEMMA SeenIsMeant == CapturesMeanTheSame <=> \A i \in DOMAIN stack : Seen(stack[i])
BY DEF CapturesMeanTheSame, Seen

LEMMA HeldStays ==
  ASSUME UNCHANGED wsVars
  PROVE  Held' = Held /\ (Indexed => Indexed') /\ unread' = unread
<1>1. project' = project /\ registry' = registry /\ index' = index /\ unread' = unread
  BY DEF wsVars
<1>2. Held' = Held
  BY <1>1 DEF Held, NamedFiles, FirstFunction, ClassFunctions, mainFile
<1>3. Indexed => Indexed'
  BY <1>1 DEF Indexed, mainFile
<1> QED BY <1>1, <1>2, <1>3

\* More handles.
LEMMA KeptGrows ==
  ASSUME NEW T, NEW U, T \subseteq U
  PROVE  /\ \A x : Kept(x, T) => Kept(x, U)
         /\ \A s : AllKept(s, T) => AllKept(s, U)
         /\ \A s, a, f, H : Made(s, a, f, T, H) => Made(s, a, f, U, H)
BY DEF Kept, AllKept, Made

LEMMA FrameGrows ==
  ASSUME NEW T, NEW U, T \subseteq U, NEW f, NEW H, FrameFine(f, T, H)
  PROVE  FrameFine(f, U, H)
BY KeptGrows DEF FrameFine

LEMMA CachedGrows ==
  ASSUME NEW T, NEW U, T \subseteq U, NEW k, NEW x, NEW H, CachedFine(k, x, T, H)
  PROVE  CachedFine(k, x, U, H)
BY KeptGrows DEF CachedFine

LEMMA AnonymousGrows ==
  ASSUME NEW T, NEW U, T \subseteq U, NEW h, NEW m \in Nat, NEW n \in Nat, m <= n, Anonymous(h, T, m)
  PROVE  Anonymous(h, U, n)
<1>1. \A i \in Nat : i < m => i < n
  OBVIOUS
<1> QED BY <1>1, KeptGrows DEF Anonymous

\* A body that has moved on.
LEMMA TopFine ==
  ASSUME NEW T, NEW U, T \subseteq U, NEW H, NEW was, FrameFine(was, T, H),
         NEW top, top.key = was.key, top.ast = was.ast, top.file = was.file, top.args = was.args,
         top.pc \in Nat \ {0, 1}, \A n \in DOMAIN top.env : Kept(top.env[n], U)
  PROVE  FrameFine(top, U, H) /\ Seen(top)
BY KeptGrows DEF FrameFine, Seen

LEMMA StackMovesOn ==
  ASSUME NEW T, NEW w, Sound(T, w), IInv, Lowering, NEW U, T \subseteq U,
         NEW top, stack' = [stack EXCEPT ![Len(stack)] = top],
         top.key = frame.key, top.ast = frame.ast, top.file = frame.file, top.args = frame.args,
         top.pc \in Nat \ {0, 1}, \A n \in DOMAIN top.env : Kept(top.env[n], U)
  PROVE  \A i \in DOMAIN stack' : FrameFine(stack'[i], U, Held) /\ (w => Seen(stack'[i]))
<1> DEFINE n == Len(stack)
           H == Held
<1>1. n \in DOMAIN stack /\ frame = stack[n]
  BY FrameIsTop DEF IInv
<1>2. DOMAIN stack' = DOMAIN stack /\ \A i \in DOMAIN stack : stack'[i] = IF i = n THEN top ELSE stack[i]
  <2>1. stack = [i \in DOMAIN stack |-> stack[i]]
    <3> DEFINE S == {stack[i] : i \in DOMAIN stack}
    <3>1. stack \in Seq(S)
      BY DEF IInv, WellStacked, Sequence
    <3> HIDE DEF S
    <3> QED BY <3>1
  <2> QED BY <2>1
<1> HIDE DEF n, H
<1> DEFINE was == frame
<1>3. FrameFine(was, T, H)
  BY <1>1 DEF Sound, H
<1>4. top.key = was.key /\ top.ast = was.ast /\ top.file = was.file /\ top.args = was.args
  OBVIOUS
<1> HIDE DEF was
<1>5. FrameFine(top, U, H) /\ Seen(top)
  BY <1>3, <1>4, TopFine
<1>6. \A i \in DOMAIN stack : FrameFine(stack[i], U, H) /\ (w => Seen(stack[i]))
  <2> TAKE i \in DOMAIN stack
  <2> DEFINE f == stack[i]
  <2>1. FrameFine(f, T, H) /\ (w => Seen(f))
    BY DEF Sound, H
  <2> HIDE DEF f
  <2>2. FrameFine(f, U, H)
    BY <2>1, FrameGrows
  <2> QED BY <2>1, <2>2 DEF f
<1>7. \A i \in DOMAIN stack : FrameFine(stack'[i], U, H) /\ (w => Seen(stack'[i]))
  <2> TAKE i \in DOMAIN stack
  <2>1. CASE i = n
    BY <1>2, <1>5, <2>1
  <2>2. CASE i # n
    BY <1>2, <1>6, <2>2
  <2> QED BY <2>1, <2>2
<1> QED BY <1>2, <1>7 DEF H

\* The variables of a body after a statement, and where it begins.
LEMMA AssignedKept ==
  ASSUME NEW T, EnvKept(T), NEW targets, Sequence(targets), NEW types, DOMAIN targets \subseteq DOMAIN types,
         AllKept(types, T)
  PROVE  \A n \in DOMAIN Assigned(targets, types) : Kept(Assigned(targets, types)[n], T)
<1> DEFINE these == Range(targets) \ {"~"}
           at(n) == {i \in DOMAIN targets : targets[i] = n}
           e == Assigned(targets, types)
<1>1. e = [n \in these \cup DOMAIN env |-> IF n \in these THEN types[Max(at(n))] ELSE env[n]]
  BY DEF Assigned
<1>2. \A n \in these : Max(at(n)) \in DOMAIN targets
  <2> TAKE n \in these
  <2>1. DOMAIN targets = 1 .. Len(targets) /\ Len(targets) \in Nat
    BY SequenceFacts
  <2>2. at(n) \in SUBSET (1 .. Len(targets)) /\ at(n) # {}
    BY <2>1 DEF Range
  <2> DEFINE S == at(n)
  <2>3. S \in SUBSET (1 .. Len(targets)) /\ S # {}
    BY <2>2
  <2> HIDE DEF S
  <2>4. Max(S) \in S
    BY <2>1, <2>3, GreatestOf
  <2> QED BY <2>4 DEF S
<1> HIDE DEF at, these, e
<1>3. DOMAIN e = these \cup DOMAIN env /\ \A n \in these \cup DOMAIN env : e[n] = IF n \in these THEN types[Max(at(n))] ELSE env[n]
  BY <1>1
<1>4. \A n \in DOMAIN e : Kept(e[n], T)
  <2> TAKE n \in DOMAIN e
  <2>1. CASE n \in these
    <3>1. e[n] = types[Max(at(n))] /\ Max(at(n)) \in DOMAIN types
      BY <1>2, <1>3, <2>1
    <3> QED BY <3>1 DEF AllKept
  <2>2. CASE n \notin these
    BY <1>3, <2>2 DEF EnvKept
  <2> QED BY <2>1, <2>2
<1> QED BY <1>4 DEF e

Beginning(params, args) == [p \in Range(params) |-> args[Max({i \in DOMAIN params : params[i] = p})]]

LEMMA BeginsKept ==
  ASSUME NEW T, NEW params, Sequence(params), NEW args, Sequence(args), AllKept(args, T), Len(args) = Len(params)
  PROVE  LET e == Beginning(params, args)
         IN  /\ \A n \in DOMAIN e : Kept(e[n], T) /\ e[n] = args[Max(Places(params, n))]
             /\ DOMAIN e = Range(params)
<1> DEFINE at(n) == Places(params, n)
           e == Beginning(params, args)
<1>1. e = [p \in Range(params) |-> args[Max(at(p))]]
  BY DEF Places, Beginning
<1>2. \A n \in Range(params) : Max(at(n)) \in DOMAIN args
  <2> TAKE n \in Range(params)
  <2>1. DOMAIN params = 1 .. Len(params) /\ Len(params) \in Nat /\ DOMAIN args = 1 .. Len(args)
    BY SequenceFacts
  <2>2. at(n) \in SUBSET (1 .. Len(params)) /\ at(n) # {}
    BY <2>1 DEF Range, Places
  <2> DEFINE S == at(n)
  <2>3. S \in SUBSET (1 .. Len(params)) /\ S # {}
    BY <2>2
  <2> HIDE DEF S
  <2>4. Max(S) \in S
    BY <2>1, <2>3, GreatestOf
  <2>5. Max(S) \in DOMAIN args
    BY <2>1, <2>3, <2>4
  <2> QED BY <2>5 DEF S
<1> HIDE DEF at, e
<1>3. DOMAIN e = Range(params) /\ \A n \in Range(params) : e[n] = args[Max(at(n))]
  BY <1>1
<1>4. \A n \in Range(params) : Kept(args[Max(at(n))], T)
  BY <1>2 DEF AllKept
<1> QED BY <1>3, <1>4 DEF e, at

-----------------------------------------------------------------------------
(* The steps.                                                               *)

LEMMA FrameSound ==
  ASSUME NEW T, NEW w, Sound(T, w), IInv, Program, Lowering
  PROVE  /\ Ready(T, w) /\ FrameFine(frame, T, Held) /\ (w => Seen(frame))
         /\ Fields \subseteq DOMAIN frame
         /\ frame.pc <= Len(frame.ast.body) => frame.pc \in DOMAIN frame.ast.body /\ Written(stmt)
<1>1. Len(stack) \in DOMAIN stack /\ frame = stack[Len(stack)]
  BY FrameIsTop DEF IInv
<1>2. FrameFine(frame, T, Held) /\ (w => Seen(frame)) /\ Fields \subseteq DOMAIN frame
  BY <1>1 DEF Sound, IInv, WellStacked
<1>3. EnvKept(T)
  BY <1>2 DEF FrameFine, EnvKept, env
<1>4. Ready(T, w)
  BY <1>3 DEF Ready, Sound, Lowering
<1>5. ASSUME frame.pc <= Len(frame.ast.body)
      PROVE  frame.pc \in DOMAIN frame.ast.body /\ Written(stmt)
  <2> DEFINE body == frame.ast.body
             pc == frame.pc
  <2>1. Sequence(body) /\ pc \in Nat \ {0} /\ pc <= Len(body) /\ \A i \in DOMAIN body : Written(body[i])
    BY <1>2, <1>5 DEF FrameFine, Text
  <2>2. stmt = body[pc]
    BY DEF stmt
  <2> HIDE DEF body, pc
  <2>3. Len(body) \in Nat /\ DOMAIN body = 1 .. Len(body)
    BY <2>1, SequenceFacts
  <2>4. pc \in DOMAIN body
    BY <2>1, <2>3
  <2> QED BY <2>1, <2>2, <2>4 DEF body, pc
<1> QED BY <1>2, <1>4, <1>5

LEMMA AdvanceSound ==
  ASSUME NEW T, NEW w, Sound(T, w), IInv, Program, Lowering, NEW U, T \subseteq U,
         NEW targets, Sequence(targets), NEW types, DOMAIN targets \subseteq DOMAIN types, AllKept(types, U),
         Advance(targets, types)
  PROVE  \A i \in DOMAIN stack' : FrameFine(stack'[i], U, Held) /\ (w => Seen(stack'[i]))
<1> DEFINE e == Assigned(targets, types)
           top == [frame EXCEPT !.pc = frame.pc + 1, !.env = e]
<1>1. EnvKept(U)
  BY FrameSound, KeptGrows DEF Ready, EnvKept
<1>2. \A n \in DOMAIN e : Kept(e[n], U)
  BY <1>1, AssignedKept
<1> HIDE DEF e
<1>3. frame.pc \in Nat \ {0} /\ Fields \subseteq DOMAIN frame
  BY FrameSound DEF FrameFine
<1>4. frame.pc + 1 \in Nat \ {0, 1}
  BY <1>3
<1>5. /\ top.key = frame.key /\ top.ast = frame.ast /\ top.file = frame.file /\ top.args = frame.args
      /\ top.pc = frame.pc + 1 /\ top.env = e
  BY <1>3 DEF Fields
<1>6. stack' = [stack EXCEPT ![Len(stack)] = top]
  BY DEF Advance, e
<1> HIDE DEF top
<1> QED BY <1>2, <1>4, <1>5, <1>6, StackMovesOn

\* A statement that is done, when no body was found for a call.
LEMMA CalledKeeps ==
  ASSUME RunsItsOwnBody, called' = called \/ \E c : called' = called \cup {Noted(c, {})}
  PROVE  RunsItsOwnBody'
<1>1. \A d \in called' : d \in called \/ d.got = {}
  BY NotedFacts
<1> SUFFICES ASSUME NEW d \in called', NEW spec \in d.got
             PROVE  spec.ast = d.asked.ast /\ spec.file = d.asked.file /\ spec.args = d.asked.args
  BY DEF RunsItsOwnBody
<1> QED BY <1>1 DEF RunsItsOwnBody

LEMMA StatementSound ==
  ASSUME NEW T, NEW w, Sound(T, w), Lowering, UNCHANGED <<cache, status>>, NEW U, T \subseteq U,
         anonCounter' \in Nat, Handles(U, Held, anonCounter'), w => \A h \in U : Takes(h),
         \A i \in DOMAIN stack' : FrameFine(stack'[i], U, Held) /\ (w => Seen(stack'[i])),
         RunsItsOwnBody'
  PROVE  Sound(U, w)'
<1>1. Held' = Held /\ unread' = unread /\ (Indexed => Indexed')
  BY HeldStays DEF Lowering
<1>2. status' # "loading" /\ status # "loading"
  BY DEF Lowering
<1>3. \A k \in DOMAIN cache : CachedFine(k, cache[k], U, Held)
  <2> TAKE k \in DOMAIN cache
  <2> DEFINE x == cache[k]
             H == Held
  <2>1. CachedFine(k, x, T, H)
    BY DEF Sound
  <2> HIDE DEF x, H
  <2>2. CachedFine(k, x, U, H)
    BY <2>1, CachedGrows
  <2> QED BY <2>2 DEF x, H
<1>4. unread' = <<>> /\ Indexed'
  BY <1>1, <1>2 DEF Sound
<1> QED BY <1>1, <1>2, <1>3, <1>4 DEF Sound

\* No handle is made.
LEMMA PlainSound ==
  ASSUME NEW T, NEW w, Sound(T, w), Lowering, UNCHANGED <<cache, status, anonCounter>>,
         \A i \in DOMAIN stack' : FrameFine(stack'[i], T, Held) /\ (w => Seen(stack'[i])),
         RunsItsOwnBody'
  PROVE  Sound(T, w)'
<1>1. anonCounter' \in Nat /\ Handles(T, Held, anonCounter') /\ (w => \A h \in T : Takes(h))
  BY DEF Sound
<1> QED BY <1>1, StatementSound

LEMMA OneListed ==
  ASSUME NEW x
  PROVE  Sequence(<<x>>) /\ DOMAIN <<x>> = {1} /\ <<x>>[1] = x /\ Len(<<x>>) = 1
<1>1. <<x>> \in Seq({x}) /\ DOMAIN <<x>> = {1} /\ <<x>>[1] = x /\ Len(<<x>>) = 1
  OBVIOUS
<1> QED BY <1>1, OwnElements

LEMMA NoneListed == Sequence(<<>>) /\ DOMAIN <<>> = {} /\ Len(<<>>) = 0
<1>1. <<>> \in Seq({}) /\ DOMAIN <<>> = {} /\ Len(<<>>) = 0
  BY EmptySeq
<1> QED BY <1>1, OwnElements

LEMMA SetSound ==
  ASSUME NEW T, NEW w, Sound(T, w), IInv, Program, LowerSet
  PROVE  Sound(T, w)'
<1>1. /\ Lowering /\ stmt.k = "set" /\ frame.pc <= Len(frame.ast.body)
      /\ Advance(<<stmt.target>>, <<ArgType(stmt.value)>>)
      /\ UNCHANGED <<cache, status, anonCounter, called>>
  BY DEF LowerSet, AtStatement, shared
<1> DEFINE x == stmt.value
           args == <<x>>
           ty == ArgType(x)
           n == stmt.target
<1>2. Arguments(args) /\ EnvKept(T)
  BY <1>1, FrameSound DEF Written, Ready
<1>3. Kept(ty, T)
  <2>1. AllKept(Types(args), T)
    <3> HIDE DEF args
    <3> QED BY <1>2, TypesKept
  <2>2. DOMAIN args = {1} /\ args[1] = x
    BY OneListed
  <2>3. Types(args) = [i \in DOMAIN args |-> ArgType(args[i])]
    BY DEF Types
  <2> HIDE DEF args, x
  <2>4. 1 \in DOMAIN Types(args) /\ Types(args)[1] = ArgType(x)
    BY <2>2, <2>3
  <2>5. Kept(Types(args)[1], T)
    BY <2>1, <2>4 DEF AllKept
  <2> QED BY <2>4, <2>5
<1> HIDE DEF x, args, ty, n
<1>4. Sequence(<<n>>) /\ DOMAIN <<n>> \subseteq DOMAIN <<ty>> /\ AllKept(<<ty>>, T)
  BY <1>3, OneListed DEF AllKept
<1>5. Advance(<<n>>, <<ty>>)
  BY <1>1 DEF n, ty, x
<1> DEFINE targets == <<n>>
           types == <<ty>>
<1>6. Sequence(targets) /\ DOMAIN targets \subseteq DOMAIN types /\ AllKept(types, T) /\ Advance(targets, types)
  BY <1>4, <1>5
<1> HIDE DEF targets, types
<1>7. \A i \in DOMAIN stack' : FrameFine(stack'[i], T, Held) /\ (w => Seen(stack'[i]))
  BY <1>1, <1>6, AdvanceSound
<1>8. RunsItsOwnBody'
  BY <1>1, CalledKeeps DEF Sound
<1> QED BY <1>1, <1>7, <1>8, PlainSound

LEMMA StopSound ==
  ASSUME NEW T, NEW w, Sound(T, w), IInv, Program, LowerStop
  PROVE  Sound(T, w)'
<1>1. /\ Lowering /\ frame.pc <= Len(frame.ast.body)
      /\ Advance(<<>>, <<>>) \/ stack' = [stack EXCEPT ![Len(stack)].pc = Len(frame.ast.body) + 1]
      /\ UNCHANGED <<cache, status, anonCounter, called>>
  BY DEF LowerStop, AtStatement, shared
<1>2. \A i \in DOMAIN stack' : FrameFine(stack'[i], T, Held) /\ (w => Seen(stack'[i]))
  <2>1. CASE Advance(<<>>, <<>>)
    <3> DEFINE none == <<>>
    <3>1. Sequence(none) /\ DOMAIN none \subseteq DOMAIN none /\ AllKept(none, T) /\ Advance(none, none)
      BY <2>1, NoneListed DEF AllKept
    <3> HIDE DEF none
    <3> QED BY <1>1, <3>1, AdvanceSound
  <2>2. CASE stack' = [stack EXCEPT ![Len(stack)].pc = Len(frame.ast.body) + 1]
    <3> DEFINE q == Len(frame.ast.body) + 1
               top == [frame EXCEPT !.pc = q]
    <3>1. /\ FrameFine(frame, T, Held) /\ Fields \subseteq DOMAIN frame
          /\ frame.pc \in DOMAIN frame.ast.body
      BY <1>1, FrameSound
    <3>2. q \in Nat \ {0, 1}
      <4> DEFINE body == frame.ast.body
                 pc == frame.pc
      <4>1. Sequence(body) /\ pc \in Nat \ {0} /\ pc <= Len(body)
        BY <1>1, <3>1 DEF FrameFine, Text
      <4> HIDE DEF body, pc
      <4>2. Len(body) \in Nat
        BY <4>1, SequenceFacts
      <4>3. Len(body) + 1 \in Nat \ {0, 1}
        BY <4>1, <4>2
      <4> QED BY <4>3 DEF body
    <3>3. frame = stack[Len(stack)] /\ Len(stack) \in DOMAIN stack
      BY <1>1, FrameIsTop DEF IInv
    <3> HIDE DEF q
    <3>4. stack' = [stack EXCEPT ![Len(stack)] = top]
      BY <2>2, <3>3 DEF q
    <3>5. /\ top.key = frame.key /\ top.ast = frame.ast /\ top.file = frame.file /\ top.args = frame.args
          /\ top.pc = q /\ top.env = frame.env
      BY <3>1 DEF Fields
    <3>6. \A n \in DOMAIN top.env : Kept(top.env[n], T)
      BY <3>1, <3>5 DEF FrameFine
    <3> HIDE DEF top
    <3> QED BY <1>1, <3>2, <3>4, <3>5, <3>6, StackMovesOn
  <2> QED BY <1>1, <2>1, <2>2
<1>3. RunsItsOwnBody'
  BY <1>1, CalledKeeps DEF Sound
<1> QED BY <1>1, <1>2, <1>3, PlainSound

LEMMA RejectSound ==
  ASSUME NEW T, NEW w, Sound(T, w), Lowering, Reject
  PROVE  Sound(T, w)'
<1>1. stack' = <<>> /\ status' = "rejected" /\ UNCHANGED <<cache, anonCounter, called>>
  BY DEF Reject
<1>2. Held' = Held /\ unread' = unread /\ (Indexed => Indexed')
  BY HeldStays DEF Lowering
<1>3. RunsItsOwnBody'
  BY <1>1, CalledKeeps DEF Sound
<1>4. DOMAIN stack' = {}
  BY <1>1, NoneListed
<1>5. status # "loading" /\ status' # "loading"
  BY <1>1 DEF Lowering
<1>6. unread' = <<>> /\ Indexed'
  BY <1>2, <1>5 DEF Sound
<1> QED BY <1>1, <1>2, <1>3, <1>4, <1>5, <1>6 DEF Sound

LEMMA BuiltinSound ==
  ASSUME NEW T, NEW w, Sound(T, w), IInv, Program, w => KeepsCaptures, LowerBuiltin
  PROVE  Sound(T, w)'
<1> DEFINE c == Callee
<1>1. /\ Lowering /\ AtStatement(Calls) /\ frame.pc <= Len(frame.ast.body) /\ stmt.k \in Calls
      /\ c.k = "value" /\ Len(stmt.targets) <= 1 /\ Advance(stmt.targets, <<c.ty>>)
      /\ called' = called \cup {Noted(c, {})} /\ UNCHANGED <<cache, status, anonCounter>>
  BY DEF LowerBuiltin, AtStatement, shared
<1>2. Ready(T, w) /\ frame.pc \in DOMAIN frame.ast.body /\ Written(stmt)
  BY <1>1, FrameSound
<1>3. Fine(c, T, w)
  BY <1>1, <1>2, CalleeFine
<1> HIDE DEF c
<1>4. Kept(c.ty, T)
  BY <1>1, <1>3 DEF Fine
<1> DEFINE targets == stmt.targets
           ty == c.ty
           types == <<ty>>
<1>5. Sequence(targets)
  BY <1>1, <1>2 DEF Written
<1>6. Advance(targets, types) /\ Len(targets) <= 1
  BY <1>1
<1>7. DOMAIN types = {1} /\ types[1] = ty
  OBVIOUS
<1> HIDE DEF targets, ty, types
<1>8. DOMAIN targets \subseteq DOMAIN types
  <2>1. Len(targets) \in Nat /\ DOMAIN targets = 1 .. Len(targets)
    BY <1>5, SequenceFacts
  <2> QED BY <1>6, <1>7, <2>1
<1>9. AllKept(types, T)
  BY <1>4, <1>7 DEF AllKept, ty
<1>10. \A i \in DOMAIN stack' : FrameFine(stack'[i], T, Held) /\ (w => Seen(stack'[i]))
  <2>1. \A x, y : Sequence(x) /\ DOMAIN x \subseteq DOMAIN y /\ AllKept(y, T) /\ Advance(x, y)
                    => \A i \in DOMAIN stack' : FrameFine(stack'[i], T, Held) /\ (w => Seen(stack'[i]))
    BY <1>1, AdvanceSound
  <2> QED BY <1>5, <1>6, <1>8, <1>9, <2>1
<1>11. RunsItsOwnBody'
  <2>1. \E x : called' = called \cup {Noted(x, {})}
    BY <1>1
  <2> QED BY <2>1, CalledKeeps DEF Sound
<1> QED BY <1>1, <1>10, <1>11, PlainSound

\* What is in the cache under the key of a call is what the call asks for.
LEMMA CacheTells ==
  ASSUME NEW T, NEW w, Sound(T, w), IInv, Program, Lowering,
         NEW c, Fine(c, T, w), c.k = "body", Key(c) \in DOMAIN cache
  PROVE  LET spec == cache[Key(c)]
         IN  /\ spec.ast = c.ast /\ spec.file = c.file /\ spec.args = c.args
             /\ CachedFine(Key(c), spec, T, Held)
<1> DEFINE key == Key(c)
           spec == cache[key]
<1>1. key.name = c.salt /\ MadeFor(key, c.file, c.args)
  BY KeyIsNoScript DEF Key, mangleSpecName
<1>2. MadeFor(key, spec.file, spec.args) /\ CachedFine(key, spec, T, Held)
  BY DEF IInv, WellEmitted, Sound
<1>3. Made(c.salt, c.ast, c.file, T, Held) /\ Sequence(c.args) /\ AllKept(c.args, T)
  BY DEF Fine
<1>4. /\ <<spec.file.dir, spec.file.base>> = <<c.file.dir, c.file.base>>
      /\ [i \in DOMAIN spec.args |-> canonicalizeType(spec.args[i])] = [i \in DOMAIN c.args |-> canonicalizeType(c.args[i])]
  BY <1>1, <1>2 DEF MadeFor
<1> DEFINE a == spec.ast
           f == spec.file
           b == c.ast
           g == c.file
           salt == c.salt
           as == spec.args
           bs == c.args
<1>5. /\ Made(salt, a, f, T, Held) /\ Made(salt, b, g, T, Held)
      /\ Sequence(as) /\ AllKept(as, T) /\ Sequence(bs) /\ AllKept(bs, T)
  BY <1>1, <1>2, <1>3 DEF CachedFine
<1>6. /\ <<f.dir, f.base>> = <<g.dir, g.base>>
      /\ [i \in DOMAIN as |-> canonicalizeType(as[i])] = [i \in DOMAIN bs |-> canonicalizeType(bs[i])]
  BY <1>4
<1>7. status # "loading" /\ Handles(T, Held, anonCounter) /\ anonCounter \in Nat
  BY DEF Lowering, Sound
<1> HIDE DEF a, f, b, g, salt, as, bs
<1>8. f.dir = g.dir /\ f.base = g.base
  BY <1>6
<1>9. a = b /\ f = g
  BY <1>5, <1>7, <1>8, MadeTells
<1>10. as = bs
  BY <1>5, <1>6, <1>7, ArgsTell
<1> QED BY <1>2, <1>9, <1>10 DEF a, f, b, g, as, bs

LEMMA NotedAst ==
  ASSUME NEW c, NEW got, c.k = "body"
  PROVE  Noted(c, got).got = got /\ Noted(c, got).asked.ast = c.ast /\ Noted(c, got).asked.file = c.file
         /\ Noted(c, got).asked.args = c.args
<1> DEFINE a == [ast |-> c.ast, file |-> c.file, args |-> c.args]
<1>1. a.ast = c.ast
  OBVIOUS
<1>2. Noted(c, got).asked = a
  BY DEF Noted
<1> QED BY <1>1, <1>2, NotedFacts

LEMMA CallSound ==
  ASSUME NEW T, NEW w, Sound(T, w), IInv, Program, w => KeepsCaptures, LowerCall
  PROVE  Sound(T, w)'
<1> DEFINE c == Callee
           spec == cache[Key(c)]
<1>1. /\ Lowering /\ AtStatement(Calls) /\ frame.pc <= Len(frame.ast.body) /\ stmt.k \in Calls
      /\ c.k = "body" /\ Key(c) \in DOMAIN cache
      /\ IF c.single /\ Len(spec.outputs) # 1 THEN Reject
         ELSE /\ Advance(stmt.targets, spec.outputs)
              /\ called' = called \cup {Noted(c, {spec})}
              /\ UNCHANGED <<shared, status>>
  BY DEF LowerCall, AtStatement
<1>2. Ready(T, w) /\ frame.pc \in DOMAIN frame.ast.body /\ Written(stmt)
  BY <1>1, FrameSound
<1>3. Fine(c, T, w) /\ Fits(c)
  BY <1>1, <1>2, CalleeFine
<1> HIDE DEF c
<1>4. /\ spec.ast = c.ast /\ spec.file = c.file /\ spec.args = c.args
      /\ CachedFine(Key(c), spec, T, Held)
  BY <1>1, <1>3, CacheTells
<1> HIDE DEF spec
<1>5. CASE Reject
  BY <1>1, <1>5, RejectSound
<1>6. CASE /\ ~(c.single /\ Len(spec.outputs) # 1)
           /\ Advance(stmt.targets, spec.outputs)
           /\ called' = called \cup {Noted(c, {spec})}
           /\ UNCHANGED <<cache, status, anonCounter>>
  <2> DEFINE targets == stmt.targets
             types == spec.outputs
  <2>1. Sequence(targets) /\ Advance(targets, types)
    BY <1>1, <1>2, <1>6 DEF Written
  <2>2. Sequence(types) /\ DOMAIN types = DOMAIN c.ast.outputs /\ AllKept(types, T)
    BY <1>4 DEF CachedFine
  <2>3. (c.single /\ Len(targets) <= 1) \/ DOMAIN targets \subseteq DOMAIN c.ast.outputs
    BY <1>1, <1>3 DEF Fits
  <2>4. c.single => Len(types) = 1
    BY <1>6
  <2> HIDE DEF targets, types
  <2>5. DOMAIN targets \subseteq DOMAIN types
    <3>1. Len(targets) \in Nat /\ DOMAIN targets = 1 .. Len(targets) /\ DOMAIN types = 1 .. Len(types)
      BY <2>1, <2>2, SequenceFacts
    <3>2. CASE c.single /\ Len(targets) <= 1
      BY <2>4, <3>1, <3>2
    <3>3. CASE DOMAIN targets \subseteq DOMAIN c.ast.outputs
      BY <2>2, <3>3
    <3> QED BY <2>3, <3>2, <3>3
  <2>6. \A i \in DOMAIN stack' : FrameFine(stack'[i], T, Held) /\ (w => Seen(stack'[i]))
    <3>1. \A x, y : Sequence(x) /\ DOMAIN x \subseteq DOMAIN y /\ AllKept(y, T) /\ Advance(x, y)
                      => \A i \in DOMAIN stack' : FrameFine(stack'[i], T, Held) /\ (w => Seen(stack'[i]))
      BY <1>1, AdvanceSound
    <3> QED BY <2>1, <2>2, <2>5, <3>1
  <2>7. RunsItsOwnBody'
    <3> DEFINE new == Noted(c, {spec})
    <3>1. new.got = {spec} /\ new.asked.ast = c.ast /\ new.asked.file = c.file /\ new.asked.args = c.args
      BY <1>1, NotedAst
    <3>2. called' = called \cup {new}
      BY <1>6
    <3> HIDE DEF new
    <3> SUFFICES ASSUME NEW d \in called', NEW x \in d.got
                 PROVE  x.ast = d.asked.ast /\ x.file = d.asked.file /\ x.args = d.asked.args
      BY DEF RunsItsOwnBody
    <3>3. CASE d \in called
      BY <3>3 DEF Sound, RunsItsOwnBody
    <3>4. CASE d = new
      BY <1>4, <3>1, <3>4
    <3> QED BY <3>2, <3>3, <3>4
  <2> QED BY <1>1, <1>6, <2>6, <2>7, PlainSound
<1> QED BY <1>1, <1>5, <1>6 DEF shared

\* A body that begins.
LEMMA BeginSound ==
  ASSUME Program, status # "loading", NEW T, Handles(T, Held, anonCounter), NEW w, NEW c, c.k = "body", Fine(c, T, w)
  PROVE  FrameFine(NewFrame(c), T, Held) /\ (w => Seen(NewFrame(c)))
<1> DEFINE params == c.ast.params
           args == c.args
           e == Beginning(params, args)
           f == NewFrame(c)
<1>1. /\ Made(c.salt, c.ast, c.file, T, Held) /\ Sequence(c.args) /\ AllKept(c.args, T)
      /\ Len(c.args) = Len(c.ast.params) /\ (w => Sight(c.ast, c.args))
  BY DEF Fine
<1>2. Text(c.ast)
  <2> DEFINE salt == c.salt
             ast == c.ast
             file == c.file
  <2>1. Made(salt, ast, file, T, Held)
    BY <1>1
  <2> HIDE DEF salt, ast, file
  <2>2. Text(ast)
    BY <2>1, MadeText
  <2> QED BY <2>2 DEF ast
<1>3. Sequence(params) /\ Sequence(args) /\ AllKept(args, T) /\ Len(args) = Len(params)
  BY <1>1, <1>2 DEF Text
<1>4. (\A n \in DOMAIN e : Kept(e[n], T) /\ e[n] = args[Max(Places(params, n))]) /\ DOMAIN e = Range(params)
  <2> HIDE DEF params, args
  <2> QED BY <1>3, BeginsKept
<1>5. /\ f.key = Key(c) /\ f.ast = c.ast /\ f.file = c.file /\ f.args = args /\ f.pc = 1 /\ f.env = e
  BY DEF NewFrame, Beginning
<1>6. f.key # Script /\ f.key.name = c.salt
  BY <1>5, KeyIsNoScript DEF Key, mangleSpecName
<1> HIDE DEF f, e
<1>7. FrameFine(f, T, Held)
  BY <1>1, <1>2, <1>3, <1>4, <1>5, <1>6 DEF FrameFine
<1>8. w => Seen(f)
  <2> SUFFICES ASSUME w, "scope" \in DOMAIN f.ast,
                      NEW n \in (Mentioned(f.ast.body[1]) \cap DOMAIN f.ast.scope) \ Range(f.ast.own)
               PROVE  n \in DOMAIN f.env /\ f.env[n] = f.ast.scope[n]
    BY DEF Seen
  <2>1. n \in Range(params) /\ args[Max(Places(params, n))] = c.ast.scope[n]
    BY <1>1, <1>5 DEF Sight
  <2> QED BY <1>4, <1>5, <2>1
<1> QED BY <1>7, <1>8 DEF f

LEMMA SpecializeSound ==
  ASSUME NEW T, NEW w, Sound(T, w), IInv, Program, w => KeepsCaptures, Specialize
  PROVE  Sound(T, w)'
<1> DEFINE c == Callee
           top == NewFrame(c)
<1>1. /\ Lowering /\ AtStatement(Calls) /\ frame.pc <= Len(frame.ast.body) /\ stmt.k \in Calls
      /\ c.k = "body"
      /\ Reject \/ (stack' = Append(stack, top) /\ UNCHANGED <<cache, status, anonCounter, called>>)
  BY DEF Specialize, AtStatement
<1>2. Ready(T, w) /\ frame.pc \in DOMAIN frame.ast.body /\ Written(stmt)
  BY <1>1, FrameSound
<1>3. Fine(c, T, w)
  BY <1>1, <1>2, CalleeFine
<1>4. CASE Reject
  BY <1>1, <1>4, RejectSound
<1>5. CASE stack' = Append(stack, top) /\ UNCHANGED <<cache, status, anonCounter, called>>
  <2>1. FrameFine(top, T, Held) /\ (w => Seen(top))
    <3> HIDE DEF c
    <3> QED BY <1>1, <1>2, <1>3, BeginSound DEF Ready
  <2> HIDE DEF c, top
  <2>2. \A i \in DOMAIN stack' : FrameFine(stack'[i], T, Held) /\ (w => Seen(stack'[i]))
    <3> DEFINE n == Len(stack)
    <3>1. /\ n \in Nat /\ DOMAIN stack = 1 .. n /\ DOMAIN stack' = 1 .. n + 1
          /\ \A i \in 1 .. n : stack'[i] = stack[i]
          /\ stack'[n + 1] = top
      BY <1>5, AppendFacts, SequenceFacts DEF IInv, WellStacked
    <3> HIDE DEF n
    <3>2. \A i \in 1 .. n + 1 : i \in 1 .. n \/ i = n + 1
      BY <3>1
    <3>3. \A i \in 1 .. n : FrameFine(stack'[i], T, Held) /\ (w => Seen(stack'[i]))
      BY <3>1 DEF Sound
    <3> QED BY <2>1, <3>1, <3>2, <3>3
  <2>3. RunsItsOwnBody'
    BY <1>5, CalledKeeps DEF Sound
  <2> QED BY <1>1, <1>5, <2>2, <2>3, PlainSound
<1> QED BY <1>1, <1>4, <1>5

\* A body that ends: all its outputs have a value.
LEMMA EndSound ==
  ASSUME NEW T, NEW H, NEW f, FrameFine(f, T, H), f.key # Script, \A i \in DOMAIN f.ast.outputs : f.ast.outputs[i] \in DOMAIN f.env,
         NEW x, x = [ast |-> f.ast, file |-> f.file, args |-> f.args,
                     outputs |-> [i \in DOMAIN f.ast.outputs |-> f.env[f.ast.outputs[i]]]]
  PROVE  CachedFine(f.key, x, T, H)
<1> DEFINE names == f.ast.outputs
           outs == [i \in DOMAIN names |-> f.env[names[i]]]
<1>1. Sequence(names) /\ Sequence(f.args) /\ AllKept(f.args, T) /\ Made(f.key.name, f.ast, f.file, T, H)
  BY DEF FrameFine, Text
<1>2. \A i \in DOMAIN names : Kept(f.env[names[i]], T)
  BY DEF FrameFine
<1>3. x.ast = f.ast /\ x.file = f.file /\ x.args = f.args /\ x.outputs = outs
  OBVIOUS
<1>4. DOMAIN outs = DOMAIN names /\ \A i \in DOMAIN names : outs[i] = f.env[names[i]]
  OBVIOUS
<1>5. Sequence(outs)
  <2> HIDE DEF names
  <2>1. Len(names) \in Nat /\ DOMAIN names = 1 .. Len(names)
    BY <1>1, SequenceFacts
  <2>2. outs = [i \in 1 .. Len(names) |-> outs[i]]
    BY <2>1
  <2> HIDE DEF outs
  <2> QED BY <2>1, <2>2, Listed
<1>6. AllKept(outs, T)
  BY <1>2, <1>4 DEF AllKept
<1> HIDE DEF outs
<1> QED BY <1>1, <1>3, <1>4, <1>5, <1>6 DEF CachedFine

LEMMA FinishSound ==
  ASSUME NEW T, NEW w, Sound(T, w), IInv, Program, Finish
  PROVE  Sound(T, w)'
<1>1. Lowering /\ frame.key # Script
  BY DEF Finish
<1>2. CASE Reject
  BY <1>1, <1>2, RejectSound
<1>3. CASE ~Reject
  <2> DEFINE key == frame.key
             made == [ast |-> frame.ast, file |-> frame.file, args |-> frame.args,
                      outputs |-> [i \in DOMAIN frame.ast.outputs |-> env[frame.ast.outputs[i]]]]
  <2>1. /\ cache' = [k \in DOMAIN cache \cup {key} |-> IF k = key THEN made ELSE cache[k]]
        /\ stack' = Front(stack)
        /\ UNCHANGED <<status, called, anonCounter>>
        /\ \A i \in DOMAIN frame.ast.outputs : frame.ast.outputs[i] \in DOMAIN env
    BY <1>1, <1>3 DEF Finish
  <2>2. FrameFine(frame, T, Held)
    BY <1>1, FrameSound
  <2>3. CachedFine(key, made, T, Held)
    <3> DEFINE f == frame
               x == made
               H == Held
    <3>1. FrameFine(f, T, H) /\ f.key # Script /\ \A i \in DOMAIN f.ast.outputs : f.ast.outputs[i] \in DOMAIN f.env
      BY <1>1, <2>1, <2>2 DEF env
    <3>2. x = [ast |-> f.ast, file |-> f.file, args |-> f.args,
               outputs |-> [i \in DOMAIN f.ast.outputs |-> f.env[f.ast.outputs[i]]]]
      BY DEF env
    <3> HIDE DEF f, x, H
    <3>3. CachedFine(f.key, x, T, H)
      BY <3>1, <3>2, EndSound
    <3> QED BY <3>3 DEF f, x, H
  <2> HIDE DEF key, made
  <2>4. \A k \in DOMAIN cache' : CachedFine(k, cache'[k], T, Held)
    <3> TAKE k \in DOMAIN cache'
    <3>1. CASE k = key
      <4>1. cache'[k] = made
        BY <2>1, <3>1
      <4> QED BY <2>3, <3>1, <4>1
    <3>2. CASE k # key
      <4>1. k \in DOMAIN cache /\ cache'[k] = cache[k]
        BY <2>1, <3>2
      <4> QED BY <4>1 DEF Sound
    <3> QED BY <3>1, <3>2
  <2>5. \A i \in DOMAIN stack' : FrameFine(stack'[i], T, Held) /\ (w => Seen(stack'[i]))
    <3> DEFINE n == Len(stack)
    <3>1. /\ n \in Nat \ {0} /\ DOMAIN stack = 1 .. n /\ DOMAIN stack' = 1 .. n - 1
          /\ \A i \in 1 .. n - 1 : stack'[i] = stack[i]
      BY <1>1, <2>1, FrameIsTop, FrontFacts DEF IInv, WellStacked
    <3> HIDE DEF n
    <3>2. \A i \in 1 .. n - 1 : i \in 1 .. n
      BY <3>1
    <3> QED BY <3>1, <3>2 DEF Sound
  <2>6. RunsItsOwnBody'
    BY <2>1, CalledKeeps DEF Sound
  <2>7. Held' = Held /\ unread' = unread /\ (Indexed => Indexed')
    BY <1>1, HeldStays DEF Lowering
  <2>8. status # "loading" /\ status' = status
    BY <1>1, <2>1 DEF Lowering
  <2>9. unread' = <<>> /\ Indexed'
    BY <2>7, <2>8 DEF Sound
  <2>10. anonCounter' \in Nat /\ Handles(T, Held, anonCounter') /\ (w => \A h \in T : Takes(h))
    BY <2>1 DEF Sound
  <2> QED BY <2>4, <2>5, <2>6, <2>7, <2>8, <2>9, <2>10 DEF Sound
<1> QED BY <1>2, <1>3

LEMMA FinishScriptSound ==
  ASSUME NEW T, NEW w, Sound(T, w), FinishScript
  PROVE  Sound(T, w)'
<1>1. /\ Lowering /\ stack' = <<>> /\ status' = "done" /\ UNCHANGED <<cache, anonCounter, called>>
  BY DEF FinishScript, shared
<1>2. Held' = Held /\ unread' = unread /\ (Indexed => Indexed')
  BY <1>1, HeldStays DEF Lowering
<1>3. RunsItsOwnBody'
  BY <1>1, CalledKeeps DEF Sound
<1>4. DOMAIN stack' = {}
  BY <1>1, NoneListed
<1>5. status # "loading" /\ status' # "loading"
  BY <1>1 DEF Lowering
<1>6. unread' = <<>> /\ Indexed'
  BY <1>2, <1>5 DEF Sound
<1> QED BY <1>1, <1>2, <1>3, <1>4, <1>5, <1>6 DEF Sound

\* Before the files are all registered nothing has been lowered.
LEMMA LoadSound ==
  ASSUME NEW T, NEW w, Sound(T, w), IInv, Load
  PROVE  Sound(T, w)'
<1>1. unread # <<>> /\ UNCHANGED <<project, index, stack, cache, anonCounter, status, called>>
  BY DEF Load, Register, shared
<1>2. status = "loading"
  BY <1>1 DEF Sound
<1>3. T = {} /\ DOMAIN cache = {} /\ called = {} /\ DOMAIN stack = {}
  BY <1>2, NoneListed DEF Sound, IInv, WellStacked
<1>4. Handles(T, Held', anonCounter')
  BY <1>3 DEF Handles
<1>5. RunsItsOwnBody'
  BY <1>1, <1>3 DEF RunsItsOwnBody
<1> QED BY <1>1, <1>2, <1>3, <1>4, <1>5 DEF Sound

LEMMA StartSound ==
  ASSUME NEW T, NEW w, Sound(T, w), IInv, Program, Start
  PROVE  Sound(T, w)'
<1>1. /\ index = <<>> /\ unread = <<>> /\ unread' = unread /\ project' = project
      /\ index' = buildFunctionIndex(registry', mainFile)
      /\ UNCHANGED <<cache, anonCounter, called>>
  BY DEF Start, finalize, shared
<1>2. status = "loading"
  BY <1>1 DEF IInv, WellStacked
<1>3. T = {} /\ DOMAIN cache = {} /\ called = {} /\ DOMAIN stack = {} /\ stack = <<>>
  BY <1>2, NoneListed DEF Sound, IInv, WellStacked
<1>4. Handles(T, Held', anonCounter')
  BY <1>3 DEF Handles
<1>5. RunsItsOwnBody'
  BY <1>1, <1>3 DEF RunsItsOwnBody
<1>6. Indexed'
  BY <1>1 DEF Indexed, mainFile
<1>7. (status' = "rejected" /\ stack' = stack) \/ status' = "lowering"
  BY DEF Start
<1>8. \A i \in DOMAIN stack' : FrameFine(stack'[i], T, Held') /\ (w => Seen(stack'[i]))
  <2>1. CASE stack' = stack
    BY <1>3, <2>1
  <2>2. CASE stack' # stack
    <3> DEFINE ast == [name |-> "", params |-> <<>>, outputs |-> <<>>, body |-> Entry]
               script == [key |-> Script, ast |-> ast, file |-> mainFile, class |-> NoName,
                          args |-> <<>>, env |-> <<>>, pc |-> 1]
    <3>1. stack' = <<script>>
      BY <2>2 DEF Start
    <3>2. Text(ast) /\ "scope" \notin DOMAIN ast
      <4>1. ast.params = <<>> /\ ast.outputs = <<>> /\ ast.body = Entry /\ DOMAIN ast = {"name", "params", "outputs", "body"}
        OBVIOUS
      <4> HIDE DEF ast
      <4>2. Sequence(ast.params) /\ Sequence(ast.outputs) /\ Sequence(ast.body)
            /\ \A i \in DOMAIN ast.body : Written(ast.body[i])
        BY <4>1, NoneListed DEF Program
      <4> QED BY <4>1, <4>2 DEF Text
    <3> HIDE DEF ast
    <3>3. script.key = Script /\ script.ast = ast /\ script.args = <<>> /\ script.env = <<>> /\ script.pc = 1
      OBVIOUS
    <3> HIDE DEF script
    <3>4. FrameFine(script, T, Held')
      BY <3>2, <3>3, NoneListed DEF FrameFine, AllKept
    <3>5. Seen(script)
      BY <3>2, <3>3 DEF Seen
    <3>6. DOMAIN stack' = {1} /\ stack'[1] = script
      BY <3>1, OneListed
    <3> QED BY <3>4, <3>5, <3>6
  <2> QED BY <2>1, <2>2
<1> QED BY <1>1, <1>3, <1>4, <1>5, <1>6, <1>7, <1>8 DEF Sound

LEMMA StutterSound ==
  ASSUME NEW T, NEW w, Sound(T, w), UNCHANGED vars
  PROVE  Sound(T, w)'
<1>1. UNCHANGED wsVars /\ UNCHANGED <<stack, cache, anonCounter, status, called>>
  BY DEF vars, shared
<1>2. Held' = Held /\ unread' = unread /\ (Indexed => Indexed')
  BY <1>1, HeldStays
<1>3. RunsItsOwnBody'
  BY <1>1, CalledKeeps DEF Sound
<1> QED BY <1>1, <1>2, <1>3 DEF Sound

\* One handle more.
LEMMA NewHandle ==
  ASSUME NEW T, NEW H, NEW m \in Nat, Handles(T, H, m), NEW n \in Nat, m <= n, NEW h, h = Handle(h.target, h.captures),
         h.target.k # "anonymous" => UserHandle(h, H) \/ BuiltinHandle(h),
         h.target.k = "anonymous" => /\ Anonymous(h, T, n)
                                     /\ \A g \in T : g.target.k = "anonymous" => g.target.name # h.target.name
  PROVE  Handles(T \cup {h}, H, n)
<1> DEFINE U == T \cup {h}
<1>1. T \subseteq U /\ h \in U
  OBVIOUS
<1> SUFFICES Handles(U, H, n)
  OBVIOUS
<1>2. \A g \in U : g \in T \/ g = h
  OBVIOUS
<1> HIDE DEF U
<1>3. \A g \in T : g = Handle(g.target, g.captures) /\ (UserHandle(g, H) \/ BuiltinHandle(g) \/ Anonymous(g, U, n))
  <2> TAKE g \in T
  <2>1. g = Handle(g.target, g.captures) /\ (UserHandle(g, H) \/ BuiltinHandle(g) \/ Anonymous(g, T, m))
    BY DEF Handles
  <2>2. Anonymous(g, T, m) => Anonymous(g, U, n)
    BY <1>1, AnonymousGrows
  <2> QED BY <2>1, <2>2
<1>4. UserHandle(h, H) \/ BuiltinHandle(h) \/ Anonymous(h, U, n)
  <2>1. Anonymous(h, T, n) => Anonymous(h, U, n)
    BY <1>1, AnonymousGrows
  <2> QED BY <2>1
<1>5. \A f, g \in U : f.target.k = "anonymous" /\ g.target.k = "anonymous" /\ f.target.name = g.target.name => f = g
  <2> SUFFICES ASSUME NEW f \in U, NEW g \in U, f.target.k = "anonymous", g.target.k = "anonymous",
                      f.target.name = g.target.name
               PROVE  f = g
    OBVIOUS
  <2>1. CASE f \in T /\ g \in T
    BY <2>1 DEF Handles
  <2>2. CASE f = h \/ g = h
    BY <1>2, <2>2
  <2> QED BY <1>2, <2>1, <2>2
<1>6. \A g \in U : g = Handle(g.target, g.captures) /\ (UserHandle(g, H) \/ BuiltinHandle(g) \/ Anonymous(g, U, n))
  BY <1>2, <1>3, <1>4
<1> QED BY <1>5, <1>6 DEF Handles

\* @n: the function is one the project holds.
LEMMA FunctionHandleSound ==
  ASSUME NEW T, NEW w, Sound(T, w), IInv, Program, LowerFuncHandle
  PROVE  \E U : Sound(U, w)'
<1> DEFINE n == stmt.name
           name == <<n>>
           t == resolve(<<n>>, <<>>, callSite)
<1>1. /\ Lowering /\ UNCHANGED <<cache, status, anonCounter, called>>
      /\ \E h \in lowerFuncHandle(n) : Advance(<<stmt.target>>, <<h>>)
  BY DEF LowerFuncHandle, AtStatement, shared
<1> PICK h \in lowerFuncHandle(n) : Advance(<<stmt.target>>, <<h>>)
  BY <1>1
<1>2. Ready(T, w)
  BY <1>1, FrameSound
<1>3. Told(t) /\ Lone(t, <<n>>)
  <2> DEFINE classes == <<>>
             site == callSite
  <2>1. name = <<name[1]>>
    OBVIOUS
  <2> HIDE DEF name, classes, site
  <2>2. Indexed /\ Listings
    BY <1>2 DEF Ready, Program
  <2>3. Told(resolve(name, classes, site)) /\ Lone(resolve(name, classes, site), name)
    BY <2>1, <2>2, ResolveTold
  <2> QED BY <2>3 DEF name, classes, site
<1>4. lowerFuncHandle(n) = IF n \in DOMAIN env THEN {} ELSE FunctionHandle(t, n)
  BY DEF lowerFuncHandle
<1>5. h \in FunctionHandle(t, n)
  BY <1>4
<1> HIDE DEF t
<1>6. \/ t.k = "userFunction" /\ h = Handle([t EXCEPT !.k = "userFunc"], <<>>)
      \/ h = Handle([k |-> "builtin", name |-> n], <<>>)
  BY <1>5 DEF FunctionHandle
<1>7. h = Handle(h.target, h.captures) /\ h.k = "handle"
      /\ ((UserHandle(h, Held) /\ h.target.k = "userFunc") \/ (BuiltinHandle(h) /\ h.target.k = "builtin"))
  <2>1. CASE t.k = "userFunction" /\ h = Handle([t EXCEPT !.k = "userFunc"], <<>>)
    <3> DEFINE u == [t EXCEPT !.k = "userFunc"]
               none == <<>>
    <3>1. t = [k |-> "userFunction", name |-> <<n>>[1], ast |-> t.ast, file |-> t.file]
      BY <1>3, <2>1 DEF Lone
    <3>2. DOMAIN t = {"k", "name", "ast", "file"}
      BY <3>1
    <3>3. DOMAIN u = {"k", "name", "ast", "file"} /\ u.k = "userFunc" /\ u.name = t.name /\ u.ast = t.ast /\ u.file = t.file
      BY <3>2
    <3>4. u = [k |-> "userFunc", name |-> t.name, file |-> t.file, ast |-> t.ast]
      BY <3>1, <3>2
    <3>5. Function(<<t.name>>, t.ast, t.file) \in Held
      BY <1>3, <2>1 DEF Told
    <3> HIDE DEF u, none
    <3>6. h = Handle(u, none)
      BY <2>1 DEF u, none
    <3>7. h.k = "handle" /\ h.target = u /\ h.captures = none /\ h = Handle(h.target, h.captures)
      BY <3>6, HandleFacts
    <3>8. Pure(u)
      BY <3>3, <3>4 DEF Pure
    <3>9. UserHandle(h, Held)
      BY <3>3, <3>5, <3>7, <3>8 DEF UserHandle, none
    <3> QED BY <3>3, <3>7, <3>9
  <2>2. CASE h = Handle([k |-> "builtin", name |-> n], <<>>)
    <3> DEFINE u == [k |-> "builtin", name |-> n]
               none == <<>>
    <3>1. u.k = "builtin" /\ u.name = n
      OBVIOUS
    <3>2. u = [k |-> "builtin", name |-> u.name]
      OBVIOUS
    <3> HIDE DEF u, none, n
    <3>3. h = Handle(u, none)
      BY <2>2 DEF u, none
    <3>4. h.k = "handle" /\ h.target = u /\ h.captures = none /\ h = Handle(h.target, h.captures)
      BY <3>3, HandleFacts
    <3>5. BuiltinHandle(h)
      BY <3>2, <3>4 DEF BuiltinHandle, none
    <3> QED BY <3>1, <3>4, <3>5
  <2> QED BY <1>6, <2>1, <2>2
<1> DEFINE U == T \cup {h}
           H == Held
           m == anonCounter
<1>8. Handles(T, H, m) /\ m \in Nat /\ m <= m
  BY DEF Sound
<1> HIDE DEF H, m
<1>9. Handles(U, H, m)
  <2>1. h.target.k # "anonymous"
    BY <1>7
  <2> QED BY <1>7, <1>8, <2>1, NewHandle DEF H
<1>10. w => \A x \in U : Takes(x)
  <2>1. Takes(h)
    BY <1>7 DEF Takes
  <2> QED BY <2>1 DEF Sound
<1>11. \A i \in DOMAIN stack' : FrameFine(stack'[i], U, Held) /\ (w => Seen(stack'[i]))
  <2> DEFINE target == stmt.target
             targets == <<target>>
             types == <<h>>
  <2>1. Sequence(targets) /\ DOMAIN targets = {1} /\ DOMAIN types = {1} /\ types[1] = h /\ Advance(targets, types)
    <3>1. Sequence(<<target>>) /\ DOMAIN <<target>> = {1}
      <4> HIDE DEF target
      <4> QED BY OneListed
    <3> QED BY <3>1, OneListed
  <2>2. h \in U /\ T \subseteq U
    OBVIOUS
  <2> HIDE DEF U, targets, types
  <2>3. AllKept(types, U)
    BY <2>1, <2>2 DEF AllKept, Kept
  <2>4. \A x, y : Sequence(x) /\ DOMAIN x \subseteq DOMAIN y /\ AllKept(y, U) /\ Advance(x, y)
                    => \A i \in DOMAIN stack' : FrameFine(stack'[i], U, Held) /\ (w => Seen(stack'[i]))
    BY <1>1, <2>2, AdvanceSound
  <2> QED BY <2>1, <2>3, <2>4
<1>12. RunsItsOwnBody'
  BY <1>1, CalledKeeps DEF Sound
<1>13. T \subseteq U /\ anonCounter' \in Nat /\ Handles(U, Held, anonCounter')
  BY <1>1, <1>8, <1>9 DEF H, m
<1> HIDE DEF U
<1>14. Sound(U, w)'
  BY <1>1, <1>10, <1>11, <1>12, <1>13, StatementSound
<1> QED BY <1>14

\* The parameters, the results and the body of the function of an anonymous handle.
InnerCall(s, out) == [k |-> "call", form |-> "expr", name |-> s.name, args |-> s.args, targets |-> <<out>>]
InnerFunction(s, names, name, out, scope) ==
  [name |-> name, params |-> s.params \o names, outputs |-> <<out>>, body |-> <<InnerCall(s, out)>>,
   own |-> s.params, scope |-> scope]

LEMMA AnonymousText ==
  ASSUME NEW s, Arguments(s.args), Sequence(s.params), NEW names, Sequence(names), NEW name, NEW out, NEW scope
  PROVE  LET ast == InnerFunction(s, names, name, out, scope)
         IN  /\ Text(ast) /\ Len(ast.outputs) = 1 /\ "scope" \in DOMAIN ast
             /\ ast.own = s.params /\ ast.scope = scope /\ ast.params = s.params \o names
             /\ Mentioned(ast.body[1]) = Mentioned(s)
<1> DEFINE call == InnerCall(s, out)
           ast == InnerFunction(s, names, name, out, scope)
           outs == <<out>>
           body == <<call>>
           params == s.params \o names
           own == s.params
<1>1. call.k = "call" /\ call.form = "expr" /\ call.name = s.name /\ call.args = s.args /\ call.targets = outs
  BY DEF InnerCall
<1>2. /\ ast.params = params /\ ast.outputs = outs /\ ast.body = body /\ ast.own = own
      /\ ast.scope = scope /\ "scope" \in DOMAIN ast
  BY DEF InnerFunction
<1>3. Sequence(outs) /\ Len(outs) = 1 /\ Sequence(body) /\ DOMAIN body = {1} /\ body[1] = call
  BY OneListed
<1>4. Sequence(params)
  <2> HIDE DEF own
  <2>1. Sequence(own)
    BY DEF own
  <2>2. Sequence(own \o names)
    BY <2>1, ConcatFacts
  <2> QED BY <2>2 DEF own
<1> HIDE DEF outs, body, params, own, call, ast
<1>5. Written(call)
  BY <1>1, <1>3 DEF Written, Calls
<1>6. Text(ast)
  BY <1>2, <1>3, <1>4, <1>5 DEF Text
<1>7. Mentioned(ast.body[1]) = Mentioned(s)
  BY <1>1, <1>2, <1>3 DEF Mentioned
<1> QED BY <1>2, <1>3, <1>6, <1>7 DEF own, params, ast

\* What an anonymous function takes along is each of its variables once.
LEMMA Taken ==
  ASSUME NEW s, Arguments(s.args)
  PROVE  LET names == SetToSeq(collectCaptures(s))
         IN  /\ Sequence(names)
             /\ \A i, j \in DOMAIN names : names[i] = names[j] => i = j
             /\ \A i \in DOMAIN names : names[i] \in DOMAIN env /\ names[i] \notin Range(s.params)
             /\ \A n \in (Mentioned(s) \cap DOMAIN env) \ (Range(s.params) \cup Constants \cup Builtins) :
                  \E i \in DOMAIN names : names[i] = n
<1> DEFINE C == collectCaptures(s)
           names == SetToSeq(C)
<1>1. C = (Mentioned(s) \cap DOMAIN env) \ (Range(s.params) \cup Constants \cup Builtins)
  BY DEF collectCaptures
<1>2. IsFiniteSet(C)
  <2> DEFINE args == s.args
             A == ArgNames(args)
  <2>1. IsFiniteSet(A)
    <3>1. Sequence(args)
      BY DEF Arguments
    <3> HIDE DEF args
    <3> QED BY <3>1, FiniteNames
  <2>2. Mentioned(s) = {s.name} \cup A
    BY DEF Mentioned
  <2> HIDE DEF A
  <2>3. IsFiniteSet({s.name} \cup A)
    <3>1. IsFiniteSet({s.name})
      BY FS_Singleton
    <3> QED BY <2>1, <3>1, FS_Union
  <2>4. C \subseteq {s.name} \cup A
    BY <1>1, <2>2
  <2> HIDE DEF C
  <2> QED BY <2>3, <2>4, FS_Subset
<1> HIDE DEF C
<1>3. /\ Sequence(names)
      /\ \A i, j \in DOMAIN names : names[i] = names[j] => i = j
      /\ \A i \in DOMAIN names : names[i] \in C
      /\ \A x \in C : \E i \in DOMAIN names : names[i] = x
  BY <1>2, Enumerated
<1> HIDE DEF names
<1>4. \A i \in DOMAIN names : names[i] \in DOMAIN env /\ names[i] \notin Range(s.params)
  BY <1>1, <1>3
<1>5. \A n \in (Mentioned(s) \cap DOMAIN env) \ (Range(s.params) \cup Constants \cup Builtins) :
        \E i \in DOMAIN names : names[i] = n
  BY <1>1, <1>3
<1> QED BY <1>3, <1>4, <1>5 DEF names, C

\* The handle @(params) n(args) makes.
LEMMA AnonymousHandle ==
  ASSUME NEW T, EnvKept(T), anonCounter \in Nat, NEW s, Arguments(s.args), Sequence(s.params)
  PROVE  LET h == lowerAnonFunc(s)
         IN  /\ h = Handle(h.target, h.captures) /\ h.k = "handle" /\ Anonymous(h, T, anonCounter + 1)
             /\ h.target.name = "anon_" \o ToString(anonCounter)
             /\ Mentioned(s) \cap DOMAIN env \cap (Constants \cup Builtins) \subseteq Range(s.params) => Takes(h)
<1> DEFINE names == SetToSeq(collectCaptures(s))
           name == "anon_" \o ToString(anonCounter)
           out == "anonOut_" \o ToString(anonCounter)
           ast == InnerFunction(s, names, name, out, env)
           target == [k |-> "anonymous", name |-> name, file |-> frame.file, ast |-> ast]
           taken == [i \in DOMAIN names |-> [name |-> names[i], ty |-> env[names[i]]]]
           h == lowerAnonFunc(s)
<1>1. h = Handle(target, taken)
  BY DEF lowerAnonFunc, HandleOf, InnerFunction, InnerCall
<1>2. /\ Sequence(names)
      /\ \A i, j \in DOMAIN names : names[i] = names[j] => i = j
      /\ \A i \in DOMAIN names : names[i] \in DOMAIN env /\ names[i] \notin Range(s.params)
      /\ \A n \in (Mentioned(s) \cap DOMAIN env) \ (Range(s.params) \cup Constants \cup Builtins) :
           \E i \in DOMAIN names : names[i] = n
  BY Taken
<1> HIDE DEF names, name, out, h
<1>3. /\ Text(ast) /\ Len(ast.outputs) = 1 /\ "scope" \in DOMAIN ast
      /\ ast.own = s.params /\ ast.scope = env /\ ast.params = s.params \o names
      /\ Mentioned(ast.body[1]) = Mentioned(s)
  <2> DEFINE scope == env
  <2> HIDE DEF scope
  <2>1. LET text == InnerFunction(s, names, name, out, scope)
        IN  /\ Text(text) /\ Len(text.outputs) = 1 /\ "scope" \in DOMAIN text
            /\ text.own = s.params /\ text.scope = scope /\ text.params = s.params \o names
            /\ Mentioned(text.body[1]) = Mentioned(s)
    BY <1>2, AnonymousText
  <2> QED BY <2>1 DEF scope
<1> HIDE DEF ast
<1>4. DOMAIN taken = DOMAIN names /\ \A i \in DOMAIN names : taken[i].name = names[i] /\ taken[i].ty = env[names[i]]
  OBVIOUS
<1>5. Sequence(taken)
  <2>1. Len(names) \in Nat /\ DOMAIN names = 1 .. Len(names)
    BY <1>2, SequenceFacts
  <2>2. taken = [i \in 1 .. Len(names) |-> taken[i]]
    BY <2>1
  <2> HIDE DEF taken
  <2> QED BY <2>1, <2>2, Listed
<1>6. names = [i \in DOMAIN taken |-> taken[i].name]
  <2>1. names = [i \in DOMAIN names |-> names[i]]
    <3> DEFINE S == {names[i] : i \in DOMAIN names}
    <3>1. names \in Seq(S)
      BY <1>2 DEF Sequence
    <3> HIDE DEF S
    <3> QED BY <3>1
  <2> HIDE DEF taken
  <2> QED BY <1>4, <2>1
<1>7. target.k = "anonymous" /\ target.name = name /\ target.ast = ast /\ Pure(target)
  <2>1. target.k = "anonymous" /\ target.name = name /\ target.file = frame.file /\ target.ast = ast
    OBVIOUS
  <2>2. target = [k |-> target.k, name |-> target.name, file |-> target.file, ast |-> target.ast]
    BY <2>1
  <2> QED BY <2>1, <2>2 DEF Pure
<1> HIDE DEF taken, target
<1>8. h.k = "handle" /\ h.target = target /\ h.captures = taken /\ h = Handle(h.target, h.captures)
  BY <1>1, HandleFacts
<1>9. Anonymous(h, T, anonCounter + 1)
  <2>1. \E i \in Nat : i < anonCounter + 1 /\ target.name = "anon_" \o ToString(i)
    <3>1. anonCounter < anonCounter + 1
      OBVIOUS
    <3> QED BY <1>7, <3>1 DEF name
  <2>2. ast.params = ast.own \o [i \in DOMAIN taken |-> taken[i].name]
    BY <1>3, <1>6
  <2>3. \A i \in DOMAIN taken : /\ Kept(taken[i].ty, T) /\ taken[i].ty = ast.scope[taken[i].name]
                                /\ taken[i].name \notin Range(ast.own)
    BY <1>2, <1>3, <1>4 DEF EnvKept
  <2>4. \A i, j \in DOMAIN taken : taken[i].name = taken[j].name => i = j
    BY <1>2, <1>4
  <2>5. Sequence(ast.own)
    BY <1>3
  <2> QED BY <1>3, <1>5, <1>7, <1>8, <2>1, <2>2, <2>3, <2>4, <2>5 DEF Anonymous
<1>10. Mentioned(s) \cap DOMAIN env \cap (Constants \cup Builtins) \subseteq Range(s.params) => Takes(h)
  <2> SUFFICES ASSUME Mentioned(s) \cap DOMAIN env \cap (Constants \cup Builtins) \subseteq Range(s.params),
                      NEW n \in (Mentioned(ast.body[1]) \cap DOMAIN ast.scope) \ Range(ast.own)
               PROVE  \E i \in DOMAIN taken : taken[i].name = n
    BY <1>7, <1>8 DEF Takes
  <2>1. n \in (Mentioned(s) \cap DOMAIN env) \ (Range(s.params) \cup Constants \cup Builtins)
    BY <1>3
  <2> QED BY <1>2, <1>4, <2>1
<1> QED BY <1>7, <1>8, <1>9, <1>10 DEF h, name

LEMMA AnonFuncSound ==
  ASSUME NEW T, NEW w, Sound(T, w), IInv, Program, w => KeepsCaptures, LowerAnonFunc
  PROVE  \E U : Sound(U, w)'
<1> PICK h : h = lowerAnonFunc(stmt)
  OBVIOUS
<1>1. /\ Lowering /\ stmt.k = "anon" /\ frame.pc <= Len(frame.ast.body)
      /\ Advance(<<stmt.target>>, <<h>>) /\ anonCounter' = anonCounter + 1
      /\ UNCHANGED <<cache, status, called>>
  BY DEF LowerAnonFunc, AtStatement
<1>2. Ready(T, w) /\ frame.pc \in DOMAIN frame.ast.body /\ Written(stmt)
  BY <1>1, FrameSound
<1>3. Arguments(stmt.args) /\ Sequence(stmt.params) /\ EnvKept(T) /\ anonCounter \in Nat
  BY <1>1, <1>2 DEF Written, Ready, Sound
<1>4. /\ h = Handle(h.target, h.captures) /\ h.k = "handle" /\ Anonymous(h, T, anonCounter + 1)
      /\ h.target.name = "anon_" \o ToString(anonCounter)
      /\ (Mentioned(stmt) \cap DOMAIN env \cap (Constants \cup Builtins) \subseteq Range(stmt.params) => Takes(h))
  <2> DEFINE s == stmt
  <2>1. Arguments(s.args) /\ Sequence(s.params)
    BY <1>3
  <2> HIDE DEF s
  <2>2. LET g == lowerAnonFunc(s)
        IN  /\ g = Handle(g.target, g.captures) /\ g.k = "handle" /\ Anonymous(g, T, anonCounter + 1)
            /\ g.target.name = "anon_" \o ToString(anonCounter)
            /\ Mentioned(s) \cap DOMAIN env \cap (Constants \cup Builtins) \subseteq Range(s.params) => Takes(g)
    BY <1>3, <2>1, AnonymousHandle
  <2>3. h = lowerAnonFunc(s)
    BY DEF s
  <2> QED BY <2>2, <2>3 DEF s
<1>5. w => Takes(h)
  BY <1>1, <1>2, <1>4 DEF KeepsCaptures, Lowering
<1>6. \A g \in T : g.target.k = "anonymous" => g.target.name # h.target.name
  <2> SUFFICES ASSUME NEW g \in T, g.target.k = "anonymous"
               PROVE  g.target.name # h.target.name
    OBVIOUS
  <2>1. Handles(T, Held, anonCounter)
    BY DEF Sound
  <2>2. Anonymous(g, T, anonCounter)
    BY <2>1, HandleKinds
  <2>3. PICK i \in Nat : i < anonCounter /\ g.target.name = "anon_" \o ToString(i)
    BY <2>2 DEF Anonymous
  <2>4. i \in 0 .. anonCounter /\ anonCounter \in 0 .. anonCounter /\ i # anonCounter
    BY <1>3, <2>3
  <2>5. "anon_" \o ToString(i) # "anon_" \o ToString(anonCounter)
    <3>1. \A a, b \in 0 .. anonCounter : "anon_" \o ToString(a) = "anon_" \o ToString(b) => a = b
      BY <1>1 DEF Program, ToldApart, Lowering
    <3> QED BY <2>4, <3>1, Zenon
  <2> QED BY <1>4, <2>3, <2>5
<1> DEFINE U == T \cup {h}
           H == Held
           m == anonCounter
           n == anonCounter + 1
<1>7. Handles(T, H, m) /\ m \in Nat /\ n \in Nat /\ m <= n
  BY <1>3 DEF Sound
<1>8. Handles(U, H, n)
  <2>1. h.target.k = "anonymous" /\ Anonymous(h, T, n)
    BY <1>4 DEF Anonymous
  <2> HIDE DEF H, m, n
  <2> QED BY <1>4, <1>6, <1>7, <2>1, NewHandle
<1> HIDE DEF H, m
<1>9. w => \A x \in U : Takes(x)
  BY <1>5 DEF Sound
<1>10. \A i \in DOMAIN stack' : FrameFine(stack'[i], U, Held) /\ (w => Seen(stack'[i]))
  <2> DEFINE target == stmt.target
             targets == <<target>>
             types == <<h>>
  <2>1. Sequence(targets) /\ DOMAIN targets = {1} /\ DOMAIN types = {1} /\ types[1] = h /\ Advance(targets, types)
    <3>1. Sequence(<<target>>) /\ DOMAIN <<target>> = {1}
      <4> HIDE DEF target
      <4> QED BY OneListed
    <3> QED BY <1>1, <3>1, OneListed
  <2>2. h \in U /\ T \subseteq U
    OBVIOUS
  <2> HIDE DEF U, targets, types
  <2>3. AllKept(types, U)
    BY <2>1, <2>2 DEF AllKept, Kept
  <2>4. \A x, y : Sequence(x) /\ DOMAIN x \subseteq DOMAIN y /\ AllKept(y, U) /\ Advance(x, y)
                    => \A i \in DOMAIN stack' : FrameFine(stack'[i], U, Held) /\ (w => Seen(stack'[i]))
    BY <1>1, <2>2, AdvanceSound
  <2> QED BY <2>1, <2>3, <2>4
<1>11. RunsItsOwnBody'
  BY <1>1, CalledKeeps DEF Sound
<1>12. T \subseteq U /\ anonCounter' \in Nat /\ Handles(U, Held, anonCounter')
  BY <1>1, <1>7, <1>8 DEF H
<1> HIDE DEF U, n
<1>13. Sound(U, w)'
  BY <1>1, <1>9, <1>10, <1>11, <1>12, StatementSound
<1> QED BY <1>13

\* The handles made so far are somewhere.
AllSound(w) == \E T : Sound(T, w)

LEMMA NextSound ==
  ASSUME NEW w, AllSound(w), IInv, Program, w => KeepsCaptures, [Next]_vars
  PROVE  AllSound(w)'
<1> PICK T : Sound(T, w)
  BY DEF AllSound
<1> SUFFICES \E U : Sound(U, w)'
  BY DEF AllSound
<1>1. CASE Load
  BY <1>1, LoadSound
<1>2. CASE Start
  BY <1>2, StartSound
<1>3. CASE LowerSet
  BY <1>3, SetSound
<1>4. CASE LowerStop
  BY <1>4, StopSound
<1>5. CASE LowerAnonFunc
  BY <1>5, AnonFuncSound
<1>6. CASE LowerFuncHandle
  BY <1>6, FunctionHandleSound
<1>7. CASE LowerError
  <2>1. Lowering /\ Reject
    BY <1>7 DEF LowerError, AtStatement
  <2> QED BY <2>1, RejectSound
<1>8. CASE LowerBuiltin
  BY <1>8, BuiltinSound
<1>9. CASE LowerCall
  BY <1>9, CallSound
<1>10. CASE Specialize
  BY <1>10, SpecializeSound
<1>11. CASE Finish
  BY <1>11, FinishSound
<1>12. CASE FinishScript
  BY <1>12, FinishScriptSound
<1>13. CASE UNCHANGED vars
  BY <1>13, StutterSound
<1> QED BY <1>1, <1>2, <1>3, <1>4, <1>5, <1>6, <1>7, <1>8, <1>9, <1>10, <1>11, <1>12, <1>13 DEF Next, Stopped

LEMMA InitSound ==
  ASSUME NEW w, Init
  PROVE  AllSound(w)
<1>1. /\ anonCounter = 0 /\ DOMAIN stack = {} /\ DOMAIN cache = {} /\ status = "loading" /\ called = {}
  BY NoneListed DEF Init
<1>2. Handles({}, Held, anonCounter)
  BY DEF Handles
<1>3. RunsItsOwnBody
  BY <1>1 DEF RunsItsOwnBody
<1>4. Sound({}, w)
  BY <1>1, <1>2, <1>3 DEF Sound
<1> QED BY <1>4 DEF AllSound

-----------------------------------------------------------------------------
(* Where what the registry holds comes from.                                *)

\* The files beside the main one.
Besides == Range(Tail(project))

\* The name a file's place gives it, or the class folder it is in.
QualifiedName(f) ==
  LET rel == getRelativePath(f.dir)
      at == Position(rel, LAMBDA p : p[1] = "@")
  IN  IF at > 0 THEN Append(Packages(SelectSeq(SubSeq(rel, 1, at - 1), LAMBDA p : p[1] = "+")), rel[at][2])
      ELSE Append(Packages(rel), f.base)

\* The classes a project declares: those of the main file, and the first of each other.
LocalClass(d) == extractClassInfo(d, <<d.name>>, mainFile)
ClassIn(f) == extractClassInfo(f.classes[1], QualifiedName(f), f)
DeclaredClasses ==
  {LocalClass(d) : d \in Range(mainFile.classes)} \cup {ClassIn(f) : f \in {g \in Besides : g.classes # <<>>}}

\* As far as the methods in its file go, info is a declared class called n.
AsDeclared(n, info) ==
  \E d \in DeclaredClasses :
    /\ d.name = n /\ DOMAIN info = DOMAIN d
    /\ info.def = d.def /\ info.file = d.file /\ info.constructorName = d.constructorName

Named(f, n) == f \in Besides /\ QualifiedName(f) = n
FilesGiven(files) == \A n \in DOMAIN files : Named(files[n], n)
ClassesGiven(classes) == \A n \in DOMAIN classes : AsDeclared(n, classes[n])
PrivateGiven(files) == \A k \in DOMAIN files : files[k] \in Besides

GroupGiven(n, group) ==
  /\ DOMAIN group = {"def", "methods"}
  /\ group.def # <<>> => group.def = <<group.def[1]>> /\ Named(group.def[1], n)
FoldersGiven(folders) == \A n \in DOMAIN folders : GroupGiven(n, folders[n])

Filed(r) ==
  /\ DOMAIN r = DOMAIN EmptyRegistry
  /\ FilesGiven(r.filesByFuncName) /\ ClassesGiven(r.classesByName) /\ ClassesGiven(r.localClassesByName)
  /\ PrivateGiven(r.privateFilesByDir) /\ FoldersGiven(r.folders)

LEMMA FilesSet ==
  ASSUME NEW files, FilesGiven(files), NEW n, NEW f, Named(f, n)
  PROVE  FilesGiven(Set(files, n, f)) /\ FilesGiven(SetIfNew(files, n, f))
BY DEF FilesGiven, Set, SetIfNew

LEMMA ClassesSet ==
  ASSUME NEW classes, ClassesGiven(classes), NEW n, NEW info, AsDeclared(n, info)
  PROVE  ClassesGiven(SetIfNew(classes, n, info))
BY DEF ClassesGiven, Set, SetIfNew

LEMMA PrivateSet ==
  ASSUME NEW files, PrivateGiven(files), NEW k, NEW f \in Besides
  PROVE  PrivateGiven(Set(files, k, f))
BY DEF PrivateGiven, Set, SetIfNew

LEMMA FoldersSet ==
  ASSUME NEW folders, FoldersGiven(folders), NEW n, NEW group, GroupGiven(n, group)
  PROVE  FoldersGiven(Set(folders, n, group))
BY DEF FoldersGiven, Set, SetIfNew

LEMMA Maps ==
  ASSUME NEW r, Filed(r)
  PROVE  DOMAIN r = {"filesByFuncName", "fileToFuncName", "classesByName", "localClassesByName", "privateFilesByDir", "folders"}
BY DEF Filed, EmptyRegistry

LEMMA ClassFiled ==
  ASSUME NEW r, Filed(r), NEW name, NEW file, Named(file, name)
  PROVE  Filed(registerWorkspaceClass(r, name, file))
<1>1. CASE file.classes = <<>>
  <2>1. FilesGiven(Set(r.filesByFuncName, name, file))
    BY FilesSet DEF Filed
  <2>2. registerWorkspaceClass(r, name, file) = [r EXCEPT !.filesByFuncName = Set(r.filesByFuncName, name, file)]
    BY <1>1 DEF registerWorkspaceClass
  <2> QED BY <2>1, <2>2, Maps DEF Filed
<1>2. CASE file.classes # <<>>
  <2> DEFINE info == extractClassInfo(file.classes[1], name, file)
  <2>1. info \in DeclaredClasses
    BY <1>2 DEF Named, DeclaredClasses, ClassIn
  <2>2. info.name = name
    BY DEF extractClassInfo
  <2>3. registerWorkspaceClass(r, name, file) = [r EXCEPT !.classesByName = SetIfNew(r.classesByName, name, info)]
    BY <1>2 DEF registerWorkspaceClass
  <2> HIDE DEF info
  <2>4. AsDeclared(name, info)
    BY <2>1, <2>2 DEF AsDeclared
  <2>5. ClassesGiven(SetIfNew(r.classesByName, name, info))
    BY <2>4, ClassesSet DEF Filed
  <2> QED BY <2>3, <2>5, Maps DEF Filed
<1> QED BY <1>1, <1>2

LEMMA PrivateFiled ==
  ASSUME NEW r, Filed(r), NEW rel, NEW file \in Besides
  PROVE  Filed(RegisterPrivate(r, rel, file))
<1> DEFINE key == <<SubSeq(rel, 1, Position(rel, LAMBDA p : p = PRIVATE) - 1), file.base>>
<1>1. RegisterPrivate(r, rel, file) = [r EXCEPT !.privateFilesByDir = Set(r.privateFilesByDir, key, file)]
  BY DEF RegisterPrivate
<1> HIDE DEF key
<1>2. PrivateGiven(Set(r.privateFilesByDir, key, file))
  BY PrivateSet DEF Filed
<1> QED BY <1>1, <1>2, Maps DEF Filed

LEMMA FolderFiled ==
  ASSUME NEW r, Filed(r), NEW rel, NEW at, NEW file \in Besides, rel = getRelativePath(file.dir),
         at = Position(rel, LAMBDA p : p[1] = "@"), at > 0
  PROVE  Filed(RegisterInFolder(r, rel, at, file))
<1> DEFINE name == Append(Packages(SelectSeq(SubSeq(rel, 1, at - 1), LAMBDA p : p[1] = "+")), rel[at][2])
           group == IF name \in DOMAIN r.folders THEN r.folders[name] ELSE [def |-> <<>>, methods |-> <<>>]
           made == IF file.base = rel[at][2] THEN [group EXCEPT !.def = <<file>>]
                   ELSE [group EXCEPT !.methods = Append(@, file)]
<1>1. Named(file, name)
  BY DEF QualifiedName, Named
<1>2. RegisterInFolder(r, rel, at, file) = [r EXCEPT !.folders = Set(r.folders, name, made)]
  BY DEF RegisterInFolder
<1> HIDE DEF name
<1>3. GroupGiven(name, group)
  BY DEF Filed, FoldersGiven, GroupGiven
<1> HIDE DEF group
<1>4. GroupGiven(name, made)
  BY <1>1, <1>3 DEF GroupGiven
<1> HIDE DEF made
<1>5. FoldersGiven(Set(r.folders, name, made))
  BY <1>4, FoldersSet DEF Filed
<1> QED BY <1>2, <1>5, Maps DEF Filed

LEMMA NamedFiled ==
  ASSUME NEW r, Filed(r), NEW rel, NEW file \in Besides, rel = getRelativePath(file.dir),
         ~(Position(rel, LAMBDA p : p[1] = "@") > 0)
  PROVE  Filed(RegisterNamed(r, rel, file))
<1> DEFINE name == Append(Packages(rel), file.base)
           named == [r EXCEPT !.fileToFuncName = Set(@, file, name)]
<1>1. Named(file, name)
  BY DEF QualifiedName, Named
<1>2. \/ RegisterNamed(r, rel, file) = r
      \/ RegisterNamed(r, rel, file) = registerWorkspaceClass(named, name, file)
      \/ RegisterNamed(r, rel, file) = [named EXCEPT !.filesByFuncName = SetIfNew(named.filesByFuncName, name, file)]
  BY DEF RegisterNamed
<1> HIDE DEF name
<1>3. named = [r EXCEPT !.fileToFuncName = Set(r.fileToFuncName, file, name)]
  OBVIOUS
<1> HIDE DEF named
<1>4. Filed(named)
  BY <1>3, Maps DEF Filed
<1>5. Filed(registerWorkspaceClass(named, name, file))
  BY <1>1, <1>4, ClassFiled
<1>6. FilesGiven(SetIfNew(named.filesByFuncName, name, file))
  BY <1>1, <1>4, FilesSet DEF Filed
<1> QED BY <1>2, <1>4, <1>5, <1>6, Maps DEF Filed

LEMMA FileFiled ==
  ASSUME NEW r, Filed(r), NEW file \in Besides
  PROVE  Filed(registerWorkspaceFile(r, file))
<1> DEFINE rel == getRelativePath(file.dir)
           at == Position(rel, LAMBDA p : p[1] = "@")
<1>1. \/ registerWorkspaceFile(r, file) = RegisterPrivate(r, rel, file)
      \/ at > 0 /\ registerWorkspaceFile(r, file) = RegisterInFolder(r, rel, at, file)
      \/ ~(at > 0) /\ registerWorkspaceFile(r, file) = RegisterNamed(r, rel, file)
  BY DEF registerWorkspaceFile
<1>2. Filed(RegisterPrivate(r, rel, file))
  BY PrivateFiled
<1>3. at > 0 => Filed(RegisterInFolder(r, rel, at, file))
  BY FolderFiled
<1>4. ~(at > 0) => Filed(RegisterNamed(r, rel, file))
  BY NamedFiled
<1> QED BY <1>1, <1>2, <1>3, <1>4

LEMMA ClassRecord ==
  ASSUME NEW def, NEW name, NEW file
  PROVE  LET info == extractClassInfo(def, name, file)
         IN  /\ {"def", "file", "constructorName"} \subseteq DOMAIN info
             /\ info.name = name /\ info.def = def /\ info.file = file
BY DEF extractClassInfo

LEMMA DeclaredRecord ==
  ASSUME NEW d \in DeclaredClasses
  PROVE  {"def", "file", "constructorName"} \subseteq DOMAIN d
<1>1. \E def, name, file : d = extractClassInfo(def, name, file)
  BY DEF DeclaredClasses, LocalClass, ClassIn
<1> QED BY <1>1, ClassRecord

\* A class is registered under its own name.
LEMMA ClassAdds ==
  ASSUME NEW r, Filed(r), NEW name, NEW file
  PROVE  LET s == registerWorkspaceClass(r, name, file)
         IN  /\ DOMAIN s = DOMAIN r
             /\ DOMAIN r.filesByFuncName \subseteq DOMAIN s.filesByFuncName
             /\ DOMAIN s.filesByFuncName \subseteq DOMAIN r.filesByFuncName \cup {name}
             /\ DOMAIN r.classesByName \subseteq DOMAIN s.classesByName
             /\ DOMAIN s.classesByName \subseteq DOMAIN r.classesByName \cup {name}
<1> DEFINE s == registerWorkspaceClass(r, name, file)
<1>1. CASE file.classes = <<>>
  <2>1. s = [r EXCEPT !.filesByFuncName = Set(r.filesByFuncName, name, file)]
    BY <1>1 DEF registerWorkspaceClass
  <2> HIDE DEF s
  <2>2. DOMAIN s = DOMAIN r /\ DOMAIN s.filesByFuncName = DOMAIN r.filesByFuncName \cup {name} /\ s.classesByName = r.classesByName
    BY <2>1, Maps DEF Set
  <2> QED BY <2>2 DEF s
<1>2. CASE file.classes # <<>>
  <2> DEFINE info == extractClassInfo(file.classes[1], name, file)
  <2>1. s = [r EXCEPT !.classesByName = SetIfNew(r.classesByName, name, info)]
    BY <1>2 DEF registerWorkspaceClass
  <2> HIDE DEF s, info
  <2>2. DOMAIN s = DOMAIN r /\ DOMAIN s.classesByName = DOMAIN r.classesByName \cup {name} /\ s.filesByFuncName = r.filesByFuncName
    BY <2>1, Maps DEF Set, SetIfNew
  <2> QED BY <2>2 DEF s
<1> QED BY <1>1, <1>2

\* A class folder: the class in it, with the methods of the other files.
LEMMA OneFolderFiled ==
  ASSUME NEW r, Filed(r), NEW n \in DOMAIN r.folders
  PROVE  Filed(registerFolder(r, n))
<1> DEFINE group == r.folders[n]
           known == registerWorkspaceClass(r, n, group.def[1])
           external == [m \in {<<f.base>> : f \in Range(group.methods)} |->
                          CHOOSE f \in Range(group.methods) : <<f.base>> = m]
           info == known.classesByName[n]
           full == [info EXCEPT !.external = external @@ @,
                                !.methodNames = @ \cup (DOMAIN external \ info.staticMethodNames)]
           classes == [known.classesByName EXCEPT ![n] = full]
<1>1. CASE group.def = <<>>
  BY <1>1 DEF registerFolder
<1>2. CASE group.def # <<>>
  <2>1. Named(group.def[1], n)
    BY <1>2 DEF Filed, FoldersGiven, GroupGiven
  <2>2. Filed(known)
    BY <2>1, ClassFiled
  <2>3. CASE n \notin DOMAIN known.classesByName
    <3>1. registerFolder(r, n) = known
      BY <1>2, <2>3 DEF registerFolder
    <3> QED BY <2>2, <3>1
  <2>4. CASE n \in DOMAIN known.classesByName
    <3>1. registerFolder(r, n) =
            [known EXCEPT !.classesByName[n].external = external @@ @,
                          !.classesByName[n].methodNames = @ \cup (DOMAIN external \ info.staticMethodNames)]
      BY <1>2, <2>4 DEF registerFolder
    <3> HIDE DEF known, external
    <3>2. registerFolder(r, n) = [known EXCEPT !.classesByName = classes]
      BY <2>2, <2>4, <3>1, Maps
    <3>3. AsDeclared(n, info)
      BY <2>2, <2>4 DEF Filed, ClassesGiven
    <3>4. PICK d \in DeclaredClasses :
            d.name = n /\ DOMAIN info = DOMAIN d
            /\ info.def = d.def /\ info.file = d.file /\ info.constructorName = d.constructorName
      BY <3>3 DEF AsDeclared
    <3>5. {"def", "file", "constructorName"} \subseteq DOMAIN d
      BY DeclaredRecord
    <3>6. AsDeclared(n, full)
      <4> HIDE DEF info
      <4>1. DOMAIN full = DOMAIN info /\ full.def = info.def /\ full.file = info.file
            /\ full.constructorName = info.constructorName
        BY <3>4, <3>5
      <4> QED BY <3>4, <4>1 DEF AsDeclared
    <3> HIDE DEF full
    <3>7. ClassesGiven(classes)
      BY <2>2, <3>6 DEF Filed, ClassesGiven
    <3> HIDE DEF classes
    <3> QED BY <2>2, <3>2, <3>7, Maps DEF Filed
  <2> QED BY <2>3, <2>4
<1> QED BY <1>1, <1>2

\* It is registered under its own name.
LEMMA FolderAdds ==
  ASSUME NEW r, Filed(r), NEW m \in DOMAIN r.folders
  PROVE  LET s == registerFolder(r, m)
         IN  /\ DOMAIN r.filesByFuncName \subseteq DOMAIN s.filesByFuncName
             /\ DOMAIN s.filesByFuncName \subseteq DOMAIN r.filesByFuncName \cup {m}
             /\ DOMAIN r.classesByName \subseteq DOMAIN s.classesByName
             /\ DOMAIN s.classesByName \subseteq DOMAIN r.classesByName \cup {m}
<1> DEFINE known == registerWorkspaceClass(r, m, r.folders[m].def[1])
           s == registerFolder(r, m)
<1>1. /\ DOMAIN known = DOMAIN r
      /\ DOMAIN r.filesByFuncName \subseteq DOMAIN known.filesByFuncName
      /\ DOMAIN known.filesByFuncName \subseteq DOMAIN r.filesByFuncName \cup {m}
      /\ DOMAIN r.classesByName \subseteq DOMAIN known.classesByName
      /\ DOMAIN known.classesByName \subseteq DOMAIN r.classesByName \cup {m}
  BY ClassAdds
<1>2. \/ s = r
      \/ DOMAIN s.filesByFuncName = DOMAIN known.filesByFuncName /\ DOMAIN s.classesByName = DOMAIN known.classesByName
  <2> DEFINE group == r.folders[m]
             external == [x \in {<<f.base>> : f \in Range(group.methods)} |->
                            CHOOSE f \in Range(group.methods) : <<f.base>> = x]
  <2>1. CASE group.def = <<>>
    BY <2>1 DEF registerFolder
  <2>2. CASE group.def # <<>> /\ m \notin DOMAIN known.classesByName
    BY <2>2 DEF registerFolder
  <2>3. CASE group.def # <<>> /\ m \in DOMAIN known.classesByName
    <3>1. s = [known EXCEPT !.classesByName[m].external = external @@ @,
                            !.classesByName[m].methodNames =
                               @ \cup (DOMAIN external \ known.classesByName[m].staticMethodNames)]
      BY <2>3 DEF registerFolder
    <3> HIDE DEF s, known, external
    <3> QED BY <1>1, <3>1, Maps
  <2> QED BY <2>1, <2>2, <2>3
<1> HIDE DEF known, s
<1>3. /\ DOMAIN r.filesByFuncName \subseteq DOMAIN s.filesByFuncName
      /\ DOMAIN s.filesByFuncName \subseteq DOMAIN r.filesByFuncName \cup {m}
      /\ DOMAIN r.classesByName \subseteq DOMAIN s.classesByName
      /\ DOMAIN s.classesByName \subseteq DOMAIN r.classesByName \cup {m}
  BY <1>1, <1>2
<1> QED BY <1>3 DEF s

LEMMA FoldersFiled ==
  ASSUME NEW r, Filed(r)
  PROVE  Filed(registerFolders(r))
<1> DEFINE all == {r} \cup {registerFolder(r, n) : n \in DOMAIN r.folders}
           after(n) == IF n \in DOMAIN r.folders THEN registerFolder(r, n) ELSE r
           files == [n \in UNION {DOMAIN s.filesByFuncName : s \in all} |-> after(n).filesByFuncName[n]]
           classes == [n \in UNION {DOMAIN s.classesByName : s \in all} |-> after(n).classesByName[n]]
<1>1. registerFolders(r) = [r EXCEPT !.filesByFuncName = files, !.classesByName = classes]
  BY DEF registerFolders
<1>2. \A n : Filed(after(n))
  BY OneFolderFiled
<1>3. \A n : \A s \in all : /\ n \in DOMAIN s.filesByFuncName => n \in DOMAIN after(n).filesByFuncName
                            /\ n \in DOMAIN s.classesByName => n \in DOMAIN after(n).classesByName
  <2>1. \A n : /\ DOMAIN r.filesByFuncName \subseteq DOMAIN after(n).filesByFuncName
              /\ DOMAIN r.classesByName \subseteq DOMAIN after(n).classesByName
    BY FolderAdds
  <2>2. \A m \in DOMAIN r.folders :
          /\ after(m) = registerFolder(r, m)
          /\ DOMAIN after(m).filesByFuncName \subseteq DOMAIN r.filesByFuncName \cup {m}
          /\ DOMAIN after(m).classesByName \subseteq DOMAIN r.classesByName \cup {m}
    BY FolderAdds
  <2>3. \A s \in all : s = r \/ \E m \in DOMAIN r.folders : s = after(m)
    BY <2>2
  <2> HIDE DEF all, after
  <2> QED BY <2>1, <2>2, <2>3
<1> HIDE DEF all, after
<1>4. FilesGiven(files)
  BY <1>2, <1>3 DEF Filed, FilesGiven
<1>5. ClassesGiven(classes)
  BY <1>2, <1>3 DEF Filed, ClassesGiven
<1> HIDE DEF files, classes
<1> QED BY <1>1, <1>4, <1>5, Maps DEF Filed

LEMMA LocalFiled ==
  ASSUME NEW r, Filed(r)
  PROVE  Filed(registerLocalClasses(r, mainFile))
<1> DEFINE classes == [n \in {<<c.name>> : c \in Range(mainFile.classes)} |->
                         extractClassInfo(CHOOSE c \in Range(mainFile.classes) : <<c.name>> = n, n, mainFile)]
<1>1. registerLocalClasses(r, mainFile) = [r EXCEPT !.localClassesByName = classes]
  BY DEF registerLocalClasses
<1>2. ClassesGiven(classes)
  <2> SUFFICES ASSUME NEW n \in DOMAIN classes
               PROVE  AsDeclared(n, classes[n])
    BY DEF ClassesGiven
  <2> DEFINE d == CHOOSE c \in Range(mainFile.classes) : <<c.name>> = n
  <2>1. d \in Range(mainFile.classes) /\ <<d.name>> = n
    OBVIOUS
  <2>2. classes[n] = extractClassInfo(d, n, mainFile)
    OBVIOUS
  <2> HIDE DEF d, classes
  <2>3. classes[n] = LocalClass(d)
    BY <2>1, <2>2 DEF LocalClass
  <2>4. classes[n] \in DeclaredClasses
    BY <2>1, <2>3 DEF DeclaredClasses
  <2>5. classes[n].name = n
    BY <2>2, ClassRecord
  <2> QED BY <2>4, <2>5 DEF AsDeclared
<1> HIDE DEF classes
<1> QED BY <1>1, <1>2, Maps DEF Filed

\* The registry holds what the project declares, and the index is made of it.
Filing ==
  /\ Sequence(unread) /\ Range(unread) \subseteq Besides
  /\ Filed(registry)
  /\ status # "loading" => unread = <<>> /\ Indexed
  /\ anonCounter \in Nat

LEMMA InitFiling ==
  ASSUME Init, Sequence(project), project # <<>>
  PROVE  Filing
<1>1. Sequence(unread) /\ Range(unread) \subseteq Besides
  <2>1. unread = Tail(project)
    BY DEF Init
  <2>2. Sequence(Tail(project))
    BY TailFacts
  <2> QED BY <2>1, <2>2 DEF Besides
<1>2. Filed(registry)
  <2>1. registry = EmptyRegistry
    BY DEF Init
  <2>2. DOMAIN <<>> = {}
    OBVIOUS
  <2> QED BY <2>1, <2>2 DEF EmptyRegistry, Filed, FilesGiven, ClassesGiven, PrivateGiven, FoldersGiven
<1> QED BY <1>1, <1>2 DEF Init, Filing

LEMMA FiledAgain ==
  ASSUME project' = project, Filed(registry')
  PROVE  Filed(registry)' /\ Besides' = Besides
<1>1. Besides' = Besides
  BY DEF Besides
<1>2. DeclaredClasses' = DeclaredClasses
  BY <1>1 DEF DeclaredClasses, LocalClass, ClassIn, mainFile
<1>3. \A f, n : Named(f, n)' = Named(f, n)
  BY <1>1 DEF Named
<1>4. \A n, info : AsDeclared(n, info)' = AsDeclared(n, info)
  BY <1>2 DEF AsDeclared
<1>5. Filed(registry)'
  BY <1>1, <1>3, <1>4 DEF Filed, FilesGiven, ClassesGiven, PrivateGiven, FoldersGiven, GroupGiven
<1> QED BY <1>1, <1>5

LEMMA LoadFiling ==
  ASSUME Filing, Load
  PROVE  Filing'
<1>1. /\ unread # <<>> /\ registry' = registerWorkspaceFile(registry, Head(unread)) /\ unread' = Tail(unread)
      /\ project' = project /\ status' = status /\ anonCounter' = anonCounter
  BY DEF Load, Register, shared
<1>2. Sequence(unread) /\ Range(unread) \subseteq Besides /\ status = "loading"
  BY <1>1 DEF Filing
<1>3. Head(unread) \in Besides
  <2>1. Sequence(unread) /\ unread # <<>>
    BY <1>1, <1>2
  <2>2. 1 \in DOMAIN unread /\ Head(unread) = unread[1]
    BY <2>1, SequenceFacts
  <2> QED BY <1>2, <2>2 DEF Range
<1>4. Filed(registry')
  BY <1>1, <1>3, FileFiled DEF Filing
<1>5. Filed(registry)' /\ Besides' = Besides
  BY <1>1, <1>4, FiledAgain
<1>6. Sequence(unread') /\ Range(unread') \subseteq Besides
  <2>1. Sequence(Tail(unread)) /\ \A i \in DOMAIN Tail(unread) : i + 1 \in DOMAIN unread /\ Tail(unread)[i] = unread[i + 1]
    BY <1>1, <1>2, TailFacts
  <2> QED BY <1>1, <1>2, <2>1 DEF Range
<1>7. Sequence(unread)' /\ (Range(unread) \subseteq Besides)'
  BY <1>5, <1>6 DEF Sequence, Range
<1> QED BY <1>1, <1>2, <1>5, <1>7 DEF Filing

LEMMA StartFiling ==
  ASSUME Filing, Start
  PROVE  Filing'
<1>1. /\ unread = <<>> /\ unread' = unread /\ project' = project /\ anonCounter' = anonCounter
      /\ registry' = registerLocalClasses(registerFolders(registry), mainFile)
      /\ index' = buildFunctionIndex(registry', mainFile)
  BY DEF Start, finalize, shared
<1>2. Filed(registry')
  BY <1>1, FoldersFiled, LocalFiled DEF Filing
<1>3. Filed(registry)' /\ Besides' = Besides
  BY <1>1, <1>2, FiledAgain
<1>4. Indexed'
  BY <1>1 DEF Indexed, mainFile
<1>5. Sequence(unread)' /\ (Range(unread) \subseteq Besides)'
  BY <1>1, <1>3 DEF Filing, Sequence, Range
<1> QED BY <1>1, <1>3, <1>4, <1>5 DEF Filing

LEMMA OtherFiling ==
  ASSUME Filing, UNCHANGED wsVars, status' # "loading" => status # "loading", anonCounter' \in {anonCounter, anonCounter + 1}
  PROVE  Filing'
<1>1. project' = project /\ unread' = unread /\ registry' = registry /\ index' = index
  BY DEF wsVars
<1>2. Filed(registry')
  BY <1>1 DEF Filing
<1>3. Filed(registry)' /\ Besides' = Besides
  BY <1>1, <1>2, FiledAgain
<1>4. Indexed => Indexed'
  BY <1>1 DEF Indexed, mainFile
<1>5. Sequence(unread)' /\ (Range(unread) \subseteq Besides)'
  BY <1>1, <1>3 DEF Filing, Sequence, Range
<1>6. anonCounter' \in Nat
  BY DEF Filing
<1> QED BY <1>1, <1>3, <1>4, <1>5, <1>6 DEF Filing

LEMMA NextFiling ==
  ASSUME Filing, [Next]_vars
  PROVE  Filing' /\ project' = project
<1>1. CASE Load
  <2>1. project' = project
    BY <1>1 DEF Load, Register
  <2> QED BY <1>1, <2>1, LoadFiling
<1>2. CASE Start
  <2>1. project' = project
    BY <1>2 DEF Start, finalize
  <2> QED BY <1>2, <2>1, StartFiling
<1>3. CASE Lowering /\ (LowerSet \/ LowerStop \/ LowerAnonFunc \/ LowerFuncHandle \/ LowerError
                        \/ LowerBuiltin \/ LowerCall \/ Specialize \/ Finish \/ FinishScript)
  <2>1. UNCHANGED wsVars /\ status = "lowering"
    BY <1>3 DEF Lowering
  <2>2. anonCounter' \in {anonCounter, anonCounter + 1}
    BY <1>3 DEF LowerSet, LowerStop, LowerAnonFunc, LowerFuncHandle, LowerError, LowerBuiltin, LowerCall, Specialize,
                Finish, FinishScript, Reject, shared
  <2> QED BY <2>1, <2>2, OtherFiling DEF wsVars
<1>4. CASE UNCHANGED vars
  BY <1>4, OtherFiling DEF vars, wsVars, shared
<1> QED BY <1>1, <1>2, <1>3, <1>4 DEF Next, Stopped, LowerSet, LowerStop, LowerAnonFunc, LowerFuncHandle, LowerError,
      LowerBuiltin, LowerCall, Specialize, Finish, FinishScript, AtStatement

\* The functions of the project with the names their bodies can be lowered under:
\* those of a file, the first under the file's own name, the methods of a class.
FirstNamed(f) == {Function(<<Last(QualifiedName(f))>>, f.functions[i], f) : i \in {1} \cap DOMAIN f.functions}
MethodsOf(c, info) ==
  UNION {{Function(s, CHOOSE fn \in lookupClassMethodAST(info, m) : TRUE, info.file) : s \in Salts(c, m, info)} :
           m \in {x \in MethodNames(info) : lookupClassMethodAST(info, x) # {}}}
DeclaredFunctions ==
  (UNION {LocalFunctions(f) : f \in Range(project)})
    \cup (UNION {FirstNamed(f) : f \in Besides})
    \cup (UNION {MethodsOf(d.name, d) : d \in DeclaredClasses})

\* A file as the parser makes it: lists, and functions of statements.
Parsed(f) ==
  /\ DOMAIN f.functions \subseteq Nat
  /\ Sequence(f.imports) /\ \A i \in DOMAIN f.imports : Sequence(f.imports[i].path)
  /\ Sequence(f.classes)
  /\ \A d \in Range(f.classes) :
       DOMAIN d.methods \subseteq Nat /\ \A i \in DOMAIN d.methods : DOMAIN d.methods[i].body \subseteq Nat

\* A project of files the parser makes, whose functions the name a body is lowered
\* under and the file's place tell apart, where no function has a name the lowering
\* makes up for an anonymous one, nor do two of these have the same.
WellWritten ==
  /\ Sequence(project) /\ project # <<>>
  /\ \A f \in Range(project) : Parsed(f)
  /\ Sequence(Entry) /\ \A i \in DOMAIN Entry : Written(Entry[i])
  /\ \A f \in DeclaredFunctions : Text(f.ast) /\ "scope" \notin DOMAIN f.ast
  /\ \A f, g \in DeclaredFunctions : f.salt = g.salt /\ f.file.dir = g.file.dir /\ f.file.base = g.file.base => f = g
  /\ \A i \in Nat : \A f \in DeclaredFunctions : f.salt # <<"anon_" \o ToString(i)>>
  /\ \A i, j \in Nat : "anon_" \o ToString(i) = "anon_" \o ToString(j) => i = j

LEMMA FilesOfProject ==
  ASSUME Sequence(project), project # <<>>
  PROVE  Besides \subseteq Range(project) /\ mainFile \in Range(project)
<1>1. \A i \in DOMAIN Tail(project) : i + 1 \in DOMAIN project /\ Tail(project)[i] = project[i + 1]
  BY TailFacts
<1>2. 1 \in DOMAIN project
  BY SequenceFacts
<1> QED BY <1>1, <1>2 DEF Besides, Range, mainFile

LEMMA ClassesDeclared ==
  ASSUME Filing, NEW c \in ClassNames(registry)
  PROVE  AsDeclared(c, getClassInfo(registry, c))
BY DEF Filing, Filed, ClassesGiven, ClassNames, getClassInfo

\* What the registry holds is declared.
LEMMA HeldDeclared ==
  ASSUME Filing, Sequence(project), project # <<>>
  PROVE  Held \subseteq DeclaredFunctions
<1> SUFFICES ASSUME NEW f \in Held
             PROVE  f \in DeclaredFunctions
  OBVIOUS
<1>1. \A n \in DOMAIN registry.filesByFuncName : Named(registry.filesByFuncName[n], n)
  BY DEF Filing, Filed, FilesGiven
<1>2. NamedFiles \subseteq Range(project)
  BY <1>1, FilesOfProject DEF NamedFiles, Named, Range
<1>3. CASE f \in UNION {LocalFunctions(x) : x \in NamedFiles}
  BY <1>2, <1>3 DEF DeclaredFunctions
<1>4. CASE f \in UNION {FirstFunction(n) : n \in DOMAIN registry.filesByFuncName}
  <2>1. PICK n \in DOMAIN registry.filesByFuncName : f \in FirstFunction(n)
    BY <1>4
  <2>2. FirstFunction(n) = FirstNamed(registry.filesByFuncName[n]) /\ registry.filesByFuncName[n] \in Besides
    BY <1>1 DEF FirstFunction, FirstNamed, Named
  <2> QED BY <2>1, <2>2 DEF DeclaredFunctions
<1>5. CASE f \in UNION {ClassFunctions(c) : c \in ClassNames(registry)}
  <2>1. PICK c \in ClassNames(registry) : f \in ClassFunctions(c)
    BY <1>5
  <2> DEFINE info == getClassInfo(registry, c)
  <2>2. PICK d \in DeclaredClasses :
          d.name = c /\ info.def = d.def /\ info.file = d.file /\ info.constructorName = d.constructorName
    BY ClassesDeclared DEF AsDeclared
  <2>3. ClassFunctions(c) = MethodsOf(c, info)
    BY DEF ClassFunctions, MethodsOf
  <2> HIDE DEF info
  <2>4. MethodsOf(c, info) = MethodsOf(c, d)
    <3>1. MethodNames(info) = MethodNames(d)
      BY <2>2 DEF MethodNames
    <3>2. \A m : lookupClassMethodAST(info, m) = lookupClassMethodAST(d, m)
      BY <2>2 DEF lookupClassMethodAST
    <3>3. \A m : Salts(c, m, info) = Salts(c, m, d)
      BY <2>2 DEF Salts
    <3> QED BY <2>2, <3>1, <3>2, <3>3 DEF MethodsOf
  <2> QED BY <2>1, <2>2, <2>3, <2>4 DEF DeclaredFunctions
<1> QED BY <1>3, <1>4, <1>5 DEF Held

LEMMA DeclaredIn ==
  ASSUME WellWritten, NEW d \in DeclaredClasses
  PROVE  \E f \in Range(project) : d.file = f /\ d.def \in Range(f.classes)
<1>1. CASE d \in {LocalClass(x) : x \in Range(mainFile.classes)}
  <2>1. PICK x \in Range(mainFile.classes) : d = LocalClass(x)
    BY <1>1
  <2>2. d.file = mainFile /\ d.def = x
    BY <2>1, ClassRecord DEF LocalClass
  <2> QED BY <2>2, FilesOfProject DEF WellWritten
<1>2. CASE d \in {ClassIn(x) : x \in {g \in Besides : g.classes # <<>>}}
  <2>1. PICK x \in Besides : x.classes # <<>> /\ d = ClassIn(x)
    BY <1>2
  <2>2. d.file = x /\ d.def = x.classes[1]
    BY <2>1, ClassRecord DEF ClassIn
  <2>3. x \in Range(project) /\ x.classes[1] \in Range(x.classes)
    <3>1. x \in Range(project) /\ Sequence(x.classes)
      BY FilesOfProject DEF WellWritten, Parsed
    <3>2. 1 \in DOMAIN x.classes
      BY <2>1, <3>1, SequenceFacts
    <3> QED BY <3>1, <3>2 DEF Range
  <2> QED BY <2>2, <2>3
<1> QED BY <1>1, <1>2 DEF DeclaredClasses

LEMMA ProgramFollows ==
  ASSUME WellWritten, Filing
  PROVE  Program
<1>1. Sequence(project) /\ project # <<>> /\ \A f \in Range(project) : Parsed(f)
  BY DEF WellWritten
<1>2. Held \subseteq DeclaredFunctions
  BY <1>1, HeldDeclared
<1>3. \A c \in ClassNames(registry) :
        \E f \in Range(project) : getClassInfo(registry, c).file = f /\ getClassInfo(registry, c).def \in Range(f.classes)
  BY ClassesDeclared, DeclaredIn DEF AsDeclared
<1>4. NamedFiles \subseteq Range(project)
  BY <1>1, FilesOfProject DEF Filing, Filed, FilesGiven, NamedFiles, Named, Range
<1>5. WithImports(registry, mainFile) \subseteq Range(project)
  <2>1. Range(registry.privateFilesByDir) \subseteq Range(project)
    BY <1>1, FilesOfProject DEF Filing, Filed, PrivateGiven, Range
  <2>2. \A info \in Range(registry.classesByName) : info.file \in Range(project)
    <3> TAKE info \in Range(registry.classesByName)
    <3>1. PICK c \in DOMAIN registry.classesByName : info = registry.classesByName[c]
      BY DEF Range
    <3>2. c \in ClassNames(registry) /\ info = getClassInfo(registry, c)
      BY <3>1 DEF ClassNames, getClassInfo
    <3> QED BY <1>3, <3>2
  <2> QED BY <1>4, <2>1, <2>2 DEF WithImports, NamedFiles
<1>6. status # "loading" => Listings
  <2> SUFFICES ASSUME status # "loading"
               PROVE  Listings
    OBVIOUS
  <2>1. Indexed
    BY DEF Filing
  <2>2. \A f \in DOMAIN index.fileImports : f \in Range(project)
    BY <1>5, <2>1, IndexFacts
  <2>3. \A f \in NamedFiles : DOMAIN f.functions \subseteq Nat
    BY <1>1, <1>4 DEF Parsed
  <2>4. \A f \in DOMAIN index.fileImports : Sequence(f.imports) /\ \A i \in DOMAIN f.imports : Sequence(f.imports[i].path)
    BY <1>1, <2>2 DEF Parsed
  <2>5. \A c \in ClassNames(registry) :
          LET blocks == getClassInfo(registry, c).def.methods
          IN  DOMAIN blocks \subseteq Nat /\ \A i \in DOMAIN blocks : DOMAIN blocks[i].body \subseteq Nat
    BY <1>1, <1>3 DEF Parsed
  <2> QED BY <2>3, <2>4, <2>5 DEF Listings
<1>7. ToldApart
  <2>1. \A f, g \in Held : f.salt = g.salt /\ f.file.dir = g.file.dir /\ f.file.base = g.file.base => f = g
    BY <1>2 DEF WellWritten
  <2>2. 0 .. anonCounter \subseteq Nat
    BY DEF Filing
  <2>3. \A i \in 0 .. anonCounter : \A f \in Held : f.salt # <<"anon_" \o ToString(i)>>
    BY <1>2, <2>2, Zenon DEF WellWritten
  <2>4. \A i, j \in 0 .. anonCounter : "anon_" \o ToString(i) = "anon_" \o ToString(j) => i = j
    BY <2>2, Zenon DEF WellWritten
  <2> QED BY <2>1, <2>3, <2>4, Zenon DEF ToldApart
<1>8. \A f \in Held : Text(f.ast) /\ "scope" \notin DOMAIN f.ast
  BY <1>2 DEF WellWritten
<1>9. Sequence(Entry) /\ \A i \in DOMAIN Entry : Written(Entry[i])
  BY DEF WellWritten
<1> QED BY <1>6, <1>7, <1>8, <1>9 DEF Program

LEMMA WellWrittenStays ==
  ASSUME project' = project, WellWritten
  PROVE  WellWritten'
<1>1. Besides' = Besides /\ mainFile' = mainFile
  BY DEF Besides, mainFile
<1>2. DeclaredClasses' = DeclaredClasses /\ Entry' = Entry
  BY <1>1 DEF DeclaredClasses, LocalClass, ClassIn, Entry
<1>3. DeclaredFunctions' = DeclaredFunctions
  BY <1>1, <1>2 DEF DeclaredFunctions
<1> QED BY <1>1, <1>2, <1>3 DEF WellWritten

\* Whatever is lowered, the registry and the index hold a program.
LEMMA IsProgram == Spec /\ WellWritten => []Program
<1>1. Init /\ WellWritten => Filing
  BY InitFiling DEF WellWritten
<1>2. WellWritten /\ Filing /\ [Next]_vars => WellWritten' /\ Filing'
  BY NextFiling, WellWrittenStays
<1>3. WellWritten /\ Filing => Program
  BY ProgramFollows
<1> QED BY <1>1, <1>2, <1>3, PTL DEF Spec

-----------------------------------------------------------------------------
(* The theorems.                                                            *)

\* Whatever the project and the resolver's answers, no body is lowered inside
\* itself and none twice: specializeUserCallWithIRArgs finds every one in the
\* cache or in flight.
THEOREM NeverTwice == Spec => []NoneTwice
<1>1. IInv => NoneTwice
  BY DEF IInv
<1> QED BY <1>1, Invariance, PTL

\* The order bodies are emitted in never puts a body before one it calls.
THEOREM CalleesEmittedFirst == Spec => []CalleesComeFirst
<1>1. IInv => CalleesComeFirst
  BY DEF IInv
<1> QED BY <1>1, Invariance, PTL

\* The body found for a call was lowered in a file of that place and name, and
\* for argument types of the same canonical form, as the call asked for.
THEOREM FoundByKey == Spec => []FoundUnderItsKey
<1>1. IInv => FoundUnderItsKey
  BY DEF IInv
<1> QED BY <1>1, Invariance, PTL

\* The body a call is given is that of the function it means, or of the handle it
\* is made through, lowered for the types it passes: mangleSpecName's key, which
\* has the lowering name, the place of the file and the canonical argument types,
\* never finds another body in the cache.
THEOREM OwnBody == Spec /\ WellWritten => []RunsItsOwnBody
<1>1. Init => AllSound(FALSE)
  <2> SUFFICES ASSUME Init
               PROVE  AllSound(FALSE)
    OBVIOUS
  <2>1. \A w : AllSound(w)
    BY InitSound
  <2> QED BY <2>1, Zenon
<1>2. IInv /\ Program /\ AllSound(FALSE) /\ [Next]_vars => AllSound(FALSE)'
  <2> SUFFICES ASSUME IInv, Program, AllSound(FALSE), [Next]_vars
               PROVE  AllSound(FALSE)'
    OBVIOUS
  <2>1. \A w : AllSound(w) /\ (w => KeepsCaptures) => AllSound(w)'
    BY NextSound
  <2> QED BY <2>1, Zenon
<1>3. AllSound(FALSE) => RunsItsOwnBody
  BY DEF AllSound, Sound
<1> QED BY <1>1, <1>2, <1>3, Invariance, IsProgram, PTL DEF Spec

\* A body lowered for an anonymous function finds each variable of the scope it
\* was written in as it was when lowerAnonFunc made the handle, whatever happened
\* to that scope since and however far the handle was handed on.
THEOREM CapturesKept == Spec /\ WellWritten /\ []KeepsCaptures => []CapturesMeanTheSame
<1>1. Init => AllSound(TRUE)
  <2> SUFFICES ASSUME Init
               PROVE  AllSound(TRUE)
    OBVIOUS
  <2>1. \A w : AllSound(w)
    BY InitSound
  <2> QED BY <2>1, Zenon
<1>2. IInv /\ Program /\ KeepsCaptures /\ AllSound(TRUE) /\ [Next]_vars => AllSound(TRUE)'
  <2> SUFFICES ASSUME IInv, Program, KeepsCaptures, AllSound(TRUE), [Next]_vars
               PROVE  AllSound(TRUE)'
    OBVIOUS
  <2>1. \A w : AllSound(w) /\ (w => KeepsCaptures) => AllSound(w)'
    BY NextSound
  <2> QED BY <2>1, Zenon
<1>3. AllSound(TRUE) => CapturesMeanTheSame
  <2>1. AllSound(TRUE) => \A i \in DOMAIN stack : Seen(stack[i])
    BY DEF AllSound, Sound
  <2> QED BY <2>1, SeenIsMeant
<1> QED BY <1>1, <1>2, <1>3, Invariance, IsProgram, PTL DEF Spec
=============================================================================
