---------------------------- MODULE Lexer_proofs ----------------------------
(***************************************************************************)
(* Proofs about Lexer, for a file of any length and whatever the words and *)
(* numerals are: the tokens stand in order and cover the file but for its  *)
(* layout, and every step of the lexer gets further.                       *)
(***************************************************************************)
EXTENDS Lexer, SequenceTheorems, NaturalsInduction, WellFoundedInduction, TLAPS

Sequence(s) == s \in Seq({s[i] : i \in DOMAIN s})

Layout(i) == text[i] = " " \/ InComment(i) \/ InEllipsis(i)

\* The tokens so far are in order, and end before the next character.
Ordered ==
  /\ Sequence(out)
  /\ \A k \in 1 .. Len(out) : out[k].s \in Nat /\ out[k].e \in Nat /\ out[k].s < out[k].e /\ out[k].e <= pos
  /\ \A k \in 1 .. Len(out) - 1 : out[k].e <= out[k + 1].s

\* What lies behind the next character is covered or layout.
Covered == \A i \in 1 .. pos - 1 : Outside(i) => Layout(i)

Read == IsFile /\ pos \in 1 .. Len(text) + 1 /\ Ordered /\ Covered

-----------------------------------------------------------------------------
(* Sequences and least elements.                                            *)

LEMMA OwnElements ==
  ASSUME NEW T, NEW s \in Seq(T)
  PROVE  Sequence(s) /\ DOMAIN s = 1 .. Len(s) /\ Len(s) \in Nat
<1> DEFINE R == {s[i] : i \in DOMAIN s}
<1>1. Len(s) \in Nat /\ DOMAIN s = 1 .. Len(s) /\ s \in [1 .. Len(s) -> T]
  BY SMT
<1>2. s \in [1 .. Len(s) -> R]
  BY <1>1
<1>3. s \in Seq(R)
  BY <1>1, <1>2, SeqDef
<1> QED BY <1>1, <1>3 DEF Sequence

LEMMA SequenceFacts ==
  ASSUME NEW s, Sequence(s)
  PROVE  Len(s) \in Nat /\ DOMAIN s = 1 .. Len(s)
BY OwnElements DEF Sequence

LEMMA AppendFacts ==
  ASSUME NEW s, Sequence(s), NEW x
  PROVE  /\ Sequence(Append(s, x)) /\ Len(s) \in Nat /\ DOMAIN s = 1 .. Len(s)
         /\ Len(Append(s, x)) = Len(s) + 1
         /\ DOMAIN Append(s, x) = 1 .. Len(s) + 1
         /\ \A i \in 1 .. Len(s) : Append(s, x)[i] = s[i]
         /\ Append(s, x)[Len(s) + 1] = x
<1> DEFINE T == {s[i] : i \in DOMAIN s} \cup {x}
<1>1. s \in Seq({s[i] : i \in DOMAIN s})
  BY DEF Sequence
<1>2. s \in Seq(T) /\ x \in T
  BY <1>1, SMT
<1>3. Len(s) \in Nat /\ DOMAIN s = 1 .. Len(s)
  BY <1>1, OwnElements
<1> HIDE DEF T
<1>4. Append(s, x) \in Seq(T) /\ Len(Append(s, x)) = Len(s) + 1
  BY <1>2, AppendProperties
<1>5. /\ \A i \in 1 .. Len(s) : Append(s, x)[i] = s[i]
      /\ Append(s, x)[Len(s) + 1] = x
  BY <1>2, AppendProperties
<1>6. Sequence(Append(s, x)) /\ DOMAIN Append(s, x) = 1 .. Len(Append(s, x))
  BY <1>4, OwnElements
<1> QED BY <1>3, <1>4, <1>5, <1>6

\* The least of some natural numbers is one of them.
LEMMA LeastOf ==
  ASSUME NEW S \in SUBSET Nat, S # {}
  PROVE  Min(S) \in S /\ \A x \in S : Min(S) <= x
<1> DEFINE R == OpToRel(<, Nat)
<1>1. IsWellFoundedOn(R, Nat)
  BY NatLessThanWellFounded
<1>2. \A x, y \in Nat : <<y, x>> \in R <=> y < x
  BY DEF OpToRel
<1> HIDE DEF R
<1>3. \E x \in S : \A y \in S : <<y, x>> \notin R
  BY <1>1, WFMin
<1>4. \A x, y \in Nat : ~(y < x) => x <= y
  OBVIOUS
<1>5. \E x \in S : \A y \in S : x <= y
  BY <1>2, <1>3, <1>4
<1> QED BY <1>5 DEF Min

-----------------------------------------------------------------------------
(* The file, and the positions the lexer looks for.                         *)

LEMMA Characters ==
  ASSUME IsFile
  PROVE  /\ Len(text) \in Nat /\ DOMAIN text = 1 .. Len(text)
         /\ \A i \in 1 .. Len(text) : At(i) = text[i] /\ At(i) # ""
         /\ \A i \in Int : At(i) # "" => i \in 1 .. Len(text)
<1> DEFINE T == {text[i] : i \in DOMAIN text} \ {""}
<1>1. text \in Seq(T)
  BY DEF IsFile
<1>2. "" \notin T
  OBVIOUS
<1> HIDE DEF T
<1>3. Len(text) \in Nat /\ DOMAIN text = 1 .. Len(text)
  BY <1>1, OwnElements
<1>4. \A i \in 1 .. Len(text) : text[i] # ""
  BY <1>1, <1>2, <1>3, ElementOfSeq
<1> QED BY <1>3, <1>4 DEF At

LEMMA SeekFacts ==
  ASSUME IsFile, NEW i \in 1 .. Len(text) + 1, NEW chars
  PROVE  /\ Seek(i, chars) \in i .. Len(text) + 1
         /\ \A j \in i .. Seek(i, chars) - 1 : text[j] \notin chars
         /\ Seek(i, chars) <= Len(text) => text[Seek(i, chars)] \in chars
<1> DEFINE hits == {j \in i .. Len(text) : text[j] \in chars}
<1>1. Len(text) \in Nat
  BY Characters
<1>2. Seek(i, chars) = IF hits = {} THEN Len(text) + 1 ELSE Min(hits)
  BY DEF Seek
<1>3. hits \subseteq Nat /\ \A j \in hits : j \in i .. Len(text) /\ text[j] \in chars
  BY <1>1
<1>4. \A j \in i .. Len(text) : text[j] \in chars => j \in hits
  OBVIOUS
<1> HIDE DEF hits
<1>5. CASE hits = {}
  BY <1>1, <1>2, <1>4, <1>5
<1>6. CASE hits # {}
  <2>1. Min(hits) \in hits /\ \A j \in hits : Min(hits) <= j
    BY <1>3, <1>6, LeastOf
  <2>2. Min(hits) \in i .. Len(text) /\ text[Min(hits)] \in chars
    BY <1>3, <2>1
  <2>3. \A j \in i .. Min(hits) - 1 : text[j] \notin chars
    <3> SUFFICES ASSUME NEW j \in i .. Min(hits) - 1, text[j] \in chars
                 PROVE  FALSE
      OBVIOUS
    <3>1. j \in i .. Len(text) /\ j < Min(hits)
      BY <1>1, <2>2
    <3> QED BY <1>1, <1>4, <2>1, <2>2, <3>1
  <2> QED BY <1>1, <1>2, <1>6, <2>2, <2>3
<1> QED BY <1>5, <1>6

LEMMA PastFacts ==
  ASSUME IsFile, NEW i \in 1 .. Len(text) + 1, NEW chars
  PROVE  /\ Past(i, chars) \in i .. Len(text) + 1
         /\ \A j \in i .. Past(i, chars) - 1 : text[j] \in chars
         /\ Past(i, chars) <= Len(text) => text[Past(i, chars)] \notin chars
<1> DEFINE hits == {j \in i .. Len(text) : text[j] \notin chars}
<1>1. Len(text) \in Nat
  BY Characters
<1>2. Past(i, chars) = IF hits = {} THEN Len(text) + 1 ELSE Min(hits)
  BY DEF Past
<1>3. hits \subseteq Nat /\ \A j \in hits : j \in i .. Len(text) /\ text[j] \notin chars
  BY <1>1
<1>4. \A j \in i .. Len(text) : text[j] \notin chars => j \in hits
  OBVIOUS
<1> HIDE DEF hits
<1>5. CASE hits = {}
  BY <1>1, <1>2, <1>4, <1>5
<1>6. CASE hits # {}
  <2>1. Min(hits) \in hits /\ \A j \in hits : Min(hits) <= j
    BY <1>3, <1>6, LeastOf
  <2>2. Min(hits) \in i .. Len(text) /\ text[Min(hits)] \notin chars
    BY <1>3, <2>1
  <2>3. \A j \in i .. Min(hits) - 1 : text[j] \in chars
    <3> SUFFICES ASSUME NEW j \in i .. Min(hits) - 1, text[j] \notin chars
                 PROVE  FALSE
      OBVIOUS
    <3>1. j \in i .. Len(text) /\ j < Min(hits)
      BY <1>1, <2>2
    <3> QED BY <1>1, <1>4, <2>1, <2>2, <3>1
  <2> QED BY <1>1, <1>2, <1>6, <2>2, <2>3
<1> QED BY <1>5, <1>6

\* The state of the lexer, in the terms the steps use.
LEMMA Here ==
  ASSUME Read
  PROVE  /\ IsFile /\ Len(text) \in Nat /\ pos \in Nat /\ 1 <= pos /\ pos <= Len(text) + 1
         /\ Sequence(out) /\ Len(out) \in Nat /\ DOMAIN out = 1 .. Len(out)
<1>1. IsFile /\ pos \in 1 .. Len(text) + 1 /\ Sequence(out)
  BY DEF Read, Ordered
<1>2. Len(text) \in Nat
  BY <1>1, Characters
<1>3. Len(out) \in Nat /\ DOMAIN out = 1 .. Len(out)
  BY <1>1, SequenceFacts
<1> QED BY <1>1, <1>2, <1>3

\* The end of a line, and what is behind it.
LEMMA LineFacts ==
  ASSUME IsFile, NEW i \in 1 .. Len(text) + 1
  PROVE  /\ findLineTerminator(i) \in i .. Len(text) + 1
         /\ \A j \in i .. findLineTerminator(i) - 1 : text[j] # "\n"
         /\ AfterLine(i) \in findLineTerminator(i) .. Len(text) + 1
         /\ AfterLine(i) <= findLineTerminator(i) + 1
<1>1. /\ findLineTerminator(i) \in i .. Len(text) + 1
      /\ \A j \in i .. findLineTerminator(i) - 1 : text[j] # "\n"
  BY SeekFacts DEF findLineTerminator
<1>2. Len(text) \in Nat
  BY Characters
<1>3. At(findLineTerminator(i)) = "\n" => findLineTerminator(i) \in 1 .. Len(text)
  <2>1. findLineTerminator(i) \in Int /\ "\n" # ""
    BY <1>1, <1>2
  <2>2. \A m \in Int : At(m) # "" => m \in 1 .. Len(text)
    BY Characters
  <2> QED BY <2>1, <2>2, Zenon
<1> QED BY <1>1, <1>2, <1>3 DEF AfterLine

\* A literal ends behind its inside's beginning.
LEMMA ClosingFacts ==
  ASSUME IsFile, NEW i \in 1 .. Len(text) + 1, NEW quote
  PROVE  Closing(i, quote) = 0 \/ Closing(i, quote) \in i + 1 .. Len(text) + 1
<1> DEFINE quotes == {j \in i .. findLineTerminator(i) - 1 : At(j) = quote}
           Odd(j) == Cardinality({k \in quotes : k <= j}) % 2 = 1
           closing == {j \in quotes : j + 1 \notin quotes /\ Odd(j)}
<1>1. Closing(i, quote) = IF closing = {} THEN 0 ELSE Min(closing) + 1
  BY DEF Closing
<1> HIDE DEF Odd
<1>2. closing \subseteq i .. findLineTerminator(i) - 1
  OBVIOUS
<1> HIDE DEF quotes, closing
<1>3. findLineTerminator(i) \in i .. Len(text) + 1 /\ Len(text) \in Nat
  BY LineFacts, Characters
<1>4. CASE closing # {}
  <2>1. closing \in SUBSET Nat
    BY <1>2, <1>3
  <2>2. Min(closing) \in i .. findLineTerminator(i) - 1
    BY <1>2, <1>4, <2>1, LeastOf
  <2> QED BY <1>1, <1>3, <1>4, <2>2
<1> QED BY <1>1, <1>4

-----------------------------------------------------------------------------
(* What a step does to what is said of the tokens.                          *)

\* Tokens behind the next character change nothing before it.
LEMMA CoveredStays ==
  ASSUME Read, UNCHANGED text, Sequence(out'), Len(out) <= Len(out'),
         \A k \in 1 .. Len(out) : out'[k] = out[k],
         \A k \in Len(out) + 1 .. Len(out') : out'[k].s \in Nat /\ pos <= out'[k].s,
         NEW i \in 1 .. pos - 1, Outside(i)'
  PROVE  Layout(i)'
<1>1. /\ Len(out) \in Nat /\ DOMAIN out = 1 .. Len(out)
      /\ Len(out') \in Nat /\ DOMAIN out' = 1 .. Len(out')
      /\ pos \in Nat
  BY Here, SequenceFacts
<1>2. \A j \in 1 .. pos - 1 : Outside(j) <=> Outside(j)'
  <2> SUFFICES ASSUME NEW j \in 1 .. pos - 1
               PROVE  Outside(j) <=> Outside(j)'
    OBVIOUS
  <2>1. ASSUME Outside(j) PROVE Outside(j)'
    <3> SUFFICES ASSUME NEW k \in 1 .. Len(out')
                 PROVE  j < out'[k].s \/ j >= out'[k].e
      BY <1>1 DEF Outside
    <3>1. CASE k \in 1 .. Len(out)
      BY <1>1, <2>1, <3>1 DEF Outside
    <3>2. CASE k \in Len(out) + 1 .. Len(out')
      BY <1>1, <3>2
    <3> QED BY <1>1, <3>1, <3>2
  <2>2. ASSUME Outside(j)' PROVE Outside(j)
    <3> SUFFICES ASSUME NEW k \in 1 .. Len(out)
                 PROVE  j < out[k].s \/ j >= out[k].e
      BY <1>1 DEF Outside
    <3>1. k \in 1 .. Len(out') /\ out'[k] = out[k]
      BY <1>1
    <3> QED BY <1>1, <2>2, <3>1 DEF Outside
  <2> QED BY <2>1, <2>2
<1>3. Layout(i)
  BY <1>2 DEF Read, Covered
<1>4. CASE text[i] = " "
  BY <1>4 DEF Layout
<1>5. CASE InComment(i)
  <2>1. PICK j \in 1 .. i : /\ text[j] = "%" /\ Outside(j)
                            /\ \/ \A n \in j .. i : text[n] # "\n"
                               \/ BlockStart(j) /\ \A n \in j + 2 .. i - 3 : ~(text[n] = "%" /\ text[n + 1] = "}")
    BY <1>5 DEF InComment
  <2>2. j \in 1 .. pos - 1
    <3>1. \A p \in Nat, x, y \in Int : x \in 1 .. p - 1 /\ y \in 1 .. x => y \in 1 .. p - 1
      OBVIOUS
    <3> QED BY <1>1, <3>1
  <2>3. Outside(j)'
    BY <1>2, <2>1, <2>2
  <2>4. BlockStart(j) => BlockStart(j)'
    BY DEF BlockStart, At
  <2>5. InComment(i)'
    BY <2>1, <2>3, <2>4 DEF InComment
  <2> QED BY <2>5 DEF Layout
<1>6. CASE InEllipsis(i)
  <2>1. PICK k \in 1 .. Len(out) : /\ out[k].t \in {"Ellipsis", "Section"} /\ out[k].e <= i
                                   /\ \A j \in out[k].e .. i - 1 : text[j] # "\n"
    BY <1>1, <1>6 DEF InEllipsis
  <2>2. k \in DOMAIN out' /\ out'[k] = out[k]
    BY <1>1
  <2>3. InEllipsis(i)'
    BY <2>1, <2>2 DEF InEllipsis
  <2> QED BY <2>3 DEF Layout
<1> QED BY <1>3, <1>4, <1>5, <1>6 DEF Layout

\* A step that skips layout.
LEMMA SkipKeeps ==
  ASSUME Read, UNCHANGED <<text, out>>, pos' \in pos + 1 .. Len(text) + 1,
         \A i \in pos .. pos' - 1 : Layout(i)'
  PROVE  Read'
<1>1. Sequence(out) /\ Len(out) \in Nat /\ pos \in Nat /\ 1 <= pos /\ Len(text) \in Nat /\ IsFile
  BY Here
<1>2. Ordered'
  <2>1. pos < pos'
    BY <1>1
  <2>2. \A k \in 1 .. Len(out) : /\ out[k].s \in Nat /\ out[k].e \in Nat /\ out[k].s < out[k].e
                                 /\ out[k].e <= pos'
    BY <1>1, <2>1 DEF Read, Ordered
  <2> QED BY <1>1, <2>2 DEF Read, Ordered
<1>3. Covered'
  <2> SUFFICES ASSUME NEW i \in 1 .. pos' - 1, Outside(i)'
               PROVE  Layout(i)'
    BY DEF Covered
  <2>1. CASE i \in pos .. pos' - 1
    BY <2>1
  <2>2. CASE i \in 1 .. pos - 1
    <3>1. \A k \in Len(out) + 1 .. Len(out') : out'[k].s \in Nat /\ pos <= out'[k].s
      BY <1>1
    <3>2. UNCHANGED text /\ Sequence(out') /\ Len(out) <= Len(out') /\ \A k \in 1 .. Len(out) : out'[k] = out[k]
      BY <1>1
    <3> QED BY <2>2, <3>1, <3>2, CoveredStays, Zenon
  <2>3. i \in pos .. pos' - 1 \/ i \in 1 .. pos - 1
    <3>1. \A p \in Nat, q, x \in Int : x \in 1 .. q - 1 => x \in p .. q - 1 \/ x \in 1 .. p - 1
      OBVIOUS
    <3>2. pos' \in Int /\ i \in Int
      BY <1>1
    <3> QED BY <1>1, <3>1, <3>2, Zenon
  <2> QED BY <2>1, <2>2, <2>3
<1>4. pos' \in 1 .. Len(text') + 1 /\ IsFile'
  <2>1. text' = text /\ IsFile'
    BY <1>1 DEF IsFile
  <2>2. \A p, m \in Nat, q \in Int : q \in p + 1 .. m + 1 => q \in 1 .. m + 1
    OBVIOUS
  <2>3. pos' \in Int
    BY <1>1
  <2>4. pos' \in 1 .. Len(text) + 1
    BY <1>1, <2>2, <2>3, Zenon
  <2> QED BY <2>1, <2>4
<1> QED BY <1>2, <1>3, <1>4 DEF Read

\* A step that makes a token of what is next, and skips the layout behind it.
LEMMA TokenKeeps ==
  ASSUME Read, UNCHANGED text, NEW t, NEW to, to \in pos + 1 .. pos', pos' \in pos + 1 .. Len(text) + 1,
         out' = Append(out, Token(t, pos, to)),
         \A i \in to .. pos' - 1 : Layout(i)'
  PROVE  Read'
<1> DEFINE n == Len(out)
           new == Token(t, pos, to)
<1>1. /\ pos \in Nat /\ 1 <= pos /\ Len(text) \in Nat /\ IsFile
      /\ to \in Nat /\ pos < to /\ to <= pos' /\ pos' \in Nat /\ pos < pos'
  BY Here
<1>2. /\ n \in Nat /\ DOMAIN out = 1 .. n
      /\ Sequence(out') /\ Len(out') = n + 1 /\ DOMAIN out' = 1 .. n + 1
      /\ \A k \in 1 .. n : out'[k] = out[k]
      /\ out'[n + 1] = new
  BY AppendFacts DEF Read, Ordered
<1>3. new.s = pos /\ new.e = to
  BY DEF Token
<1> HIDE DEF n, new
<1>4. \A k \in 1 .. n + 1 : k \in 1 .. n \/ k = n + 1
  BY <1>2
<1>5. \A k \in 1 .. n : /\ out[k].s \in Nat /\ out[k].e \in Nat /\ out[k].s < out[k].e /\ out[k].e <= pos
                        /\ k \in 1 .. n - 1 => out[k].e <= out[k + 1].s
  BY <1>2 DEF Read, Ordered, n
<1>6. Ordered'
  <2>1. ASSUME NEW k \in 1 .. n + 1
        PROVE  out'[k].s \in Nat /\ out'[k].e \in Nat /\ out'[k].s < out'[k].e /\ out'[k].e <= pos'
    <3>1. CASE k \in 1 .. n
      BY <1>1, <1>2, <1>5, <3>1
    <3>2. CASE k = n + 1
      BY <1>1, <1>2, <1>3, <3>2
    <3> QED BY <1>4, <3>1, <3>2
  <2>2. ASSUME NEW k \in 1 .. n
        PROVE  out'[k].e <= out'[k + 1].s
    <3>1. CASE k = n
      BY <1>1, <1>2, <1>3, <1>5, <3>1
    <3>2. CASE k # n
      <4>1. k \in 1 .. n - 1 /\ k + 1 \in 1 .. n
        BY <1>2, <3>2
      <4> QED BY <1>2, <1>5, <4>1
    <3> QED BY <3>1, <3>2
  <2>3. Len(out') - 1 = n
    BY <1>2
  <2> QED BY <1>2, <2>1, <2>2, <2>3 DEF Ordered
<1>7. Covered'
  <2> SUFFICES ASSUME NEW i \in 1 .. pos' - 1, Outside(i)'
               PROVE  Layout(i)'
    BY DEF Covered
  <2>1. CASE i \in to .. pos' - 1
    BY <2>1
  <2>2. CASE i \in pos .. to - 1
    <3>1. n + 1 \in DOMAIN out' /\ out'[n + 1].s <= i /\ i < out'[n + 1].e /\ i \in Nat
      BY <1>1, <1>2, <1>3, <2>2
    <3>2. i < out'[n + 1].s \/ i >= out'[n + 1].e
      BY <3>1 DEF Outside
    <3> QED BY <1>1, <1>2, <1>3, <3>1, <3>2
  <2>3. CASE i \in 1 .. pos - 1
    <3>1. \A k \in n + 1 .. n + 1 : out'[k].s \in Nat /\ pos <= out'[k].s
      BY <1>1, <1>2, <1>3
    <3>2. Len(out) <= Len(out') /\ Len(out) = n /\ Len(out') = n + 1
      BY <1>2 DEF n
    <3>3. /\ \A k \in Len(out) + 1 .. Len(out') : out'[k].s \in Nat /\ pos <= out'[k].s
          /\ \A k \in 1 .. Len(out) : out'[k] = out[k]
      BY <1>2, <3>1, <3>2
    <3> QED BY <1>2, <2>3, <3>2, <3>3, CoveredStays, Zenon
  <2>4. i \in to .. pos' - 1 \/ i \in pos .. to - 1 \/ i \in 1 .. pos - 1
    <3>1. \A p, r \in Nat, q, x \in Int : x \in 1 .. q - 1 => x \in r .. q - 1 \/ x \in p .. r - 1 \/ x \in 1 .. p - 1
      OBVIOUS
    <3>2. pos' \in Int /\ i \in Int
      BY <1>1
    <3> QED BY <1>1, <3>1, <3>2, Zenon
  <2> QED BY <2>1, <2>2, <2>3, <2>4
<1>8. pos' \in 1 .. Len(text') + 1 /\ IsFile'
  <2>1. text' = text /\ IsFile'
    BY <1>1 DEF IsFile
  <2>2. \A p, m \in Nat, q \in Int : q \in p + 1 .. m + 1 => q \in 1 .. m + 1
    OBVIOUS
  <2>3. pos' \in Int
    BY <1>1
  <2>4. pos' \in 1 .. Len(text) + 1
    BY <1>1, <2>2, <2>3, Zenon
  <2> QED BY <2>1, <2>4
<1> QED BY <1>6, <1>7, <1>8 DEF Read

\* A semicolon and the literal behind it, with blanks between.
LEMMA TwoTokensKeep ==
  ASSUME Read, UNCHANGED text, NEW t1, NEW t2, NEW from, from \in Nat, pos < from, pos' \in from + 1 .. Len(text) + 1,
         out' = Append(Append(out, Token(t1, pos, pos + 1)), Token(t2, from, pos')),
         \A i \in pos + 1 .. from - 1 : Layout(i)'
  PROVE  Read'
<1> DEFINE n == Len(out)
           semi == Token(t1, pos, pos + 1)
           lit == Token(t2, from, pos')
           mid == Append(out, semi)
<1>1. /\ pos \in Nat /\ 1 <= pos /\ Len(text) \in Nat /\ IsFile
      /\ from \in Nat /\ pos < from /\ from < pos' /\ pos' \in Nat /\ pos < pos'
  BY Here
<1>2. /\ n \in Nat /\ DOMAIN out = 1 .. n
      /\ Sequence(mid) /\ Len(mid) = n + 1 /\ DOMAIN mid = 1 .. n + 1
      /\ \A k \in 1 .. n : mid[k] = out[k]
      /\ mid[n + 1] = semi
  BY AppendFacts DEF Read, Ordered
<1>3. /\ Sequence(Append(mid, lit)) /\ Len(Append(mid, lit)) = Len(mid) + 1
      /\ DOMAIN Append(mid, lit) = 1 .. Len(mid) + 1
      /\ \A k \in 1 .. Len(mid) : Append(mid, lit)[k] = mid[k]
      /\ Append(mid, lit)[Len(mid) + 1] = lit
  BY <1>2, AppendFacts
<1>4. out' = Append(mid, lit)
  OBVIOUS
<1>5. semi.s = pos /\ semi.e = pos + 1 /\ lit.s = from /\ lit.e = pos'
  BY DEF Token
<1> HIDE DEF n, semi, lit, mid
<1>6. /\ Sequence(out') /\ Len(out') = n + 2 /\ DOMAIN out' = 1 .. n + 2
      /\ \A k \in 1 .. n : out'[k] = out[k]
      /\ out'[n + 1] = semi /\ out'[n + 2] = lit
  <2>1. n + 1 + 1 = n + 2 /\ n + 1 \in 1 .. n + 1 /\ 1 .. n \subseteq 1 .. n + 1
    BY <1>2
  <2> QED BY <1>2, <1>3, <1>4, <2>1
<1>7. \A k \in 1 .. n + 2 : k \in 1 .. n \/ k = n + 1 \/ k = n + 2
  BY <1>2
<1>8. \A k \in 1 .. n : /\ out[k].s \in Nat /\ out[k].e \in Nat /\ out[k].s < out[k].e /\ out[k].e <= pos
                        /\ k \in 1 .. n - 1 => out[k].e <= out[k + 1].s
  BY <1>2 DEF Read, Ordered, n
<1>9. Ordered'
  <2>1. ASSUME NEW k \in 1 .. n + 2
        PROVE  out'[k].s \in Nat /\ out'[k].e \in Nat /\ out'[k].s < out'[k].e /\ out'[k].e <= pos'
    <3>1. CASE k \in 1 .. n
      <4>1. out'[k] = out[k]
        BY <1>6, <3>1
      <4>2. out[k].s \in Nat /\ out[k].e \in Nat /\ out[k].s < out[k].e /\ out[k].e <= pos
        BY <1>8, <3>1
      <4>3. out[k].e <= pos'
        BY <1>1, <4>2
      <4> QED BY <4>1, <4>2, <4>3
    <3>2. CASE k = n + 1
      <4>1. out'[k].s = pos /\ out'[k].e = pos + 1
        BY <1>5, <1>6, <3>2
      <4>2. pos \in Nat /\ pos + 1 \in Nat /\ pos < pos + 1 /\ pos + 1 <= pos'
        BY <1>1
      <4> QED BY <4>1, <4>2, Zenon
    <3>3. CASE k = n + 2
      <4>1. out'[k].s = from /\ out'[k].e = pos'
        BY <1>5, <1>6, <3>3
      <4>2. from \in Nat /\ pos' \in Nat /\ from < pos' /\ pos' <= pos'
        BY <1>1
      <4> QED BY <4>1, <4>2, Zenon
    <3> QED BY <1>7, <3>1, <3>2, <3>3
  <2>2. ASSUME NEW k \in 1 .. n + 1
        PROVE  out'[k].e <= out'[k + 1].s
    <3>1. CASE k = n + 1
      <4>1. k + 1 = n + 2
        BY <1>2, <3>1
      <4> QED BY <1>1, <1>5, <1>6, <3>1, <4>1
    <3>2. CASE k = n
      BY <1>1, <1>2, <1>5, <1>6, <1>8, <3>2
    <3>3. CASE k # n /\ k # n + 1
      <4>1. k \in 1 .. n /\ k \in 1 .. n - 1 /\ k + 1 \in 1 .. n
        BY <1>2, <3>3
      <4> QED BY <1>6, <1>8, <4>1
    <3> QED BY <3>1, <3>2, <3>3
  <2>3. Len(out') - 1 = n + 1
    BY <1>2, <1>6
  <2> QED BY <1>6, <2>1, <2>2, <2>3 DEF Ordered
<1>10. Covered'
  <2> SUFFICES ASSUME NEW i \in 1 .. pos' - 1, Outside(i)'
               PROVE  Layout(i)'
    BY DEF Covered
  <2>1. i \in Int /\ (i \in 1 .. pos - 1 \/ i = pos \/ i \in pos + 1 .. from - 1 \/ i \in from .. pos' - 1)
    <3>1. \A p, r \in Nat, e, x \in Int :
            x \in 1 .. e - 1 => x \in 1 .. p - 1 \/ x = p \/ x \in p + 1 .. r - 1 \/ x \in r .. e - 1
      OBVIOUS
    <3>2. pos' \in Int /\ i \in Int
      BY <1>1
    <3> QED BY <1>1, <3>1, <3>2, Zenon
  <2>2. CASE i \in from .. pos' - 1
    <3>1. n + 2 \in DOMAIN out' /\ out'[n + 2].s = from /\ out'[n + 2].e = pos'
      BY <1>2, <1>5, <1>6
    <3>2. i < out'[n + 2].s \/ i >= out'[n + 2].e
      BY <3>1 DEF Outside
    <3> QED BY <1>1, <2>1, <2>2, <3>1, <3>2
  <2>3. CASE i \in pos + 1 .. from - 1
    BY <2>3
  <2>4. CASE i = pos
    <3>1. n + 1 \in DOMAIN out' /\ out'[n + 1].s = pos /\ out'[n + 1].e = pos + 1
      BY <1>2, <1>5, <1>6
    <3>2. i < out'[n + 1].s \/ i >= out'[n + 1].e
      BY <3>1 DEF Outside
    <3> QED BY <1>1, <2>1, <2>4, <3>1, <3>2
  <2>5. CASE i \in 1 .. pos - 1
    <3>1. \A k \in n + 1 .. n + 2 : out'[k].s \in Nat /\ pos <= out'[k].s
      <4>1. \A k \in n + 1 .. n + 2 : k = n + 1 \/ k = n + 2
        BY <1>2
      <4> QED BY <1>1, <1>5, <1>6, <4>1
    <3>2. Len(out) <= Len(out') /\ Len(out) = n /\ Len(out') = n + 2
      BY <1>2, <1>6 DEF n
    <3>3. /\ \A k \in Len(out) + 1 .. Len(out') : out'[k].s \in Nat /\ pos <= out'[k].s
          /\ \A k \in 1 .. Len(out) : out'[k] = out[k]
      BY <1>6, <3>1, <3>2
    <3> QED BY <1>6, <2>5, <3>2, <3>3, CoveredStays, Zenon
  <2> QED BY <2>1, <2>2, <2>3, <2>4, <2>5
<1>11. pos' \in 1 .. Len(text') + 1 /\ IsFile'
  <2>1. text' = text /\ IsFile'
    BY <1>1 DEF IsFile
  <2>2. \A p, m \in Nat, q \in Int : q \in p + 1 .. m + 1 => q \in 1 .. m + 1
    OBVIOUS
  <2>3. pos' \in Int
    BY <1>1
  <2>4. pos' \in 1 .. Len(text) + 1
    BY <1>1, <2>2, <2>3, Zenon
  <2> QED BY <2>1, <2>4
<1> QED BY <1>9, <1>10, <1>11 DEF Read

-----------------------------------------------------------------------------
(* What a step comes to.                                                    *)

Goes == Read' /\ pos' \in pos + 1 .. Len(text) + 1

\* A token that is all there is to the step.
LEMMA EmitGoes ==
  ASSUME Read, UNCHANGED text, NEW t, NEW to, to \in pos + 1 .. Len(text) + 1, Emit(t, to)
  PROVE  Goes
<1>1. pos \in Nat /\ Len(text) \in Nat /\ to \in Nat
  BY Here
<1>2. pos' = to /\ out' = Append(out, Token(t, pos, to))
  BY DEF Emit
<1>3. \A i \in to .. to - 1 : Layout(i)'
  BY <1>1
<1>4. to \in pos + 1 .. to
  BY <1>1
<1>5. Read'
  BY <1>2, <1>3, <1>4, TokenKeeps
<1> QED BY <1>2, <1>5 DEF Goes

-----------------------------------------------------------------------------
(* Places before and behind one another.                                    *)

LEMMA NatInt ==
  ASSUME NEW n \in Nat
  PROVE  n \in Int /\ n + 1 \in Int
OBVIOUS

LEMMA NextPlace ==
  ASSUME NEW q \in Int, NEW m \in Nat, q \in 1 .. m
  PROVE  q \in 1 .. m + 1 /\ q + 1 \in 1 .. m + 1 /\ q + 1 \in q + 1 .. m + 1
OBVIOUS

LEMMA Placed ==
  ASSUME NEW b \in Nat, NEW d \in Nat, NEW a \in b .. d - 1
  PROVE  b <= a /\ a \in Nat /\ \A j \in b .. a - 1 : j \in b .. d - 2
OBVIOUS

LEMMA Only ==
  ASSUME NEW b \in Int, NEW c, c = b + 1, NEW a \in b .. c - 1
  PROVE  a = b
OBVIOUS

LEMMA SpansOfLine ==
  ASSUME NEW p \in Nat, NEW m \in Nat, NEW q \in Int, NEW r \in Int,
         q \in p + 3 .. m + 1, r \in q .. m + 1, r <= q + 1
  PROVE  p + 3 \in p + 1 .. r /\ r \in p + 1 .. m + 1 /\ \A j \in p + 3 .. r - 2 : j \in p + 3 .. q - 1
OBVIOUS

LEMMA TitleSpan ==
  ASSUME NEW p \in Nat, NEW m \in Nat, NEW q \in p + 1 .. m + 1, NEW r \in q .. m + 1, r <= q + 1
  PROVE  q \in p + 1 .. r /\ \A j \in q .. r - 2 : FALSE
OBVIOUS

LEMMA Further ==
  ASSUME NEW p \in Nat, NEW m \in Nat, p \in 1 .. m
  PROVE  /\ p <= m
         /\ \A q \in p .. m + 1 : q # p => /\ q \in p + 1 .. m + 1
                                           /\ \A r \in q .. m + 1 : r \in p + 1 .. m + 1
OBVIOUS

LEMMA Starts ==
  ASSUME NEW p \in Nat, 1 <= p, NEW e, NEW i \in p .. e - 1
  PROVE  p \in 1 .. i
OBVIOUS

LEMMA UpTo ==
  ASSUME NEW p \in Nat, NEW m \in Nat, NEW e \in p + 1 .. m + 1, NEW q, q = e, NEW i \in p .. q - 1
  PROVE  \A n \in p .. i : n \in p .. e - 1
OBVIOUS

LEMMA Twice ==
  ASSUME NEW p \in Int
  PROVE  p + 1 + 1 = p + 2 /\ p + 2 \in Int
OBVIOUS

LEMMA FromTwo ==
  ASSUME NEW p \in Nat, NEW m \in Nat
  PROVE  /\ \A j \in p + 2 .. m : j \in Nat
         /\ \A j \in p + 2 .. m - 1 : j \in Int /\ j \in p + 2 .. m /\ j \in 1 .. m /\ j + 1 \in 1 .. m
OBVIOUS

LEMMA Outer ==
  ASSUME NEW p \in Nat, NEW m \in Nat, NEW q, q = m + 1
  PROVE  /\ m + 1 \notin 1 .. m
         /\ p \in 1 .. m =>
              /\ q \in p + 1 .. m + 1
              /\ \A i \in p .. q - 1 : \A n \in p + 2 .. i - 3 : n \in p + 2 .. m - 1
OBVIOUS

LEMMA Behind ==
  ASSUME NEW p \in Nat, NEW l \in Nat, NEW m \in p + 2 .. l, m + 1 \in 1 .. l,
         NEW q, q = m + 2 \/ (q = m + 2 + 1 /\ m + 2 \in 1 .. l)
  PROVE  /\ q \in p + 1 .. l + 1
         /\ \A i \in p .. q - 1 : \A n \in p + 2 .. i - 3 : n \in p + 2 .. l - 1 /\ ~(m <= n)
OBVIOUS

LEMMA Farther ==
  ASSUME NEW p \in Nat, NEW m \in Nat
  PROVE  /\ \A q \in p + 1 .. m + 1 : q \in Int /\ q \in Nat /\ p < q
         /\ \A q \in p + 1 + 1 .. m + 1 : q \in p + 1 .. m + 1
OBVIOUS

LEMMA Beyond ==
  ASSUME NEW p \in Nat, NEW m \in Nat, NEW q \in Nat, p < q, NEW r \in q + 1 .. m + 1
  PROVE  r \in p + 1 .. m + 1
OBVIOUS

-----------------------------------------------------------------------------
(* The ways of going on, one lemma each.                                    *)

\* A character of the file is before its end.
LEMMA Within ==
  ASSUME Read, NEW p \in Int, At(p) # ""
  PROVE  /\ p \in 1 .. Len(text) /\ p \in 1 .. Len(text) + 1 /\ p + 1 \in 1 .. Len(text) + 1
         /\ p + 1 \in p + 1 .. Len(text) + 1
         /\ At(p) = text[p]
<1>1. Len(text) \in Nat /\ IsFile
  BY Here
<1>2. p \in 1 .. Len(text)
  BY <1>1, Characters, Zenon
<1>3. At(p) = text[p]
  BY <1>1, <1>2, Characters
<1> QED BY <1>1, <1>2, <1>3, NextPlace, Zenon

\* No token reaches the next character.
LEMMA OutsideHere ==
  ASSUME Read
  PROVE  Outside(pos)
<1>1. pos \in Nat /\ DOMAIN out = 1 .. Len(out)
  BY Here
<1>2. \A k \in 1 .. Len(out) : out[k].e \in Nat /\ out[k].e <= pos
  BY DEF Read, Ordered
<1> QED BY <1>1, <1>2 DEF Outside

\* A token whose line has nothing more to say.
LEMMA TitleGoes ==
  ASSUME Read, UNCHANGED text, NEW t \in {"Ellipsis", "Section"}, NEW to, to \in pos + 1 .. pos',
         pos' \in pos + 1 .. Len(text) + 1, out' = Append(out, Token(t, pos, to)),
         \A j \in to .. pos' - 2 : text[j] # "\n"
  PROVE  Goes
<1>1. pos \in Nat /\ Len(text) \in Nat /\ to \in Nat /\ pos' \in Nat
  BY Here
<1>2. /\ Len(out) + 1 \in DOMAIN out'
      /\ out'[Len(out) + 1] = Token(t, pos, to)
  <2>1. /\ Len(out) \in Nat
        /\ DOMAIN out' = 1 .. Len(out) + 1 /\ out'[Len(out) + 1] = Token(t, pos, to)
    BY AppendFacts DEF Read, Ordered
  <2> QED BY <2>1
<1>3. ASSUME NEW i \in to .. pos' - 1
      PROVE  Layout(i)'
  <2>1. out'[Len(out) + 1].t \in {"Ellipsis", "Section"} /\ out'[Len(out) + 1].e = to
    BY <1>2 DEF Token
  <2>2. to <= i /\ \A j \in to .. i - 1 : j \in to .. pos' - 2
    BY <1>1, Placed, Zenon
  <2>3. \A j \in to .. i - 1 : text'[j] # "\n"
    BY <2>2
  <2>4. InEllipsis(i)'
    BY <1>2, <2>1, <2>2, <2>3 DEF InEllipsis
  <2> QED BY <2>4 DEF Layout
<1>4. Read'
  BY <1>3, TokenKeeps
<1> QED BY <1>4 DEF Goes

\* What is blank is layout, whatever the tokens are.
LEMMA BlankIsLayout ==
  ASSUME UNCHANGED text, NEW i, text[i] = " "
  PROVE  Layout(i)'
<1>1. text' = text
  OBVIOUS
<1>2. text'[i] = " "
  BY <1>1, Zenon
<1> QED BY <1>2, Zenon DEF Layout

LEMMA BlankGoes ==
  ASSUME Read, UNCHANGED text, Blank
  PROVE  Goes
<1>1. pos \in Int /\ At(pos) # "" /\ At(pos) = " "
  <2>1. pos \in Int
    BY Here
  <2> QED BY <2>1, Zenon DEF Blank
<1>2. pos' = pos + 1 /\ out' = out
  BY Zenon DEF Blank, Skip
<1>3. pos' \in pos + 1 .. Len(text) + 1 /\ text[pos] = " "
  BY <1>1, <1>2, Within, Zenon
<1>4. ASSUME NEW i \in pos .. pos' - 1
      PROVE  Layout(i)'
  <2>2. i = pos
    BY <1>1, <1>2, Only, Zenon
  <2> QED BY <1>3, <2>2, BlankIsLayout, Zenon
<1>5. Read'
  BY <1>2, <1>3, <1>4, SkipKeeps, Zenon
<1> QED BY <1>3, <1>5, Zenon DEF Goes

\* A run of line ends, and the end of a line that begins with something else.
LEMMA RunFacts ==
  ASSUME Read, NEW c, c # "", At(pos) = c
  PROVE  /\ Past(pos, {c}) \in pos + 1 .. Len(text) + 1
         /\ c # "\n" => /\ findLineTerminator(pos) \in pos + 1 .. Len(text) + 1
                        /\ AfterLine(pos) \in findLineTerminator(pos) .. Len(text) + 1
                        /\ AfterLine(pos) \in pos + 1 .. Len(text) + 1
                        /\ AfterLine(pos) <= findLineTerminator(pos) + 1
<1>1. IsFile /\ pos \in Int /\ pos \in Nat /\ Len(text) \in Nat
  <2>1. IsFile /\ pos \in Nat /\ Len(text) \in Nat
    BY Here, Zenon
  <2> QED BY <2>1, NatInt, Zenon
<1>2. pos \in 1 .. Len(text) + 1 /\ text[pos] = c /\ pos \in 1 .. Len(text)
  BY <1>1, Within, Zenon
<1> DEFINE p == Past(pos, {c})
           eol == findLineTerminator(pos)
           after == AfterLine(pos)
<1>3. p \in pos .. Len(text) + 1 /\ (p <= Len(text) => text[p] \notin {c})
  BY <1>1, <1>2, PastFacts, Zenon
<1>4. p # pos
  <2>1. pos <= Len(text) /\ text[pos] \in {c}
    BY <1>1, <1>2, Further, Zenon
  <2> QED BY <1>3, <2>1, Zenon
<1>5. ASSUME c # "\n"
      PROVE  /\ eol \in pos .. Len(text) + 1 /\ eol # pos
             /\ after \in eol .. Len(text) + 1 /\ after <= eol + 1
  <2>1. eol \in pos .. Len(text) + 1 /\ after \in eol .. Len(text) + 1 /\ after <= eol + 1
    BY <1>1, <1>2, LineFacts, Zenon
  <2>2. eol <= Len(text) => text[eol] \in {"\n"}
    BY <1>1, <1>2, SeekFacts, Zenon DEF findLineTerminator
  <2>3. eol # pos
    <3>1. pos <= Len(text) /\ text[pos] \notin {"\n"}
      <4>1. pos <= Len(text)
        BY <1>1, <1>2, Further, Zenon
      <4> QED BY <4>1, <1>2, <1>5
    <3> QED BY <2>2, <3>1, Zenon
  <2> QED BY <2>1, <2>3
<1> HIDE DEF p, eol, after
<1>6. p \in pos + 1 .. Len(text) + 1
  BY <1>1, <1>2, <1>3, <1>4, Further, Zenon
<1>7. c # "\n" => /\ eol \in pos + 1 .. Len(text) + 1 /\ after \in eol .. Len(text) + 1
                  /\ after \in pos + 1 .. Len(text) + 1 /\ after <= eol + 1
  <2>1. eol \in pos .. Len(text) + 1 /\ eol # pos /\ after \in eol .. Len(text) + 1
        => eol \in pos + 1 .. Len(text) + 1 /\ after \in pos + 1 .. Len(text) + 1
    BY <1>1, <1>2, Further, Zenon
  <2> QED BY <1>5, <2>1, Zenon
<1> QED BY <1>6, <1>7, Zenon DEF p, eol, after

LEMMA NewlineGoes ==
  ASSUME Read, UNCHANGED text, Newline
  PROVE  Goes
<1>1. At(pos) = "\n" /\ Emit("\n", Past(pos, {"\n"}))
  BY Zenon DEF Newline
<1>2. "\n" # ""
  OBVIOUS
<1> QED BY <1>1, <1>2, RunFacts, EmitGoes, Zenon

LEMMA FollowsFacts ==
  ASSUME NEW i \in Int, NEW a, NEW b
  PROVE  /\ Follows(i, <<a, b>>) <=> At(i) = a /\ At(i + 1) = b
         /\ \A c : Follows(i, <<a, b, c>>) => At(i) = a /\ At(i + 1) = b /\ At(i + 2) = c
<1>1. i + 1 - 1 = i /\ i + 2 - 1 = i + 1 /\ i + 3 - 1 = i + 2
  OBVIOUS
<1>2. DOMAIN <<a, b>> = {1, 2} /\ <<a, b>>[1] = a /\ <<a, b>>[2] = b
  OBVIOUS
<1>3. ASSUME NEW c
      PROVE  {1, 2, 3} \subseteq DOMAIN <<a, b, c>> /\ <<a, b, c>>[1] = a /\ <<a, b, c>>[2] = b /\ <<a, b, c>>[3] = c
  OBVIOUS
<1>4. Follows(i, <<a, b>>) <=> At(i) = a /\ At(i + 1) = b
  <2>1. Follows(i, <<a, b>>) <=> At(i + 1 - 1) = <<a, b>>[1] /\ At(i + 2 - 1) = <<a, b>>[2]
    BY <1>2, Zenon DEF Follows
  <2> QED BY <1>1, <1>2, <2>1, Zenon
<1>5. ASSUME NEW c, Follows(i, <<a, b, c>>)
      PROVE  At(i) = a /\ At(i + 1) = b /\ At(i + 2) = c
  <2>1. 1 \in DOMAIN <<a, b, c>> /\ 2 \in DOMAIN <<a, b, c>> /\ 3 \in DOMAIN <<a, b, c>>
    BY <1>3, Zenon
  <2>2. /\ At(i + 1 - 1) = <<a, b, c>>[1] /\ At(i + 2 - 1) = <<a, b, c>>[2]
        /\ At(i + 3 - 1) = <<a, b, c>>[3]
    BY <1>5, <2>1, Zenon DEF Follows
  <2> QED BY <1>1, <1>3, <2>2, Zenon
<1> QED BY <1>4, <1>5, Zenon

LEMMA EllipsisGoes ==
  ASSUME Read, UNCHANGED text, Ellipsis
  PROVE  Goes
<1>1. /\ Follows(pos, <<".", ".", ".">>) /\ pos' = AfterLine(pos + 3)
      /\ out' = Append(out, Token("Ellipsis", pos, pos + 3))
  BY Zenon DEF Ellipsis
<1>2. pos \in Nat /\ pos \in Int /\ pos + 2 \in Int /\ pos + 2 + 1 = pos + 3 /\ Len(text) \in Nat /\ IsFile
  BY Here
<1>3. At(pos + 2) # ""
  <2>1. At(pos + 2) = "."
    BY <1>1, <1>2, FollowsFacts, Zenon
  <2> QED BY <2>1
<1>4. pos + 3 \in 1 .. Len(text) + 1
  BY <1>2, <1>3, Within, Zenon
<1>5. /\ findLineTerminator(pos + 3) \in pos + 3 .. Len(text) + 1
      /\ \A j \in pos + 3 .. findLineTerminator(pos + 3) - 1 : text[j] # "\n"
      /\ pos' \in findLineTerminator(pos + 3) .. Len(text) + 1
      /\ pos' <= findLineTerminator(pos + 3) + 1
  BY <1>1, <1>2, <1>4, LineFacts, Zenon
<1> DEFINE eol == findLineTerminator(pos + 3)
<1> HIDE DEF eol
<1>6. /\ pos + 3 \in pos + 1 .. pos' /\ pos' \in pos + 1 .. Len(text) + 1
      /\ \A j \in pos + 3 .. pos' - 2 : j \in pos + 3 .. eol - 1
  <2>1. /\ eol \in pos + 3 .. Len(text) + 1 /\ pos' \in eol .. Len(text) + 1 /\ pos' <= eol + 1
    BY <1>5, Zenon DEF eol
  <2>2. \A p, m \in Nat, q, r \in Int :
          q \in p + 3 .. m + 1 /\ r \in q .. m + 1 /\ r <= q + 1
          => p + 3 \in p + 1 .. r /\ r \in p + 1 .. m + 1 /\ \A j \in p + 3 .. r - 2 : j \in p + 3 .. q - 1
    BY SpansOfLine
  <2>3. eol \in Int /\ pos' \in Int
    BY <2>1, <1>2
  <2> QED BY <1>2, <2>1, <2>2, <2>3, Zenon
<1>7. \A j \in pos + 3 .. pos' - 2 : text[j] # "\n"
  BY <1>5, <1>6, Zenon DEF eol
<1> QED BY <1>1, <1>6, <1>7, TitleGoes, Zenon

LEMMA SectionGoes ==
  ASSUME Read, UNCHANGED text, Section
  PROVE  Goes
<1> DEFINE eol == findLineTerminator(pos)
<1>1. /\ Follows(pos, <<"%", "%">>) /\ pos' = AfterLine(pos)
      /\ out' = Append(out, Token("Section", pos, eol))
  BY Zenon DEF Section, OpensSection
<1>2. At(pos) = "%" /\ "%" # "" /\ "%" # "\n"
  <2>1. pos \in Int
    BY Here
  <2>2. "%" # "" /\ "%" # "\n"
    OBVIOUS
  <2> QED BY <1>1, <2>1, <2>2, FollowsFacts, Zenon
<1>3. /\ eol \in pos + 1 .. Len(text) + 1 /\ pos' \in eol .. Len(text) + 1
      /\ pos' \in pos + 1 .. Len(text) + 1 /\ pos' <= eol + 1
  BY <1>1, <1>2, RunFacts, Zenon
<1> HIDE DEF eol
<1>4. pos \in Nat /\ Len(text) \in Nat
  BY Here
<1>5. eol \in pos + 1 .. pos' /\ \A j \in eol .. pos' - 2 : FALSE
  BY <1>3, <1>4, TitleSpan, Zenon
<1> QED BY <1>1, <1>3, <1>5, TitleGoes, Zenon DEF eol

\* A step that skips a comment which begins here.
LEMMA CommentGoes ==
  ASSUME Read, UNCHANGED <<text, out>>, NEW j, j = pos, text[j] = "%", pos' \in pos + 1 .. Len(text) + 1,
         \A i \in pos .. pos' - 1 :
           \/ \A n \in j .. i : text[n] # "\n"
           \/ BlockStart(j) /\ \A n \in j + 2 .. i - 3 : ~(text[n] = "%" /\ text[n + 1] = "}")
  PROVE  Goes
<1>1. pos \in Nat /\ 1 <= pos /\ Len(text) \in Nat
  BY Here, Zenon
<1>2. Outside(j)'
  <2>1. Outside(j)
    BY OutsideHere, Zenon
  <2> QED BY <2>1, Zenon DEF Outside
<1>3. BlockStart(j) => BlockStart(j)'
  BY Zenon DEF BlockStart, At
<1>4. ASSUME NEW i \in pos .. pos' - 1
      PROVE  Layout(i)'
  <2>1. j \in 1 .. i
    BY <1>1, Starts, Zenon
  <2>2. \/ \A n \in j .. i : text[n] # "\n"
        \/ BlockStart(j) /\ \A n \in j + 2 .. i - 3 : ~(text[n] = "%" /\ text[n + 1] = "}")
    BY Zenon
  <2>3. \/ \A n \in j .. i : text'[n] # "\n"
        \/ BlockStart(j)' /\ \A n \in j + 2 .. i - 3 : ~(text'[n] = "%" /\ text'[n + 1] = "}")
    BY <1>3, <2>2, Zenon
  <2>4. text'[j] = "%"
    BY Zenon
  <2> QED BY <1>2, <2>1, <2>3, <2>4, Zenon DEF Layout, InComment
<1>5. Read'
  BY <1>4, SkipKeeps, Zenon
<1> QED BY <1>5, Zenon DEF Goes

LEMMA LineCommentGoes ==
  ASSUME Read, UNCHANGED text, LineComment
  PROVE  Goes
<1> DEFINE eol == findLineTerminator(pos)
<1>1. At(pos) = "%" /\ pos' = eol /\ out' = out
  BY Zenon DEF LineComment, Skip
<1>2. "%" # "" /\ "%" # "\n"
  OBVIOUS
<1>3. IsFile /\ pos \in Nat /\ pos \in Int /\ Len(text) \in Nat
  BY Here, NatInt, Zenon
<1>4. pos \in 1 .. Len(text) /\ text[pos] = "%" /\ pos \in 1 .. Len(text) + 1
  BY <1>1, <1>2, <1>3, Within, Zenon
<1>5. eol \in pos + 1 .. Len(text) + 1
  BY <1>1, <1>2, RunFacts, Zenon
<1>6. \A j \in pos .. eol - 1 : text[j] # "\n"
  BY <1>3, <1>4, LineFacts, Zenon
<1> HIDE DEF eol
<1>7. ASSUME NEW i \in pos .. pos' - 1
      PROVE  \A n \in pos .. i : text[n] # "\n"
  <2>1. \A n \in pos .. i : n \in pos .. eol - 1
    BY <1>1, <1>3, <1>5, UpTo, Zenon
  <2> QED BY <1>6, <2>1, Zenon
<1>8. pos' \in pos + 1 .. Len(text) + 1 /\ UNCHANGED <<text, out>>
  BY <1>1, <1>5, Zenon
<1> QED BY <1>4, <1>7, <1>8, CommentGoes, Zenon

LEMMA BlockCommentGoes ==
  ASSUME Read, UNCHANGED text, BlockComment
  PROVE  Goes
<1> DEFINE past == Past(pos + 2, {" "})
           ends == {j \in pos + 2 .. Len(text) : Follows(j, <<"%", "}">>)}
<1>1. /\ Follows(pos, <<"%", "{">>) /\ At(past) \in {"\n", ""} /\ out' = out
      /\ pos' = IF At(BlockEnd) = "\n" THEN BlockEnd + 1 ELSE BlockEnd
  BY Zenon DEF BlockComment, OpensBlock, Skip
<1>2. "%" # "" /\ "{" # "" /\ "}" # "" /\ "\n" # ""
  OBVIOUS
<1>3. IsFile /\ pos \in Nat /\ pos \in Int /\ pos + 1 \in Int /\ Len(text) \in Nat
  BY Here, NatInt, Zenon
<1>4. At(pos) = "%" /\ At(pos + 1) = "{"
  BY <1>1, <1>3, FollowsFacts, Zenon
<1>5. pos \in 1 .. Len(text) /\ text[pos] = "%"
  BY <1>2, <1>3, <1>4, Within, Zenon
<1>6. pos + 1 \in 1 .. Len(text) /\ pos + 1 + 1 = pos + 2 /\ pos + 1 + 1 \in 1 .. Len(text) + 1
  <2>1. pos + 1 + 1 = pos + 2
    BY <1>3, Twice, Zenon
  <2> QED BY <1>2, <1>3, <1>4, <2>1, Within, Zenon
<1>7. BlockStart(pos)
  <2>1. /\ past \in pos + 2 .. Len(text) + 1
        /\ \A j \in pos + 2 .. past - 1 : text[j] \in {" "}
    BY <1>3, <1>6, PastFacts, Zenon
  <2> QED BY <1>1, <1>4, <2>1, Zenon DEF BlockStart
<1>8. BlockEnd = IF ends = {} THEN Len(text) + 1 ELSE Min(ends) + 2
  BY DEF BlockEnd
<1>9. ends \in SUBSET Nat /\ ends \subseteq pos + 2 .. Len(text)
  <2>1. \A j \in pos + 2 .. Len(text) : j \in Nat
    BY <1>3, FromTwo, Zenon
  <2> QED BY <2>1, Zenon
<1>10. \A j \in pos + 2 .. Len(text) - 1 : text[j] = "%" /\ text[j + 1] = "}" => j \in ends
  <2> SUFFICES ASSUME NEW j \in pos + 2 .. Len(text) - 1, text[j] = "%", text[j + 1] = "}"
               PROVE  j \in ends
    BY Zenon
  <2>1. j \in Int /\ j \in pos + 2 .. Len(text) /\ j \in 1 .. Len(text) /\ j + 1 \in 1 .. Len(text)
    BY <1>3, FromTwo, Zenon
  <2>2. At(j) = "%" /\ At(j + 1) = "}"
    BY <1>3, <2>1, Characters, Zenon
  <2> QED BY <2>1, <2>2, FollowsFacts, Zenon
<1>11. ends # {} => Min(ends) \in ends /\ \A j \in ends : Min(ends) <= j
  BY <1>9, LeastOf, Zenon
<1>12. \A j \in ends : j + 1 \in 1 .. Len(text) /\ j \in Int
  <2> SUFFICES ASSUME NEW j \in ends
               PROVE  j + 1 \in 1 .. Len(text) /\ j \in Int
    BY Zenon
  <2>1. j \in Int /\ j + 1 \in Int
    BY <1>9, NatInt, Zenon
  <2>2. At(j + 1) = "}"
    BY <2>1, FollowsFacts, Zenon
  <2> QED BY <1>2, <2>1, <2>2, Within, Zenon
<1> HIDE DEF past, ends
<1>13. At(BlockEnd) = "\n" => BlockEnd \in 1 .. Len(text)
  <2>1. BlockEnd \in Int
    <3>1. CASE ends = {}
      BY <1>3, <1>8, <3>1, NatInt, Zenon
    <3>2. CASE ends # {}
      <4>1. Min(ends) \in Int
        BY <1>11, <1>12, <3>2, Zenon
      <4>2. Min(ends) + 2 \in Int
        BY <4>1, Twice, Zenon
      <4> QED BY <1>8, <3>2, <4>2, Zenon
    <3> QED BY <3>1, <3>2, Zenon
  <2> QED BY <1>2, <2>1, Within, Zenon
<1>14. /\ pos' \in pos + 1 .. Len(text) + 1
       /\ \A i \in pos .. pos' - 1 : \A n \in pos + 2 .. i - 3 :
            n \in pos + 2 .. Len(text) - 1 /\ n \notin ends
  <2>1. CASE ends = {}
    <3>1. BlockEnd = Len(text) + 1
      BY <1>8, <2>1, Zenon
    <3>2. BlockEnd \notin 1 .. Len(text)
      BY <1>3, <3>1, Outer, Zenon
    <3>3. pos' = Len(text) + 1
      BY <1>1, <1>13, <3>1, <3>2, Zenon
    <3>4. /\ pos' \in pos + 1 .. Len(text) + 1
          /\ \A i \in pos .. pos' - 1 : \A n \in pos + 2 .. i - 3 : n \in pos + 2 .. Len(text) - 1
      BY <1>3, <1>5, <3>3, Outer, Zenon
    <3> QED BY <2>1, <3>4, Zenon
  <2>2. CASE ends # {}
    <3> DEFINE m == Min(ends)
    <3>1. m \in pos + 2 .. Len(text) /\ m + 1 \in 1 .. Len(text) /\ m \in Int /\ BlockEnd = m + 2
      BY <1>8, <1>9, <1>11, <1>12, <2>2, Zenon
    <3>2. pos' = m + 2 \/ (pos' = m + 2 + 1 /\ m + 2 \in 1 .. Len(text))
      BY <1>1, <1>13, <3>1, Zenon
    <3>3. \A j \in ends : m <= j
      BY <1>11, <2>2, Zenon
    <3> HIDE DEF m
    <3>4. /\ pos' \in pos + 1 .. Len(text) + 1
          /\ \A i \in pos .. pos' - 1 : \A n \in pos + 2 .. i - 3 : n \in pos + 2 .. Len(text) - 1 /\ ~(m <= n)
      BY <1>3, <3>1, <3>2, Behind, Zenon
    <3> QED BY <3>3, <3>4, Zenon
  <2> QED BY <2>1, <2>2, Zenon
<1>15. \A i \in pos .. pos' - 1 : \A n \in pos + 2 .. i - 3 : ~(text[n] = "%" /\ text[n + 1] = "}")
  BY <1>10, <1>14, Zenon
<1>16. UNCHANGED <<text, out>>
  BY <1>1, Zenon
<1> QED BY <1>5, <1>7, <1>14, <1>15, <1>16, CommentGoes, Zenon

\* One character more is not past the end of the file.
LEMMA OneMore ==
  ASSUME Read, At(pos) # ""
  PROVE  /\ pos \in Nat /\ pos \in Int /\ pos + 1 \in Int /\ Len(text) \in Nat /\ IsFile
         /\ pos \in 1 .. Len(text)
         /\ pos + 1 \in pos + 1 .. Len(text) + 1 /\ pos + 1 \in 1 .. Len(text) + 1
<1>1. pos \in Nat /\ pos \in Int /\ pos + 1 \in Int /\ Len(text) \in Nat /\ IsFile
  BY Here, NatInt, Zenon
<1> QED BY <1>1, Within, Zenon

LEMMA TransposeGoes ==
  ASSUME Read, UNCHANGED text, Transpose
  PROVE  Goes
<1>1. At(pos) # ""
  <2>1. At(pos) = "'" /\ "'" # ""
    BY Zenon DEF Transpose, isTranspose
  <2> QED BY <2>1, Zenon
<1>2. Emit("Transpose", pos + 1)
  BY Zenon DEF Transpose
<1> QED BY <1>1, <1>2, OneMore, EmitGoes, Zenon

LEMMA LiteralGoes ==
  ASSUME Read, UNCHANGED text, Literal
  PROVE  Goes
<1> DEFINE close == Closing(pos + 1, At(pos))
<1>1. At(pos) # ""
  <2>1. At(pos) \in {"'", "\""} /\ "'" # "" /\ "\"" # ""
    BY Zenon DEF Literal
  <2> QED BY <2>1, Zenon
<1>2. /\ pos \in Nat /\ Len(text) \in Nat /\ pos + 1 \in pos + 1 .. Len(text) + 1
      /\ IsFile /\ pos + 1 \in 1 .. Len(text) + 1
  BY <1>1, OneMore, Zenon
<1>3. close = 0 \/ close \in pos + 1 + 1 .. Len(text) + 1
  BY <1>2, ClosingFacts, Zenon
<1>4. \/ Emit("Error", pos + 1)
      \/ close # 0 /\ (Emit("Char", close) \/ Emit("Str", close))
  BY Zenon DEF Literal
<1> HIDE DEF close
<1>5. close # 0 => close \in pos + 1 .. Len(text) + 1
  BY <1>2, <1>3, Farther, Zenon
<1> QED BY <1>2, <1>4, <1>5, EmitGoes, Zenon

LEMMA TwoCharGoes ==
  ASSUME Read, UNCHANGED text, TwoChar
  PROVE  Goes
<1>1. <<At(pos), At(pos + 1)>> \in DOMAIN TwoCharOps
  BY Zenon DEF TwoChar, isTwoChar
<1>2. \A a, b : <<a, b>> \in DOMAIN TwoCharOps => a # "" /\ b # ""
  <2>1. DOMAIN TwoCharOps = {<<".", "*">>, <<".", "/">>, <<".", "\\">>, <<".", "^">>, <<"&", "&">>,
          <<"|", "|">>, <<"=", "=">>, <<"~", "=">>, <<"<", "=">>, <<">", "=">>}
    BY DEF TwoCharOps
  <2> QED BY <2>1
<1>3. At(pos + 1) # "" /\ At(pos) # ""
  BY <1>1, <1>2, Zenon
<1>4. pos \in Nat /\ pos \in Int /\ pos + 1 \in Int /\ Len(text) \in Nat /\ pos + 1 + 1 = pos + 2
  BY <1>3, OneMore, Twice, Zenon
<1>5. pos + 2 \in pos + 1 + 1 .. Len(text) + 1
  BY <1>3, <1>4, Within, Zenon
<1>6. pos + 2 \in pos + 1 .. Len(text) + 1
  BY <1>4, <1>5, Farther, Zenon
<1>7. PICK t : Emit(t, pos + 2)
  BY Zenon DEF TwoChar
<1> QED BY <1>6, <1>7, EmitGoes, Zenon

LEMMA SingleCharGoes ==
  ASSUME Read, UNCHANGED text, SingleChar
  PROVE  Goes
<1> DEFINE quote == Past(pos + 1, {" "})
           close == IF At(pos) = ";" /\ At(quote) = "'" THEN Closing(quote + 1, "'") ELSE 0
<1>1. At(pos) # ""
  <2>1. At(pos) \in SingleCharOps
    BY Zenon DEF SingleChar
  <2>2. "" \notin SingleCharOps
    BY Zenon DEF SingleCharOps
  <2> QED BY <2>1, <2>2, Zenon
<1>2. /\ pos \in Nat /\ Len(text) \in Nat /\ pos + 1 \in pos + 1 .. Len(text) + 1
      /\ IsFile /\ pos + 1 \in 1 .. Len(text) + 1 /\ pos \in 1 .. Len(text)
  BY <1>1, OneMore, Zenon
<1>3. IF close = 0 THEN Emit(At(pos), pos + 1)
      ELSE /\ out' = Append(Append(out, Token(";", pos, pos + 1)), Token("Char", quote, close))
           /\ pos' = close
  BY Zenon DEF SingleChar
<1>4. CASE close = 0
  BY <1>2, <1>3, <1>4, EmitGoes, Zenon
<1>5. CASE close # 0
  <2>1. At(quote) = "'" /\ close = Closing(quote + 1, "'")
    BY <1>5, Zenon
  <2>2. /\ quote \in pos + 1 .. Len(text) + 1
        /\ \A i \in pos + 1 .. quote - 1 : text[i] \in {" "}
    BY <1>2, PastFacts, Zenon
  <2>3. out' = Append(Append(out, Token(";", pos, pos + 1)), Token("Char", quote, pos')) /\ pos' = close
    BY <1>3, <1>5, Zenon
  <2> HIDE DEF quote, close
  <2>4. quote \in Int /\ quote \in Nat /\ pos < quote
    BY <1>2, <2>2, Farther, Zenon
  <2>5. At(quote) # ""
    <3>1. "'" # ""
      OBVIOUS
    <3> QED BY <2>1, <3>1, Zenon
  <2>6. quote + 1 \in 1 .. Len(text) + 1
    BY <2>4, <2>5, Within, Zenon
  <2>7. close \in quote + 1 + 1 .. Len(text) + 1
    BY <1>2, <1>5, <2>1, <2>6, ClosingFacts, Zenon
  <2>8. pos' \in quote + 1 .. Len(text) + 1
    BY <1>2, <2>3, <2>4, <2>7, Farther, Zenon
  <2>9. \A i \in pos + 1 .. quote - 1 : Layout(i)'
    BY <2>2, BlankIsLayout, Zenon
  <2>10. Read'
    BY <2>3, <2>4, <2>8, <2>9, TwoTokensKeep, Zenon
  <2>11. pos' \in pos + 1 .. Len(text) + 1
    BY <1>2, <2>4, <2>8, Beyond, Zenon
  <2> QED BY <2>10, <2>11, Zenon DEF Goes
<1> QED BY <1>4, <1>5, Zenon

LEMMA NumberGoes ==
  ASSUME Read, UNCHANGED text, Number
  PROVE  Goes
<1> DEFINE point == IF At(pos) = "." THEN pos ELSE pos + 1
           float == At(point) = "." /\ At(point + 1) \notin {"*", "/", "\\", "^"}
<1>1. At(pos) # ""
  <2>1. At(pos) \in Numerals \/ At(pos) = "."
    BY Zenon DEF Number, isLeadingDotFloat
  <2>2. "." # ""
    OBVIOUS
  <2> QED BY <2>1, <2>2, LexerAssumption, Zenon
<1>2. /\ pos \in Nat /\ pos \in Int /\ pos + 1 \in Int /\ Len(text) \in Nat /\ IsFile
      /\ pos + 1 \in pos + 1 .. Len(text) + 1
  BY <1>1, OneMore, Zenon
<1>3. IF float THEN Emit("Float", Past(point + 1, Numerals)) ELSE Emit("Integer", pos + 1)
  BY Zenon DEF Number
<1>4. point = pos \/ point = pos + 1
  BY Zenon
<1>5. CASE ~float
  BY <1>2, <1>3, <1>5, EmitGoes, Zenon
<1>6. CASE float
  <2>1. Emit("Float", Past(point + 1, Numerals)) /\ At(point) = "."
    BY <1>3, <1>6, Zenon
  <2> HIDE DEF point
  <2>2. point \in Int /\ At(point) # ""
    <3>1. "." # ""
      OBVIOUS
    <3> QED BY <1>2, <1>4, <2>1, <3>1, Zenon
  <2>3. point + 1 \in 1 .. Len(text) + 1
    BY <2>2, Within, Zenon
  <2>4. Past(point + 1, Numerals) \in point + 1 .. Len(text) + 1
    BY <1>2, <2>3, PastFacts, Zenon
  <2>5. Past(point + 1, Numerals) \in pos + 1 .. Len(text) + 1
    BY <1>2, <1>4, <2>4, Farther, Zenon
  <2> QED BY <2>1, <2>5, EmitGoes, Zenon
<1> QED BY <1>5, <1>6, Zenon

LEMMA WordGoes ==
  ASSUME Read, UNCHANGED text, Word
  PROVE  Goes
<1>1. At(pos) # ""
  <2>1. At(pos) \in Names \cup Keywords
    BY Zenon DEF Word
  <2>2. "" \notin Keywords
    BY Zenon DEF Keywords
  <2> QED BY <2>1, <2>2, LexerAssumption, Zenon
<1>2. PICK t : Emit(t, pos + 1)
  BY Zenon DEF Word
<1> QED BY <1>1, <1>2, OneMore, EmitGoes, Zenon

LEMMA UnknownGoes ==
  ASSUME Read, UNCHANGED text, Unknown
  PROVE  Goes
<1>1. At(pos) # "" /\ Emit("Error", pos + 1)
  BY Zenon DEF Unknown
<1> QED BY <1>1, OneMore, EmitGoes, Zenon

-----------------------------------------------------------------------------
(* The lexer.                                                               *)

LEMMA InitRead ==
  ASSUME IsFile, LexInit
  PROVE  Read
<1>1. Len(text) \in Nat
  BY Characters
<1>2. pos = 1 /\ out = <<>>
  BY DEF LexInit
<1>3. Len(out) = 0 /\ Sequence(out)
  <2>1. <<>> \in Seq({}) /\ Len(<<>>) = 0
    OBVIOUS
  <2> QED BY <1>2, <2>1, OwnElements
<1>4. Ordered
  BY <1>3 DEF Ordered
<1>5. Covered
  BY <1>2 DEF Covered
<1> QED BY <1>1, <1>2, <1>4, <1>5 DEF Read

LEMMA LexGoes ==
  ASSUME Read, Lex
  PROVE  Goes
<1>1. /\ UNCHANGED text
      /\ \/ Blank \/ Newline \/ Ellipsis \/ BlockComment \/ Section \/ LineComment
         \/ Transpose \/ Literal \/ TwoChar \/ SingleChar \/ Number \/ Word \/ Unknown
  BY Zenon DEF Lex
<1> QED BY <1>1, BlankGoes, NewlineGoes, EllipsisGoes, BlockCommentGoes, SectionGoes, LineCommentGoes,
           TransposeGoes, LiteralGoes, TwoCharGoes, SingleCharGoes, NumberGoes, WordGoes, UnknownGoes, Zenon

LEMMA StutterKeepsRead ==
  ASSUME Read, UNCHANGED lexVars
  PROVE  Read'
<1>1. text' = text /\ pos' = pos /\ out' = out
  BY Zenon DEF lexVars
<1>2. IsFile' /\ (pos \in 1 .. Len(text) + 1)'
  BY <1>1, Zenon DEF Read, IsFile
<1>3. Ordered'
  BY <1>1, Zenon DEF Read, Ordered, Sequence
<1>4. ASSUME NEW i \in 1 .. pos - 1, Outside(i)'
      PROVE  Layout(i)'
  <2>1. \A j : Outside(j) <=> Outside(j)'
    BY <1>1, Zenon DEF Outside
  <2>2. \A j : BlockStart(j) => BlockStart(j)'
    BY <1>1, Zenon DEF BlockStart, At
  <2>3. Layout(i)
    BY <1>4, <2>1, Zenon DEF Read, Covered
  <2>4. InComment(i) => InComment(i)'
    BY <1>1, <2>1, <2>2, Zenon DEF InComment
  <2>5. InEllipsis(i) => InEllipsis(i)'
    BY <1>1, Zenon DEF InEllipsis
  <2> QED BY <1>1, <2>3, <2>4, <2>5, Zenon DEF Layout
<1>5. Covered'
  BY <1>1, <1>4, Zenon DEF Covered
<1> QED BY <1>2, <1>3, <1>5, Zenon DEF Read

LEMMA AlwaysRead == LexSpec => []Read
<1>1. IsFile /\ LexInit => Read
  BY InitRead
<1>2. Read /\ [Lex]_lexVars => Read'
  BY LexGoes, StutterKeepsRead DEF Goes
<1> QED BY <1>1, <1>2, PTL DEF LexSpec

LEMMA ReadCovers ==
  ASSUME Read
  PROVE  TokensCoverText
<1>1. /\ pos \in Nat /\ pos <= Len(text) + 1 /\ Len(text) \in Nat /\ DOMAIN text = 1 .. Len(text)
      /\ DOMAIN out = 1 .. Len(out) /\ Len(out) \in Nat
  BY Here, Characters
<1> SUFFICES ASSUME pos > Len(text)
             PROVE  /\ \A k \in DOMAIN out :
                         /\ out[k].s < out[k].e
                         /\ out[k].e <= (IF k < Len(out) THEN out[k + 1].s ELSE Len(text) + 1)
                    /\ \A i \in DOMAIN text : Outside(i) => text[i] = " " \/ InComment(i) \/ InEllipsis(i)
  BY DEF TokensCoverText
<1>2. pos = Len(text) + 1
  BY <1>1
<1>3. \A k \in 1 .. Len(out) : /\ out[k].s < out[k].e /\ out[k].e <= pos
                               /\ k < Len(out) => out[k].e <= out[k + 1].s
  <2>1. \A k \in 1 .. Len(out) : k < Len(out) => k \in 1 .. Len(out) - 1
    BY <1>1
  <2> QED BY <2>1 DEF Read, Ordered
<1>4. \A i \in 1 .. Len(text) : Outside(i) => Layout(i)
  <2>1. \A i \in 1 .. Len(text) : i \in 1 .. pos - 1
    BY <1>1, <1>2
  <2> QED BY <2>1 DEF Read, Covered
<1> QED BY <1>1, <1>2, <1>3, <1>4 DEF Layout

\* Whatever the file, when the lexer (tokenizer.ts tokenizeDetailed) is through, its
\* tokens are in order, do not overlap and are not empty, and every character no token
\* has is a blank, in a comment, or behind an ellipsis or the title of a section.
THEOREM CoversText == LexSpec => []TokensCoverText
BY AlwaysRead, ReadCovers, PTL

\* Every step gets further and none runs past the end of the file, so the loop of
\* tokenizeDetailed takes at most as many steps as the file has characters.
THEOREM GetsFurther == LexSpec => [][pos < pos' /\ pos' <= Len(text) + 1]_lexVars
<1>1. Read /\ [Lex]_lexVars => [pos < pos' /\ pos' <= Len(text) + 1]_lexVars
  <2>1. ASSUME Read, Lex
        PROVE  pos < pos' /\ pos' <= Len(text) + 1
    <3>1. pos' \in pos + 1 .. Len(text) + 1
      BY <2>1, LexGoes DEF Goes
    <3>2. pos \in Nat /\ Len(text) \in Nat
      BY <2>1, Here
    <3> QED BY <3>1, <3>2
  <2> QED BY <2>1
<1> QED BY <1>1, AlwaysRead, PTL DEF LexSpec
=============================================================================
