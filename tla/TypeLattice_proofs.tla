------------------------- MODULE TypeLattice_proofs -------------------------
(***************************************************************************)
(* What lowering relies on in src/lowering/types.ts, for every type and    *)
(* every integer: a join loses no value and no precision it could keep, in *)
(* whatever order arms are merged; arithmetic on types is right for the    *)
(* values; and widening a type leaves it in the same C variable.           *)
(***************************************************************************)
EXTENDS TypeLattice, TLAPS

-----------------------------------------------------------------------------
(* Signs.                                                                   *)

\* a and b are each one of the signs s, t and u.
Within(a, b, s, t, u) == (a = s \/ a = t \/ a = u) /\ (b = s \/ b = t \/ b = u)

\* The groups of signs, name by name.
LEMMA SignGroups ==
    ASSUME NEW a, NEW b
    PROVE  /\ {a, b} \subseteq NonNegative
                <=> Within(a, b, "positive", "nonnegative", "zero")
           /\ {a, b} \subseteq NonPositive
                <=> Within(a, b, "negative", "nonpositive", "zero")
           /\ {a, b} \subseteq NonZero
                <=> Within(a, b, "positive", "negative", "nonzero")
<1>1. {a, b} \subseteq NonNegative <=> Within(a, b, "positive", "nonnegative", "zero")
  BY DEF NonNegative, Within
<1>2. {a, b} \subseteq NonPositive <=> Within(a, b, "negative", "nonpositive", "zero")
  BY DEF NonPositive, Within
<1>3. {a, b} \subseteq NonZero <=> Within(a, b, "positive", "negative", "nonzero")
  BY DEF NonZero, Within
<1> QED
  BY <1>1, <1>2, <1>3

LEMMA JoinSignIs ==
    ASSUME NEW a, NEW b
    PROVE  joinSign(a, b) =
              IF a = b THEN a
              ELSE IF Within(a, b, "positive", "nonnegative", "zero") THEN "nonnegative"
              ELSE IF Within(a, b, "negative", "nonpositive", "zero") THEN "nonpositive"
              ELSE IF Within(a, b, "positive", "negative", "nonzero") THEN "nonzero"
              ELSE "unknown"
  BY SignGroups, SMT DEF joinSign

LEMMA AddSignIs ==
    ASSUME NEW a, NEW b
    PROVE  signAdd(a, b) =
              IF a = "zero" THEN b
              ELSE IF b = "zero" THEN a
              ELSE IF Within(a, b, "positive", "nonnegative", "zero")
                   THEN IF a = "positive" \/ b = "positive" THEN "positive" ELSE "nonnegative"
              ELSE IF Within(a, b, "negative", "nonpositive", "zero")
                   THEN IF a = "negative" \/ b = "negative" THEN "negative" ELSE "nonpositive"
              ELSE "unknown"
<1>1. /\ "positive" \in {a, b} <=> a = "positive" \/ b = "positive"
      /\ "negative" \in {a, b} <=> a = "negative" \/ b = "negative"
  OBVIOUS
<1> QED
  BY <1>1, SignGroups, SMT DEF signAdd

LEMMA MulSignIs ==
    ASSUME NEW a, NEW b
    PROVE  signMul(a, b) =
              IF a = "zero" \/ b = "zero" THEN "zero"
              ELSE IF (a = "positive" /\ b = "positive") \/ (a = "negative" /\ b = "negative")
                   THEN "positive"
              ELSE IF (a = "positive" /\ b = "negative") \/ (a = "negative" /\ b = "positive")
                   THEN "negative"
              ELSE IF \/ Within(a, b, "positive", "nonnegative", "zero")
                      \/ Within(a, b, "negative", "nonpositive", "zero")
                   THEN "nonnegative"
              ELSE IF /\ a \in NonNegative \cup NonPositive
                      /\ b \in NonNegative \cup NonPositive
                   THEN "nonpositive"
              ELSE "unknown"
<1>1. "zero" \in {a, b} <=> a = "zero" \/ b = "zero"
  OBVIOUS
<1>2. {a, b} \in {{"positive"}, {"negative"}}
        <=> (a = "positive" /\ b = "positive") \/ (a = "negative" /\ b = "negative")
  OBVIOUS
<1>3. {a, b} = {"positive", "negative"}
        <=> (a = "positive" /\ b = "negative") \/ (a = "negative" /\ b = "positive")
  OBVIOUS
<1>4. {a, b} \subseteq NonNegative \cup NonPositive
        <=> a \in NonNegative \cup NonPositive /\ b \in NonNegative \cup NonPositive
  OBVIOUS
<1> QED
  BY <1>1, <1>2, <1>3, <1>4, SignGroups, SMT DEF signMul

\* joinSign is a sign, in either order the same.
LEMMA JoinSignType ==
    ASSUME NEW a \in Signs, NEW b \in Signs
    PROVE  joinSign(a, b) \in Signs /\ joinSign(a, b) = joinSign(b, a)
  BY JoinSignIs DEF Signs, Within

\* joinSign (types.ts:1211): what either sign allows, the join allows.
THEOREM JoinSignSound ==
    ASSUME NEW a \in Signs, NEW b \in Signs, NEW x \in Int,
           SignHolds(a, x) \/ SignHolds(b, x)
    PROVE  SignHolds(joinSign(a, b), x)
  BY JoinSignIs DEF Signs, Within, SignHolds

\* No sign of the lattice is a more precise join.
THEOREM JoinSignLeast ==
    ASSUME NEW a \in Signs, NEW b \in Signs, NEW c \in Signs,
           \A x \in Int : SignHolds(a, x) \/ SignHolds(b, x) => SignHolds(c, x)
    PROVE  \A x \in Int : SignHolds(joinSign(a, b), x) => SignHolds(c, x)
<1>1. \A x \in {-1, 0, 1} : SignHolds(a, x) \/ SignHolds(b, x) => SignHolds(c, x)
  OBVIOUS
<1>2. CASE c = "positive"
  BY JoinSignIs, <1>1, <1>2 DEF Signs, Within, SignHolds
<1>3. CASE c = "nonnegative"
  BY JoinSignIs, <1>1, <1>3 DEF Signs, Within, SignHolds
<1>4. CASE c = "negative"
  BY JoinSignIs, <1>1, <1>4 DEF Signs, Within, SignHolds
<1>5. CASE c = "nonpositive"
  BY JoinSignIs, <1>1, <1>5 DEF Signs, Within, SignHolds
<1>6. CASE c = "zero"
  BY JoinSignIs, <1>1, <1>6 DEF Signs, Within, SignHolds
<1>7. CASE c = "nonzero"
  BY JoinSignIs, <1>1, <1>7 DEF Signs, Within, SignHolds
<1>8. CASE c = "unknown"
  BY <1>8 DEF SignHolds
<1> QED
  BY <1>2, <1>3, <1>4, <1>5, <1>6, <1>7, <1>8 DEF Signs

LEMMA JoinSignAssociative ==
    ASSUME NEW a \in Signs, NEW b \in Signs, NEW c \in Signs
    PROVE  joinSign(joinSign(a, b), c) = joinSign(a, joinSign(b, c))
  BY JoinSignIs DEF Signs, Within

LEMMA NegateSound ==
    ASSUME NEW a \in Signs, NEW x \in Int, SignHolds(a, x)
    PROVE  signNegate(a) \in Signs /\ SignHolds(signNegate(a), -x)
  BY DEF signNegate, Signs, SignHolds

LEMMA AddSound ==
    ASSUME NEW a \in Signs, NEW b \in Signs, NEW x \in Int, NEW y \in Int,
           SignHolds(a, x), SignHolds(b, y)
    PROVE  SignHolds(signAdd(a, b), x + y)
  BY AddSignIs DEF Signs, Within, SignHolds

LEMMA SubSound ==
    ASSUME NEW a \in Signs, NEW b \in Signs, NEW x \in Int, NEW y \in Int,
           SignHolds(a, x), SignHolds(b, y)
    PROVE  SignHolds(signSub(a, b), x - y)
<1>1. signNegate(b) \in Signs /\ SignHolds(signNegate(b), -y) /\ -y \in Int
  BY NegateSound
<1>2. SignHolds(signAdd(a, signNegate(b)), x + (-y))
  BY <1>1, AddSound
<1>3. x + (-y) = x - y
  OBVIOUS
<1> QED
  BY <1>2, <1>3 DEF signSub

\* The sign of a product, from the signs of its factors.
LEMMA ProductSigns ==
    ASSUME NEW x \in Int, NEW y \in Int
    PROVE  /\ x = 0 \/ y = 0 <=> x * y = 0
           /\ x > 0 /\ y > 0 => x * y > 0
           /\ x < 0 /\ y < 0 => x * y > 0
           /\ x > 0 /\ y < 0 => x * y < 0
           /\ x < 0 /\ y > 0 => x * y < 0
           /\ x * y \in Int
  OBVIOUS

LEMMA MulSound ==
    ASSUME NEW a \in Signs, NEW b \in Signs, NEW x \in Int, NEW y \in Int,
           SignHolds(a, x), SignHolds(b, y)
    PROVE  SignHolds(signMul(a, b), x * y)
<1> DEFINE p == x * y
<1>1. /\ x = 0 \/ y = 0 <=> p = 0
      /\ x > 0 /\ y > 0 => p > 0
      /\ x < 0 /\ y < 0 => p > 0
      /\ x > 0 /\ y < 0 => p < 0
      /\ x < 0 /\ y > 0 => p < 0
      /\ p \in Int
  BY ProductSigns
<1> HIDE DEF p
<1>2. SignHolds(signMul(a, b), p)
  BY <1>1, MulSignIs DEF Signs, Within, SignHolds, NonNegative, NonPositive
<1> QED
  BY <1>2 DEF p

\* A quotient has the sign of the product: y, not zero, times q is x.
LEMMA DivSound ==
    ASSUME NEW a \in Signs, NEW b \in Signs,
           NEW x \in Int, NEW y \in Int, NEW q \in Int, x = q * y, y # 0,
           SignHolds(a, x), SignHolds(b, y)
    PROVE  SignHolds(signDiv(a, b), q)
<1>1. CASE b \notin NonZero
  BY <1>1 DEF signDiv, SignHolds
<1>2. CASE b \in NonZero
  <2>1. /\ q = 0 <=> x = 0
        /\ x > 0 /\ y > 0 => q > 0
        /\ x > 0 /\ y < 0 => q < 0
        /\ x < 0 /\ y > 0 => q < 0
        /\ x < 0 /\ y < 0 => q > 0
    BY ProductSigns
  <2>2. SignHolds(signMul(a, b), q)
    BY <1>2, <2>1, MulSignIs DEF Signs, Within, SignHolds, NonNegative, NonPositive, NonZero
  <2> QED
    BY <1>2, <2>2 DEF signDiv
<1> QED
  BY <1>1, <1>2

\* arithSign (types.ts:1567): the sign lowering gives a sum, difference, product
\* or quotient is the sign the result has, whatever the operands were.
THEOREM ArithSignSound ==
    ASSUME NEW op, NEW a \in Signs, NEW b \in Signs,
           NEW x \in Int, NEW y \in Int, NEW r \in Int,
           \/ op = "Add" /\ r = x + y
           \/ op = "Sub" /\ r = x - y
           \/ op = "Mul" /\ r = x * y
           \/ op = "Div" /\ x = r * y /\ y # 0,
           SignHolds(a, x), SignHolds(b, y)
    PROVE  SignHolds(arithSign(op, a, b), r)
<1>1. CASE op = "Add"
  BY <1>1, AddSound DEF arithSign
<1>2. CASE op = "Sub"
  BY <1>2, SubSound DEF arithSign
<1>3. CASE op = "Mul"
  BY <1>3, MulSound DEF arithSign
<1>4. CASE op = "Div"
  BY <1>4, DivSound DEF arithSign
<1> QED
  BY <1>1, <1>2, <1>3, <1>4

-----------------------------------------------------------------------------
(* Sizes.                                                                   *)

LEMMA JoinDimSound ==
    ASSUME NEW d \in Dims, NEW e \in Dims, NEW n \in Nat, DimHolds(d, n) \/ DimHolds(e, n)
    PROVE  DimHolds(joinDim(d, e), n)
  BY DEF Dims, DimHolds, joinDim

LEMMA JoinDimOrder ==
    ASSUME NEW d \in Dims, NEW e \in Dims, NEW f \in Dims
    PROVE  /\ joinDim(d, e) \in Dims
           /\ joinDim(d, e) = joinDim(e, d)
           /\ joinDim(joinDim(d, e), f) = joinDim(d, joinDim(e, f))
           /\ joinDim(d, e) = "one" <=> d = "one" /\ e = "one"
  BY DEF Dims, joinDim

\* dimBroadcast (types.ts:1580): for two sizes the running program accepts (one
\* of them 1, or both the same), the size of the result is as its type says.
LEMMA BroadcastSound ==
    ASSUME NEW d \in Dims, NEW e \in Dims, NEW m \in Nat, NEW n \in Nat,
           DimHolds(d, m), DimHolds(e, n), m = 1 \/ n = 1 \/ m = n
    PROVE  DimHolds(dimBroadcast(d, e), IF m = 1 THEN n ELSE m)
<1>1. "notOne" \in {d, e} <=> d = "notOne" \/ e = "notOne"
  OBVIOUS
<1> QED
  BY <1>1 DEF Dims, DimHolds, dimBroadcast

-----------------------------------------------------------------------------
(* Arithmetic on types.                                                     *)

\* r is what the C computes of x and y; a quotient, when it is a whole number.
Outcome(op, x, y, r) ==
    \/ op = "Add" /\ r = x + y
    \/ op = "Sub" /\ r = x - y
    \/ op = "Mul" /\ r = x * y
    \/ op = "Div" /\ x = r * y /\ y # 0

Array(v) == v.size \in [Axes -> Nat] /\ v.elements \subseteq Int \X Int

\* u is v op w, element by element, an axis of size one being repeated; the
\* running program traps sizes that do not match.  Of complex operands nothing
\* is said but the size.
Elementwise(op, v, w, u) ==
    /\ u.elem = "double" /\ Array(u)
    /\ \A i \in Axes : /\ v.size[i] = 1 \/ w.size[i] = 1 \/ v.size[i] = w.size[i]
                       /\ u.size[i] = IF v.size[i] = 1 THEN w.size[i] ELSE v.size[i]
    /\ (\A x \in v.elements : x[2] = 0) /\ (\A y \in w.elements : y[2] = 0) =>
          \A r \in u.elements : r[2] = 0 /\ \E x \in v.elements, y \in w.elements : Outcome(op, x[1], y[1], r[1])

\* The fields of the type of a result.
LEMMA ArithFields ==
    ASSUME NEW op, NEW a \in NumericTypes, NEW b \in NumericTypes
    PROVE  LET t == arithResult(op, a, b)
           IN  /\ t.elem = "double" /\ t.exact = <<>>
               /\ ~t.isComplex => ~a.isComplex /\ ~b.isComplex /\ t.sign = arithSign(op, a.sign, b.sign)
               /\ t.dims = IF isScalar(a) THEN b.dims
                           ELSE IF isScalar(b) THEN a.dims ELSE broadcastShape(a.dims, b.dims)
<1>1. a.kind = "Numeric" /\ b.kind = "Numeric"
  BY DEF NumericTypes
<1> DEFINE d == CASE isScalar(a) -> b.dims
                  [] isScalar(b) /\ ~isScalar(a) -> a.dims
                  [] OTHER -> broadcastShape(a.dims, b.dims)
<1>2. d = IF isScalar(a) THEN b.dims ELSE IF isScalar(b) THEN a.dims ELSE broadcastShape(a.dims, b.dims)
  OBVIOUS
<1>3. arithResult(op, a, b) = numericTypeND(d, a.isComplex \/ b.isComplex, arithSign(op, a.sign, b.sign), "double")
  BY <1>1 DEF arithResult
<1> HIDE DEF d
<1>4. CASE a.isComplex \/ b.isComplex
  <2>1. arithResult(op, a, b) = numericTypeND(d, TRUE, arithSign(op, a.sign, b.sign), "double")
    <3>1. a.isComplex \in BOOLEAN /\ b.isComplex \in BOOLEAN
      BY DEF NumericTypes
    <3>2. (a.isComplex \/ b.isComplex) = TRUE
      BY <1>4, <3>1
    <3> QED BY <1>3, <3>2, Zenon
  <2> QED BY <2>1, <1>2 DEF numericTypeND
<1>5. CASE ~a.isComplex /\ ~b.isComplex
  <2>1. (a.isComplex \/ b.isComplex) = FALSE
    BY <1>5
  <2>2. arithResult(op, a, b) = numericTypeND(d, FALSE, arithSign(op, a.sign, b.sign), "double")
    BY <1>3, <2>1, Zenon
  <2> QED BY <2>2, <1>2, <1>5 DEF numericTypeND
<1> QED BY <1>4, <1>5

\* tensorArithResult and arithSign: the type lowering gives v op w describes the
\* array the generated C computes, whatever arrays v and w are of their types; so
\* what a program computes at run time is what later lowering was told.
THEOREM ArithSound ==
    ASSUME NEW op, NEW a \in NumericTypes, NEW b \in NumericTypes, NEW v, NEW w, NEW u,
           Array(v), Array(w), TypeHolds(a, v), TypeHolds(b, w), Elementwise(op, v, w, u)
    PROVE  TypeHolds(arithResult(op, a, b), u)
<1> DEFINE t == arithResult(op, a, b)
<1>1. u.elem = t.elem /\ t.exact = <<>>
  BY ArithFields DEF Elementwise
<1>2. ASSUME NEW i \in Axes
      PROVE  DimHolds(t.dims[i], u.size[i])
  <2>1. /\ a.dims[i] \in Dims /\ b.dims[i] \in Dims /\ v.size[i] \in Nat /\ w.size[i] \in Nat
        /\ DimHolds(a.dims[i], v.size[i]) /\ DimHolds(b.dims[i], w.size[i])
        /\ v.size[i] = 1 \/ w.size[i] = 1 \/ v.size[i] = w.size[i]
        /\ u.size[i] = IF v.size[i] = 1 THEN w.size[i] ELSE v.size[i]
    BY DEF NumericTypes, Array, TypeHolds, Elementwise
  <2>2. CASE isScalar(a)
    <3>1. v.size[i] = 1
      BY <2>1, <2>2 DEF isScalar, DimHolds
    <3> QED BY <2>1, <2>2, <3>1, ArithFields
  <2>3. CASE ~isScalar(a) /\ isScalar(b)
    <3>1. w.size[i] = 1
      BY <2>1, <2>3 DEF isScalar, DimHolds
    <3> QED BY <2>1, <2>3, <3>1, ArithFields
  <2>4. CASE ~isScalar(a) /\ ~isScalar(b)
    <3>1. t.dims = broadcastShape(a.dims, b.dims)
      BY <2>4, ArithFields
    <3> HIDE DEF t
    <3>2. t.dims[i] = dimBroadcast(a.dims[i], b.dims[i])
      BY <3>1 DEF broadcastShape
    <3> QED BY <2>1, <3>2, BroadcastSound
  <2> QED BY <2>2, <2>3, <2>4
<1>3. ASSUME ~t.isComplex, NEW r \in u.elements
      PROVE  r[2] = 0 /\ SignHolds(t.sign, r[1])
  <2>1. ~a.isComplex /\ ~b.isComplex /\ t.sign = arithSign(op, a.sign, b.sign)
    BY <1>3, ArithFields
  <2>2. /\ \A x \in v.elements : x[2] = 0 /\ SignHolds(a.sign, x[1])
        /\ \A y \in w.elements : y[2] = 0 /\ SignHolds(b.sign, y[1])
    BY <2>1 DEF TypeHolds
  <2>3. /\ r[2] = 0
        /\ \E x \in v.elements, y \in w.elements : Outcome(op, x[1], y[1], r[1])
    BY <2>2 DEF Elementwise
  <2>4. PICK x \in v.elements, y \in w.elements : Outcome(op, x[1], y[1], r[1])
    BY <2>3
  <2>5. /\ x[1] \in Int /\ y[1] \in Int /\ r[1] \in Int /\ a.sign \in Signs /\ b.sign \in Signs
    BY DEF Array, Elementwise, NumericTypes
  <2>6. SignHolds(arithSign(op, a.sign, b.sign), r[1])
    BY <2>2, <2>4, <2>5, ArithSignSound DEF Outcome
  <2> QED BY <2>1, <2>3, <2>6
<1> QED BY <1>1, <1>2, <1>3 DEF TypeHolds

-----------------------------------------------------------------------------
(* Joins of types.                                                          *)

\* What unify gives two numeric types of one element kind.
LEMMA UnifyIs ==
    ASSUME NEW a \in NumericTypes, NEW b \in NumericTypes, a.elem = b.elem
    PROVE  LET t == unify(a, b)
           IN  /\ t = [kind |-> "Numeric", elem |-> a.elem,
                       isComplex |-> a.isComplex \/ b.isComplex,
                       dims |-> [i \in Axes |-> joinDim(a.dims[i], b.dims[i])],
                       sign |-> IF a.isComplex \/ b.isComplex THEN "unknown"
                                ELSE joinSign(a.sign, b.sign),
                       exact |-> t.exact]
               /\ t.exact = IF /\ \A i \in Axes : joinDim(a.dims[i], b.dims[i]) = "one"
                              /\ a.exact = b.exact
                           THEN a.exact ELSE <<>>
  BY DEF NumericTypes, unify, numericTypeND, isScalar

\* t is, field by field, the join of a and b.
IsJoin(t, a, b) ==
    /\ t.isComplex = (a.isComplex \/ b.isComplex)
    /\ \A i \in Axes : t.dims[i] = joinDim(a.dims[i], b.dims[i])
    /\ t.sign = IF a.isComplex \/ b.isComplex THEN "unknown" ELSE joinSign(a.sign, b.sign)
    /\ t.exact = IF isScalar(a) /\ isScalar(b) /\ a.exact = b.exact THEN a.exact ELSE <<>>

LEMMA UnifyFields ==
    ASSUME NEW a \in NumericTypes, NEW b \in NumericTypes, a.elem = b.elem
    PROVE  IsJoin(unify(a, b), a, b)
<1> DEFINE t == unify(a, b)
<1>1. t.isComplex = (a.isComplex \/ b.isComplex)
  BY UnifyIs
<1>2. \A i \in Axes : t.dims[i] = joinDim(a.dims[i], b.dims[i])
  BY UnifyIs
<1>3. t.sign = IF a.isComplex \/ b.isComplex THEN "unknown" ELSE joinSign(a.sign, b.sign)
  BY UnifyIs
<1>4. (\A i \in Axes : joinDim(a.dims[i], b.dims[i]) = "one") <=> isScalar(a) /\ isScalar(b)
  <2>1. \A i \in Axes : a.dims[i] \in Dims /\ b.dims[i] \in Dims
    BY DEF NumericTypes
  <2>2. \A i \in Axes : joinDim(a.dims[i], b.dims[i]) = "one"
                          <=> a.dims[i] = "one" /\ b.dims[i] = "one"
    BY <2>1, JoinDimOrder
  <2> QED
    BY <2>2 DEF isScalar, NumericTypes
<1>5. t.exact = IF isScalar(a) /\ isScalar(b) /\ a.exact = b.exact THEN a.exact ELSE <<>>
  BY <1>4, UnifyIs
<1> QED
  BY <1>1, <1>2, <1>3, <1>5 DEF IsJoin

LEMMA UnifyType ==
    ASSUME NEW a \in NumericTypes, NEW b \in NumericTypes, a.elem = b.elem
    PROVE  unify(a, b) \in NumericTypes /\ unify(a, b).elem = a.elem
<1> DEFINE t == unify(a, b)
<1>1. /\ a.elem \in {"double", "char"} /\ a.sign \in Signs /\ b.sign \in Signs
      /\ a.exact \in Exacts /\ a.isComplex \in BOOLEAN /\ b.isComplex \in BOOLEAN
  BY DEF NumericTypes
<1>2. [i \in Axes |-> joinDim(a.dims[i], b.dims[i])] \in [Axes -> Dims]
  BY JoinDimOrder DEF NumericTypes
<1>3. (IF a.isComplex \/ b.isComplex THEN "unknown" ELSE joinSign(a.sign, b.sign)) \in Signs
  BY <1>1, JoinSignType DEF Signs
<1>4. t.exact \in Exacts
  <2>1. t.exact = a.exact \/ t.exact = <<>>
    BY UnifyIs
  <2> QED
    BY <1>1, <2>1 DEF Exacts
<1>5. (a.isComplex \/ b.isComplex) \in BOOLEAN
  OBVIOUS
<1> QED
  BY <1>1, <1>2, <1>3, <1>4, <1>5, UnifyIs DEF NumericTypes

\* unify (types.ts:1413): the join describes what either type describes, so a
\* variable read behind an if has the value its type promises, whichever arm ran.
THEOREM UnifySound ==
    ASSUME NEW a \in NumericTypes, NEW b \in NumericTypes, a.elem = b.elem,
           NEW v, v.size \in [Axes -> Nat], v.elements \subseteq Int \X Int,
           TypeHolds(a, v) \/ TypeHolds(b, v)
    PROVE  TypeHolds(unify(a, b), v)
<1> DEFINE t == unify(a, b)
<1>1. v.elem = t.elem
  BY UnifyIs DEF TypeHolds
<1>2. ASSUME NEW i \in Axes
      PROVE  DimHolds(t.dims[i], v.size[i])
  <2>1. a.dims[i] \in Dims /\ b.dims[i] \in Dims /\ v.size[i] \in Nat
    BY DEF NumericTypes
  <2>2. DimHolds(a.dims[i], v.size[i]) \/ DimHolds(b.dims[i], v.size[i])
    BY DEF TypeHolds
  <2>3. t.dims[i] = joinDim(a.dims[i], b.dims[i])
    BY UnifyIs
  <2> QED
    BY <2>1, <2>2, <2>3, JoinDimSound
<1>3. ASSUME ~t.isComplex, NEW e \in v.elements
      PROVE  e[2] = 0 /\ SignHolds(t.sign, e[1])
  <2>1. ~a.isComplex /\ ~b.isComplex /\ t.sign = joinSign(a.sign, b.sign)
    <3>1. t.isComplex = (a.isComplex \/ b.isComplex)
      BY UnifyFields DEF IsJoin
    <3>2. ~a.isComplex /\ ~b.isComplex
      BY <1>3, <3>1
    <3> QED
      BY <3>2, UnifyIs
  <2>2. e[2] = 0 /\ (SignHolds(a.sign, e[1]) \/ SignHolds(b.sign, e[1]))
    BY <2>1 DEF TypeHolds
  <2>3. a.sign \in Signs /\ b.sign \in Signs /\ e[1] \in Int
    BY DEF NumericTypes
  <2> QED
    BY <2>1, <2>2, <2>3, JoinSignSound
<1>4. t.exact # <<>> => v.elements = {ExactElement(t.exact)}
  <2>1. t.exact # <<>> => t.exact = a.exact /\ t.exact = b.exact
    BY UnifyIs
  <2> QED
    BY <2>1 DEF TypeHolds
<1> QED
  BY <1>1, <1>2, <1>3, <1>4 DEF TypeHolds

\* mergeBranchEnvs (lower.ts:621) folds unify over the arms of an if: the order
\* in which the arms come does not change the type behind it.
THEOREM UnifyOrder ==
    ASSUME NEW a \in NumericTypes, NEW b \in NumericTypes, NEW c \in NumericTypes,
           a.elem = b.elem, b.elem = c.elem
    PROVE  /\ unify(a, b) = unify(b, a)
           /\ unify(unify(a, b), c) = unify(a, unify(b, c))
<1> DEFINE ab == unify(a, b)
           bc == unify(b, c)
           l == unify(ab, c)
           r == unify(a, bc)
<1>1. /\ a.dims \in [Axes -> Dims] /\ b.dims \in [Axes -> Dims] /\ c.dims \in [Axes -> Dims]
      /\ a.sign \in Signs /\ b.sign \in Signs /\ c.sign \in Signs
  BY DEF NumericTypes
<1>2. unify(a, b) = unify(b, a)
  <2>1. [i \in Axes |-> joinDim(a.dims[i], b.dims[i])]
          = [i \in Axes |-> joinDim(b.dims[i], a.dims[i])]
    BY <1>1, JoinDimOrder
  <2>2. joinSign(a.sign, b.sign) = joinSign(b.sign, a.sign)
    BY <1>1, JoinSignType
  <2> QED
    BY <2>1, <2>2 DEF NumericTypes, unify, numericTypeND
<1>3. ab \in NumericTypes /\ bc \in NumericTypes /\ ab.elem = c.elem /\ a.elem = bc.elem
  BY UnifyType
<1>4. IsJoin(ab, a, b) /\ IsJoin(bc, b, c)
  BY UnifyFields
<1>5. IsJoin(l, ab, c)
  BY <1>3, UnifyFields
<1>6. IsJoin(r, a, bc)
  BY <1>3, UnifyFields
<1>7. l \in NumericTypes /\ r \in NumericTypes /\ l.elem = r.elem
  BY <1>3, UnifyType
<1> HIDE DEF l, r, ab, bc
<1>8. l.dims = r.dims
  <2>1. \A i \in Axes : ab.dims[i] = joinDim(a.dims[i], b.dims[i])
    BY <1>4 DEF IsJoin
  <2>2. \A i \in Axes : bc.dims[i] = joinDim(b.dims[i], c.dims[i])
    BY <1>4 DEF IsJoin
  <2>3. \A i \in Axes : l.dims[i] = joinDim(ab.dims[i], c.dims[i])
    BY <1>5 DEF IsJoin
  <2>4. \A i \in Axes : r.dims[i] = joinDim(a.dims[i], bc.dims[i])
    BY <1>6 DEF IsJoin
  <2>5. ASSUME NEW i \in Axes
        PROVE  l.dims[i] = r.dims[i]
    <3>1. a.dims[i] \in Dims /\ b.dims[i] \in Dims /\ c.dims[i] \in Dims
      BY <1>1
    <3> QED
      BY <2>1, <2>2, <2>3, <2>4, <3>1, JoinDimOrder
  <2>6. l.dims \in [Axes -> Dims] /\ r.dims \in [Axes -> Dims]
    BY <1>7 DEF NumericTypes
  <2> QED
    BY <2>5, <2>6
<1>9. l.isComplex = r.isComplex
  BY <1>4, <1>5, <1>6 DEF IsJoin
<1>10. l.sign = r.sign
  <2>1. CASE a.isComplex \/ b.isComplex \/ c.isComplex
    BY <1>4, <1>5, <1>6, <2>1 DEF IsJoin
  <2>2. CASE ~(a.isComplex \/ b.isComplex \/ c.isComplex)
    <3>1. /\ ab.sign = joinSign(a.sign, b.sign) /\ l.sign = joinSign(ab.sign, c.sign)
          /\ bc.sign = joinSign(b.sign, c.sign) /\ r.sign = joinSign(a.sign, bc.sign)
      BY <1>4, <1>5, <1>6, <2>2 DEF IsJoin
    <3> QED
      BY <1>1, <3>1, JoinSignAssociative
  <2> QED
    BY <2>1, <2>2
<1>11. l.exact = r.exact
  <2>1. /\ isScalar(ab) <=> isScalar(a) /\ isScalar(b)
        /\ isScalar(bc) <=> isScalar(b) /\ isScalar(c)
    <3>1. ASSUME NEW i \in Axes
          PROVE  ab.dims[i] = "one" <=> a.dims[i] = "one" /\ b.dims[i] = "one"
      BY <1>1, <1>4, JoinDimOrder DEF IsJoin
    <3>2. ASSUME NEW i \in Axes
          PROVE  bc.dims[i] = "one" <=> b.dims[i] = "one" /\ c.dims[i] = "one"
      BY <1>1, <1>4, JoinDimOrder DEF IsJoin
    <3>3. /\ a.kind = "Numeric" /\ b.kind = "Numeric" /\ c.kind = "Numeric"
          /\ ab.kind = "Numeric" /\ bc.kind = "Numeric"
      BY <1>3 DEF NumericTypes
    <3> QED
      BY <3>1, <3>2, <3>3 DEF isScalar
  <2> QED
    BY <1>4, <1>5, <1>6, <2>1 DEF IsJoin
<1>12. l = r
  BY <1>7, <1>8, <1>9, <1>10, <1>11 DEF NumericTypes
<1> QED
  BY <1>2, <1>12 DEF l, r, ab, bc

-----------------------------------------------------------------------------
(* Storage: a C variable is declared once, for one category.                *)

\* The category of a join, from its two types.
LEMMA JoinCategory ==
    ASSUME NEW a \in NumericTypes, NEW b \in NumericTypes, a.elem = b.elem
    PROVE  LET scalar == isScalar(a) /\ isScalar(b)
           IN  storageCategory(unify(a, b)) =
                 IF a.elem = "char" THEN IF scalar THEN "scalar-char" ELSE "char-array"
                 ELSE IF scalar
                      THEN IF a.isComplex \/ b.isComplex THEN "scalar-complex" ELSE "scalar-real"
                 ELSE IF a.isComplex \/ b.isComplex THEN "tensor-complex" ELSE "tensor-real"
<1> DEFINE t == unify(a, b)
<1>1. t.kind = "Numeric" /\ t.elem = a.elem
  BY UnifyType DEF NumericTypes
<1>2. t.isComplex = (a.isComplex \/ b.isComplex)
  BY UnifyFields DEF IsJoin
<1>3. isScalar(t) <=> isScalar(a) /\ isScalar(b)
  <2>1. ASSUME NEW i \in Axes
        PROVE  t.dims[i] = "one" <=> a.dims[i] = "one" /\ b.dims[i] = "one"
    <3>1. a.dims[i] \in Dims /\ b.dims[i] \in Dims
      BY DEF NumericTypes
    <3>2. t.dims[i] = joinDim(a.dims[i], b.dims[i])
      BY UnifyFields DEF IsJoin
    <3> QED
      BY <3>1, <3>2, JoinDimOrder
  <2>2. a.kind = "Numeric" /\ b.kind = "Numeric"
    BY DEF NumericTypes
  <2> QED
    BY <1>1, <2>1, <2>2 DEF isScalar
<1> HIDE DEF t
<1>4. storageCategory(t) =
        IF a.elem = "char" THEN IF isScalar(t) THEN "scalar-char" ELSE "char-array"
        ELSE IF isScalar(t) THEN IF t.isComplex THEN "scalar-complex" ELSE "scalar-real"
        ELSE IF t.isComplex THEN "tensor-complex" ELSE "tensor-real"
  BY <1>1 DEF storageCategory
<1> QED
  BY <1>2, <1>3, <1>4 DEF t

\* recordAssignment (lower.ts:450) keeps a variable when canShareStorage says so
\* and widens its type: the widened type needs the very variable it was given.
THEOREM WideningKeepsStorage ==
    ASSUME NEW a \in NumericTypes, NEW b \in NumericTypes, canShareStorage(a, b)
    PROVE  /\ unify(a, b) \in NumericTypes
           /\ storageCategory(unify(a, b)) = storageCategory(a)
<1>1. /\ a.kind = "Numeric" /\ a.elem \in {"double", "char"}
      /\ b.kind = "Numeric" /\ b.elem \in {"double", "char"}
      /\ a.isComplex \in BOOLEAN /\ b.isComplex \in BOOLEAN
  BY DEF NumericTypes
<1>2. storageCategory(a) = storageCategory(b)
  BY DEF canShareStorage
<1>3. a.elem = b.elem /\ (isScalar(a) <=> isScalar(b))
  BY <1>1, <1>2 DEF storageCategory
<1>4. a.elem = "double" => a.isComplex = b.isComplex
  BY <1>1, <1>2, <1>3 DEF storageCategory
<1>5. storageCategory(unify(a, b)) = storageCategory(a)
  BY <1>1, <1>3, <1>4, JoinCategory DEF storageCategory
<1> QED
  BY <1>3, <1>5, UnifyType

LEMMA RealType ==
    ASSUME NEW dims \in [Axes -> Dims], NEW sign \in Signs, NEW elem \in {"double", "char"}
    PROVE  LET t == numericTypeND(dims, FALSE, sign, elem)
           IN  /\ t \in NumericTypes /\ t.elem = elem /\ t.isComplex = FALSE
               /\ t.dims = dims /\ t.exact = <<>>
<1>1. <<>> \in Exacts
  BY DEF Exacts
<1> QED
  BY <1>1 DEF numericTypeND, NumericTypes

LEMMA ScalarDimsType ==
    ScalarDims \in [Axes -> Dims] /\ \A i \in Axes : ScalarDims[i] = "one"
  BY DEF ScalarDims, Dims

\* Joined with a type that is no wider, a type keeps its category.
LEMMA StaysIn ==
    ASSUME NEW t \in NumericTypes, NEW d \in NumericTypes, d.elem = t.elem,
           isScalar(t) => isScalar(d), t.elem = "double" => ~d.isComplex
    PROVE  storageCategory(unify(t, d)) = storageCategory(t)
<1>1. t.kind = "Numeric"
  BY DEF NumericTypes
<1>2. (isScalar(t) /\ isScalar(d)) <=> isScalar(t)
  OBVIOUS
<1>3. CASE t.elem = "char"
  BY <1>1, <1>2, <1>3, JoinCategory DEF storageCategory
<1>4. CASE t.elem # "char"
  <2>1. ~d.isComplex
    BY <1>4 DEF NumericTypes
  <2>2. storageCategory(unify(t, d)) =
          IF isScalar(t) THEN IF t.isComplex \/ d.isComplex THEN "scalar-complex" ELSE "scalar-real"
          ELSE IF t.isComplex \/ d.isComplex THEN "tensor-complex" ELSE "tensor-real"
    BY <1>2, <1>4, JoinCategory
  <2>3. storageCategory(t) =
          IF isScalar(t) THEN IF t.isComplex THEN "scalar-complex" ELSE "scalar-real"
          ELSE IF t.isComplex THEN "tensor-complex" ELSE "tensor-real"
    BY <1>1, <1>4 DEF storageCategory
  <2> QED
    BY <2>1, <2>2, <2>3
<1> QED
  BY <1>3, <1>4

\* mergeBranchEnvs gives a variable that some arm did not assign the type of its
\* predeclared value there (absentDefaultFor, types.ts:1085): joined with what
\* the other arms assign, it still fits the variable they were given.
THEOREM AbsentKeepsStorage ==
    ASSUME NEW present, present \subseteq NumericTypes, NEW t \in present,
           \A u \in present : storageCategory(u) = storageCategory(t)
    PROVE  storageCategory(unify(t, absentDefaultFor(present))) = storageCategory(t)
<1> DEFINE d == absentDefaultFor(present)
           cat == storageCategory(t)
<1>1. /\ t \in NumericTypes /\ t.kind = "Numeric" /\ t.elem \in {"double", "char"}
      /\ t.isComplex \in BOOLEAN /\ t.dims \in [Axes -> Dims]
  BY DEF NumericTypes
<1>2. {storageCategory(u) : u \in present} = {cat}
  OBVIOUS
<1>3. d = CASE cat = "string" -> stringType(<<>>)
            [] cat = "char-array" ->
                  numericTypeND([i \in Axes |-> IF i = 2 THEN "notOne" ELSE "one"], FALSE,
                                "unknown", "char")
            [] cat = "scalar-char" -> numericTypeND(ScalarDims, FALSE, "unknown", "char")
            [] OTHER -> scalarDouble("zero", <<>>)
  BY <1>2 DEF absentDefaultFor
<1>4. CASE t.elem = "char" /\ ~isScalar(t)
  <2>1. d = numericTypeND([i \in Axes |-> IF i = 2 THEN "notOne" ELSE "one"], FALSE,
                          "unknown", "char")
    BY <1>1, <1>3, <1>4 DEF storageCategory
  <2> DEFINE dims == [i \in Axes |-> IF i = 2 THEN "notOne" ELSE "one"]
             z == numericTypeND(dims, FALSE, "unknown", "char")
  <2>2. dims \in [Axes -> Dims]
    BY DEF Dims
  <2> HIDE DEF dims
  <2>3. z \in NumericTypes /\ z.elem = "char"
    BY <2>2, RealType DEF Signs
  <2> HIDE DEF z
  <2>4. storageCategory(unify(t, z)) = storageCategory(t)
    BY <1>1, <1>4, <2>3, StaysIn
  <2> QED
    BY <2>1, <2>4 DEF z, dims
<1>5. CASE t.elem = "char" /\ isScalar(t)
  <2>1. d = numericTypeND(ScalarDims, FALSE, "unknown", "char")
    BY <1>1, <1>3, <1>5 DEF storageCategory
  <2> DEFINE z == numericTypeND(ScalarDims, FALSE, "unknown", "char")
  <2>2. z \in NumericTypes /\ z.elem = "char" /\ z.dims = ScalarDims
    BY ScalarDimsType, RealType DEF Signs
  <2> HIDE DEF z
  <2>3. isScalar(z)
    BY <2>2, ScalarDimsType DEF isScalar, NumericTypes
  <2>4. storageCategory(unify(t, z)) = storageCategory(t)
    BY <1>1, <1>5, <2>2, <2>3, StaysIn
  <2> QED
    BY <2>1, <2>4 DEF z
<1>6. CASE t.elem = "double"
  <2>1. d = scalarDouble("zero", <<>>)
    BY <1>1, <1>3, <1>6 DEF storageCategory
  <2> DEFINE z == numericTypeND(ScalarDims, FALSE, "zero", "double")
  <2>2. /\ z \in NumericTypes /\ z.elem = "double" /\ z.isComplex = FALSE
        /\ z.dims = ScalarDims /\ z.exact = <<>>
    BY ScalarDimsType, RealType DEF Signs
  <2>3. scalarDouble("zero", <<>>) = [z EXCEPT !.exact = <<>>]
    BY DEF scalarDouble
  <2> HIDE DEF z
  <2>4. [z EXCEPT !.exact = <<>>] = z
    BY <2>2 DEF NumericTypes
  <2>5. isScalar(z)
    BY <2>2, ScalarDimsType DEF isScalar, NumericTypes
  <2>6. storageCategory(unify(t, z)) = storageCategory(t)
    BY <1>1, <1>6, <2>2, <2>5, StaysIn
  <2> QED
    BY <2>1, <2>3, <2>4, <2>6
<1> QED
  BY <1>1, <1>4, <1>5, <1>6
=============================================================================
