----------------------------- MODULE TypeLattice -----------------------------
(***************************************************************************)
(* The static types of lowering (src/lowering/types.ts): what is known of  *)
(* a value's element kind, of its size on each axis, of the sign of its    *)
(* elements, and of the value itself.  Numeric and string types; the       *)
(* composite types (struct, cell, class, handle) are built on these.       *)
(* dims is a function on the axes: the code's array, which stands for      *)
(* "one" on every axis behind its end, with those axes filled in.          *)
(***************************************************************************)
EXTENDS Integers, Sequences

CONSTANT Axes       \* the axes of an array

ASSUME AxesAssumption == Axes # {}

Signs == {"positive", "nonnegative", "negative", "nonpositive", "zero", "nonzero", "unknown"}
Dims == {"one", "notOne", "unknown"}

NonNegative == {"positive", "nonnegative", "zero"}
NonPositive == {"negative", "nonpositive", "zero"}
NonZero == {"positive", "negative", "nonzero"}

Unknown == [kind |-> "Unknown"]

\* exact: the statically known value, <<>> when there is none; <<re, im>> for
\* a complex scalar.
Exacts == {<<>>} \cup {<<x>> : x \in Int} \cup {<<x, y>> : x \in Int, y \in Int}

NumericTypes ==
    [kind : {"Numeric"}, elem : {"double", "char"}, isComplex : BOOLEAN,
     dims : [Axes -> Dims], sign : Signs, exact : Exacts]

-----------------------------------------------------------------------------
(* What a type says of a value.  An array is its size on each axis and the  *)
(* set of its elements, pairs <<re, im>>.                                   *)

SignHolds(s, x) ==
    /\ s = "positive" => x > 0
    /\ s = "nonnegative" => x >= 0
    /\ s = "negative" => x < 0
    /\ s = "nonpositive" => x <= 0
    /\ s = "zero" => x = 0
    /\ s = "nonzero" => x # 0

DimHolds(d, n) == (d = "one" => n = 1) /\ (d = "notOne" => n # 1)

ExactElement(x) == IF Len(x) = 1 THEN <<x[1], 0>> ELSE x

\* An array a (elem, size, elements) is one of those type t describes.
TypeHolds(t, a) ==
    /\ a.elem = t.elem
    /\ \A i \in Axes : DimHolds(t.dims[i], a.size[i])
    /\ ~t.isComplex => \A e \in a.elements : e[2] = 0 /\ SignHolds(t.sign, e[1])
    /\ t.exact # <<>> => a.elements = {ExactElement(t.exact)}

-----------------------------------------------------------------------------
(* Sign arithmetic.                                                         *)

signFromValue(x) == IF x > 0 THEN "positive" ELSE IF x < 0 THEN "negative" ELSE "zero"

signNegate(s) ==
    CASE s = "positive" -> "negative"
      [] s = "negative" -> "positive"
      [] s = "nonnegative" -> "nonpositive"
      [] s = "nonpositive" -> "nonnegative"
      [] OTHER -> s

joinSign(a, b) ==
    IF a = b THEN a
    ELSE IF {a, b} \subseteq NonNegative THEN "nonnegative"
    ELSE IF {a, b} \subseteq NonPositive THEN "nonpositive"
    ELSE IF {a, b} \subseteq NonZero THEN "nonzero"
    ELSE "unknown"

signAdd(a, b) ==
    IF a = "zero" THEN b
    ELSE IF b = "zero" THEN a
    ELSE IF {a, b} \subseteq NonNegative
         THEN IF "positive" \in {a, b} THEN "positive" ELSE "nonnegative"
    ELSE IF {a, b} \subseteq NonPositive
         THEN IF "negative" \in {a, b} THEN "negative" ELSE "nonpositive"
    ELSE "unknown"

signSub_NoNegate(a, b) == signAdd(a, b)     \* seeded

signSub(a, b) == signAdd(a, signNegate(b))

\* Two factors on known sides of zero: equal sides give a positive product.
signMul(a, b) ==
    IF "zero" \in {a, b} THEN "zero"
    ELSE IF {a, b} \in {{"positive"}, {"negative"}} THEN "positive"
    ELSE IF {a, b} = {"positive", "negative"} THEN "negative"
    ELSE IF {a, b} \subseteq NonNegative \/ {a, b} \subseteq NonPositive THEN "nonnegative"
    ELSE IF {a, b} \subseteq NonNegative \cup NonPositive THEN "nonpositive"
    ELSE "unknown"

\* By a divisor that may be zero the quotient may be Inf or NaN.
signDiv(a, b) == IF b \in NonZero THEN signMul(a, b) ELSE "unknown"

arithSign(op, a, b) ==
    CASE op = "Add" -> signAdd(a, b)
      [] op = "Sub" -> signSub(a, b)
      [] op = "Mul" -> signMul(a, b)
      [] op = "Div" -> signDiv(a, b)

-----------------------------------------------------------------------------
(* Shapes.                                                                  *)

joinDim(a, b) == IF a = b THEN a ELSE "unknown"

\* An axis of size one expands to the other operand's size; sizes that differ
\* otherwise are trapped when the program runs.
dimBroadcast(a, b) ==
    IF a = "one" THEN b
    ELSE IF b = "one" THEN a
    ELSE IF "notOne" \in {a, b} THEN "notOne"
    ELSE "unknown"

broadcastShape(a, b) == [i \in Axes |-> dimBroadcast(a[i], b[i])]

ScalarDims == [i \in Axes |-> "one"]

isScalar(t) == t.kind = "Numeric" /\ \A i \in Axes : t.dims[i] = "one"
isMultiElement(t) == t.kind = "Numeric" /\ \E i \in Axes : t.dims[i] # "one"

-----------------------------------------------------------------------------
(* Types: construction, join, arithmetic, storage.                          *)

numericTypeND(dims, cplx, sign, elem) ==
    [kind |-> "Numeric", elem |-> elem, isComplex |-> cplx, dims |-> dims,
     sign |-> IF cplx THEN "unknown" ELSE sign, exact |-> <<>>]

scalarDouble(sign, exact) ==
    [numericTypeND(ScalarDims, FALSE, sign, "double") EXCEPT !.exact = exact]

stringType(exact) == [kind |-> "String", exact |-> exact]

withoutExact(t) == IF t.kind \in {"Numeric", "String"} THEN [t EXCEPT !.exact = <<>>] ELSE t

unify_KeepsExact(a, b) ==       \* seeded: the first operand's value survives
    IF a.kind # b.kind \/ a.kind # "Numeric" \/ a.elem # b.elem THEN Unknown
    ELSE [numericTypeND([i \in Axes |-> joinDim(a.dims[i], b.dims[i])],
                        a.isComplex \/ b.isComplex, joinSign(a.sign, b.sign), a.elem)
          EXCEPT !.exact = a.exact]

\* The least upper bound at control-flow joins and reassignments, or Unknown.
unify(a, b) ==
    IF a.kind # b.kind \/ a.kind \notin {"Numeric", "String"} THEN Unknown
    ELSE IF a.kind = "String" THEN stringType(IF a.exact = b.exact THEN a.exact ELSE <<>>)
    ELSE IF a.elem # b.elem THEN Unknown
    ELSE LET t == numericTypeND([i \in Axes |-> joinDim(a.dims[i], b.dims[i])],
                                a.isComplex \/ b.isComplex, joinSign(a.sign, b.sign), a.elem)
         IN  IF isScalar(t) /\ a.exact = b.exact THEN [t EXCEPT !.exact = a.exact] ELSE t

\* The type of an elementwise arithmetic operation; a char counts as a double.
arithResult(op, a, b) ==
    IF a.kind # "Numeric" \/ b.kind # "Numeric" THEN Unknown
    ELSE numericTypeND(CASE isScalar(a) -> b.dims
                         [] isScalar(b) /\ ~isScalar(a) -> a.dims
                         [] OTHER -> broadcastShape(a.dims, b.dims),
                       a.isComplex \/ b.isComplex, arithSign(op, a.sign, b.sign), "double")

\* The C variable a value of type t needs; "none" when it can have none.
storageCategory(t) ==
    IF t.kind = "String" THEN "string"
    ELSE IF t.kind # "Numeric" THEN "none"
    ELSE IF t.elem = "char" THEN IF isScalar(t) THEN "scalar-char" ELSE "char-array"
    ELSE IF isScalar(t) THEN IF t.isComplex THEN "scalar-complex" ELSE "scalar-real"
    ELSE IF t.isComplex THEN "tensor-complex" ELSE "tensor-real"

canShareStorage(prev, next) ==
    storageCategory(prev) # "none" /\ storageCategory(prev) = storageCategory(next)

\* The type of what an arm that did not assign the variable leaves in it: the
\* predeclared value of the variable, whose types on the other arms these are.
absentDefaultFor(present) ==
    LET cats == {storageCategory(t) : t \in present}
    IN  CASE cats = {"string"} -> stringType(<<>>)
          [] cats = {"char-array"} ->
                numericTypeND([i \in Axes |-> IF i = 2 THEN "notOne" ELSE "one"], FALSE,
                              "unknown", "char")
          [] cats = {"scalar-char"} -> numericTypeND(ScalarDims, FALSE, "unknown", "char")
          [] OTHER -> scalarDouble("zero", <<>>)
=============================================================================
