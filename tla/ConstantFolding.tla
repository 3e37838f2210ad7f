-------------------------- MODULE ConstantFolding --------------------------
(***************************************************************************)
(* The arithmetic of OPT_CFbinop on two integer constants.  Results beyond *)
(* the limits of int, and divisions by zero, are given a limit as value.   *)
(***************************************************************************)
EXTENDS Integers

CONSTANT IntMax     \* INT_MAX

ASSUME IntMaxAssumption == IntMax \in Nat \ {0}

IntMin == -IntMax - 1

Ints == IntMin..IntMax

\* In a build that wraps; -INT_MIN is undefined in C.
Negated(n) == IF n = IntMin THEN IntMin ELSE -n

\* Division in C rounds towards zero.
Abs(n) == IF n < 0 THEN -n ELSE n
Quotient(a, b) == (IF (a < 0) = (b < 0) THEN 1 ELSE -1) * (Abs(a) \div Abs(b))
Remainder(a, b) == a - b * Quotient(a, b)

\* The tests in front of the arithmetic
AddOver(left, right)  == right > 0 /\ left > IntMax - right
AddUnder(left, right) == right < 0 /\ left < IntMin - right
SubOver(left, right)  == right < 0 /\ left > IntMax + right
SubUnder(left, right) == right > 0 /\ left < IntMin + right
MulOver(left, right)  ==
    \/ right = -1 /\ left = IntMin
    \/ left = -1 /\ right = IntMin
    \/ right # 0 /\ left > Quotient(IntMax, right)
MulUnder(left, right) == right \notin {0, -1} /\ left < Quotient(IntMin, right)
NoQuotient(left, right) == right = 0 \/ (right = -1 /\ left = IntMin)

FoldAdd(left, right) ==
    IF AddOver(left, right) THEN IntMax
    ELSE IF AddUnder(left, right) THEN IntMin
    ELSE left + right

FoldSub(left, right) ==
    IF SubOver(left, right) THEN IntMax
    ELSE IF SubUnder(left, right) THEN IntMin
    ELSE left - right

FoldMul(left, right) ==
    IF MulOver(left, right) THEN IntMax
    ELSE IF MulUnder(left, right) THEN IntMin
    ELSE left * right

FoldDiv(left, right) ==
    IF NoQuotient(left, right) THEN IntMax ELSE Quotient(left, right)

FoldMod(left, right) ==
    IF NoQuotient(left, right) THEN IntMax ELSE Remainder(left, right)

\* Each test that holds gives a warning (CTI_WARN) of what was encountered "as
\* optimization result".
Warns(op, left, right) ==
    CASE op = "add" -> AddOver(left, right) \/ AddUnder(left, right)
      [] op = "sub" -> SubOver(left, right) \/ SubUnder(left, right)
      [] op = "mul" -> MulOver(left, right) \/ MulUnder(left, right)
      [] op \in {"div", "mod"} -> NoQuotient(left, right)

Fold(op, left, right) ==
    CASE op = "add" -> FoldAdd(left, right)
      [] op = "sub" -> FoldSub(left, right)
      [] op = "mul" -> FoldMul(left, right)
      [] op = "div" -> FoldDiv(left, right)
      [] op = "mod" -> FoldMod(left, right)

-----------------------------------------------------------------------------
(* What the operators mean when the program runs: exactly, within the      *)
(* limits; and beyond them, on a machine whose ints wrap around.           *)

Exact(op, left, right) ==
    CASE op = "add" -> left + right
      [] op = "sub" -> left - right
      [] op = "mul" -> left * right
      [] op = "div" -> Quotient(left, right)
      [] op = "mod" -> Remainder(left, right)

Defined(op, left, right) ==
    /\ op \in {"div", "mod"} => right # 0
    /\ Exact(op, left, right) \in Ints
    /\ op = "mod" => Quotient(left, right) \in Ints

Wrapped(n) == IntMin + ((n - IntMin) % (IntMax - IntMin + 1))
=============================================================================
