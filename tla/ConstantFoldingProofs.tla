------------------------ MODULE ConstantFoldingProofs ------------------------
(***************************************************************************)
(* Folding two constants gives an int; it gives what the program itself    *)
(* computes unless it warns; and it warns only where the program has no     *)
(* value, but for products with a negative constant on the right.  The     *)
(* limit of int is any positive number.                                    *)
(***************************************************************************)
EXTENDS ConstantFolding, TLAPS

USE IntMaxAssumption DEF Ints, IntMin

LEMMA AddRight ==
    ASSUME NEW a \in Ints, NEW b \in Ints
    PROVE  /\ FoldAdd(a, b) \in Ints
           /\ AddOver(a, b) \/ AddUnder(a, b) <=> a + b \notin Ints
           /\ a + b \in Ints => FoldAdd(a, b) = a + b
  BY DEF FoldAdd, AddOver, AddUnder

LEMMA SubRight ==
    ASSUME NEW a \in Ints, NEW b \in Ints
    PROVE  /\ FoldSub(a, b) \in Ints
           /\ SubOver(a, b) \/ SubUnder(a, b) <=> a - b \notin Ints
           /\ a - b \in Ints => FoldSub(a, b) = a - b
  BY DEF FoldSub, SubOver, SubUnder

\* Division by a positive number, and what a product makes of it
LEMMA DivBounds ==
    ASSUME NEW a \in Nat, NEW b \in Nat \ {0}
    PROVE  /\ a \div b \in Nat
           /\ b * (a \div b) <= a
           /\ a < b * (a \div b) + b
           /\ a \div b <= a
  OBVIOUS

LEMMA ProductMonotonic ==
    ASSUME NEW a \in Int, NEW b \in Int, NEW c \in Nat, a <= b
    PROVE  a * c <= b * c
  OBVIOUS

LEMMA QuotientBounds ==
    ASSUME NEW a \in Int, NEW b \in Int \ {0}
    PROVE  /\ Quotient(a, b) \in Int
           /\ a >= 0 => a - b * Quotient(a, b) \in 0..a
           /\ a < 0 => a - b * Quotient(a, b) \in a..0
           /\ Abs(b) > 1 /\ a # 0 => /\ Quotient(a, b) < Abs(a)
                                    /\ -Quotient(a, b) < Abs(a)
           /\ b = 1 => Quotient(a, b) = a
           /\ b = -1 => Quotient(a, b) = -a
  <1> DEFINE m == Abs(a)
             n == Abs(b)
             q == m \div n
  <1>1. m \in Nat /\ n \in Nat \ {0}
    BY DEF Abs
  <1>2. q \in Nat /\ n * q <= m /\ q <= m
    BY <1>1, DivBounds
  <1>3. n > 1 /\ m # 0 => q < m
    <2> HAVE n > 1 /\ m # 0
    <2> HIDE DEF m, n, q
    <2>1. 2 * q <= n * q
      BY <1>1, <1>2, ProductMonotonic
    <2> QED
      BY <1>1, <1>2, <2>1
  <1>4. n = 1 => q = m
    <2> HIDE DEF m, n
    <2> QED
      BY <1>1
  <1>5. Quotient(a, b) = IF (a < 0) = (b < 0) THEN q ELSE -q
    <2> HIDE DEF q
    <2>1. Quotient(a, b) = (IF (a < 0) = (b < 0) THEN 1 ELSE -1) * q
      BY DEF Quotient, q
    <2> QED
      BY <2>1, <1>2
  <1>6. b * Quotient(a, b) = IF a < 0 THEN -(n * q) ELSE n * q
    <2> HIDE DEF q
    <2>1. CASE b > 0
      <3>1. n = b
        BY <2>1 DEF Abs
      <3>2. Quotient(a, b) = IF a < 0 THEN -q ELSE q
        BY <2>1, <1>5
      <3> QED
        BY <3>1, <3>2, <1>2, <1>1
    <2>2. CASE b < 0
      <3>1. n = -b
        BY <2>2 DEF Abs
      <3>2. Quotient(a, b) = IF a < 0 THEN q ELSE -q
        BY <2>2, <1>5
      <3> QED
        BY <3>1, <3>2, <1>2, <1>1
    <2> QED
      BY <2>1, <2>2
  <1>7. n * q \in Nat
    <2> HIDE DEF m, n, q
    <2> QED
      BY <1>1, <1>2
  <1>8. /\ m = IF a < 0 THEN -a ELSE a
        /\ n = IF b < 0 THEN -b ELSE b
    BY DEF Abs
  <1> HIDE DEF m, n, q
  <1>9. Quotient(a, b) \in Int
    BY <1>2, <1>5
  <1>10. /\ n > 1 /\ a # 0 => Quotient(a, b) < m /\ -Quotient(a, b) < m
         /\ b = 1 => Quotient(a, b) = a
         /\ b = -1 => Quotient(a, b) = -a
    BY <1>1, <1>2, <1>3, <1>4, <1>5, <1>8
  <1>11. /\ a >= 0 => a - b * Quotient(a, b) \in 0..a
         /\ a < 0 => a - b * Quotient(a, b) \in a..0
    BY <1>2, <1>6, <1>7, <1>8
  <1> QED
    BY <1>9, <1>10, <1>11 DEF m, n

\* A quotient is an int, but for INT_MIN / -1.
LEMMA QuotientFits ==
    ASSUME NEW a \in Ints, NEW b \in Ints \ {0}
    PROVE  Quotient(a, b) \in Ints <=> ~(b = -1 /\ a = IntMin)
  <1>0. a \in Int /\ b \in Int \ {0}
    OBVIOUS
  <1>1. CASE Abs(b) > 1
    <2>1. b # -1
      BY <1>1 DEF Abs
    <2>2. CASE a = 0
      <3>1. Quotient(a, b) \in Int /\ 0 - b * Quotient(a, b) = 0
        BY <1>0, <2>2, QuotientBounds
      <3>2. Quotient(a, b) = 0
        BY <3>1
      <3> QED
        BY <2>1, <3>2
    <2>3. CASE a # 0
      <3>1. Quotient(a, b) \in Int /\ Quotient(a, b) < Abs(a) /\ -Quotient(a, b) < Abs(a)
        BY <1>0, <1>1, <2>3, QuotientBounds
      <3>2. Abs(a) \in Int /\ Abs(a) <= IntMax + 1
        BY DEF Abs
      <3> QED
        BY <2>1, <3>1, <3>2
    <2> QED
      BY <2>2, <2>3
  <1>2. CASE ~(Abs(b) > 1)
    <2>1. b = 1 \/ b = -1
      BY <1>2 DEF Abs
    <2>2. Quotient(a, b) = IF b = 1 THEN a ELSE -a
      BY <1>0, <2>1, QuotientBounds
    <2> QED
      BY <2>1, <2>2
  <1> QED
    BY <1>1, <1>2

LEMMA DivRight ==
    ASSUME NEW a \in Ints, NEW b \in Ints
    PROVE  /\ FoldDiv(a, b) \in Ints
           /\ NoQuotient(a, b) <=> ~(b # 0 /\ Quotient(a, b) \in Ints)
           /\ b # 0 /\ Quotient(a, b) \in Ints => FoldDiv(a, b) = Quotient(a, b)
  BY QuotientFits DEF FoldDiv, NoQuotient

LEMMA ModRight ==
    ASSUME NEW a \in Ints, NEW b \in Ints
    PROVE  /\ FoldMod(a, b) \in Ints
           /\ b # 0 => Remainder(a, b) \in Ints
           /\ b # 0 /\ Quotient(a, b) \in Ints => FoldMod(a, b) = Remainder(a, b)
  <1>1. CASE b = 0
    BY <1>1 DEF FoldMod, NoQuotient
  <1>2. CASE b # 0
    <2>1. Remainder(a, b) \in 0..a \/ Remainder(a, b) \in a..0
      BY <1>2, QuotientBounds DEF Remainder
    <2>2. Remainder(a, b) \in Ints
      BY <2>1
    <2>3. Quotient(a, b) \in Ints => ~NoQuotient(a, b)
      BY <1>2, QuotientFits DEF NoQuotient
    <2> QED
      BY <1>2, <2>2, <2>3 DEF FoldMod
  <1> QED
    BY <1>1, <1>2

\* A product with a positive constant on the right
LEMMA MulPositive ==
    ASSUME NEW a \in Ints, NEW b \in Ints, b > 0
    PROVE  /\ FoldMul(a, b) \in Ints
           /\ MulOver(a, b) \/ MulUnder(a, b) <=> a * b \notin Ints
           /\ a * b \in Ints => FoldMul(a, b) = a * b
  <1> DEFINE q == IntMax \div b
             r == (IntMax + 1) \div b
  <1>1. /\ q \in Nat /\ b * q <= IntMax /\ IntMax < b * q + b
        /\ r \in Nat /\ b * r <= IntMax + 1 /\ IntMax + 1 < b * r + b
    BY DivBounds
  <1>2. Quotient(IntMax, b) = q /\ Quotient(IntMin, b) = -r
    BY <1>1 DEF Quotient, Abs
  <1> HIDE DEF q, r
  <1>3. /\ MulOver(a, b) <=> a > q
        /\ MulUnder(a, b) <=> a < -r
        /\ FoldMul(a, b) = IF a > q THEN IntMax
                           ELSE IF a < -r THEN IntMin ELSE a * b
    BY <1>2 DEF FoldMul, MulOver, MulUnder
  <1>4. a \in Int /\ b \in Nat /\ a * b \in Int
    OBVIOUS
  <1>5. CASE a > q
    <2>1. (q + 1) * b <= a * b
      BY <1>1, <1>4, <1>5, ProductMonotonic
    <2>2. a * b > IntMax
      BY <1>1, <1>4, <2>1
    <2> QED
      BY <1>3, <1>5, <2>2
  <1>6. CASE a < -r
    <2>1. a * b <= (-r - 1) * b
      BY <1>1, <1>4, <1>6, ProductMonotonic
    <2>2. a * b < IntMin
      BY <1>1, <1>4, <2>1
    <2>3. ~(a > q)
      BY <1>1, <1>6
    <2> QED
      BY <1>3, <1>6, <2>2, <2>3
  <1>7. CASE a <= q /\ a >= -r
    <2>1. a * b <= q * b /\ (-r) * b <= a * b
      BY <1>1, <1>4, <1>7, ProductMonotonic
    <2>2. a * b \in Ints
      BY <1>1, <1>4, <2>1
    <2> QED
      BY <1>1, <1>3, <1>7, <2>2
  <1> QED
    BY <1>1, <1>5, <1>6, <1>7

\* With a negative one, the value is a limit of int, and only that of
\* -INT_MAX * -1 is right.
LEMMA MulNegative ==
    ASSUME NEW a \in Ints, NEW b \in Ints, b < 0
    PROVE  /\ FoldMul(a, b) \in {IntMin, IntMax}
           /\ MulOver(a, b) \/ MulUnder(a, b) \/ (b = -1 /\ a = -IntMax)
           /\ b = -1 /\ a = -IntMax => FoldMul(a, b) = a * b
  <1>1. CASE b = -1
    <2>1. Quotient(IntMax, b) = -IntMax
      BY <1>1, QuotientBounds
    <2> QED
      BY <1>1, <2>1 DEF FoldMul, MulOver, MulUnder
  <1>2. CASE b < -1
    <2>0. -b \in Nat \ {0} /\ IntMax \in Nat /\ IntMax + 1 \in Nat
      BY <1>2, IntMaxAssumption DEF Ints, IntMin
    <2>a. IntMax \div (-b) \in Nat
      BY <2>0, DivBounds
    <2>b. /\ IntMax + 1 < (-b) * ((IntMax + 1) \div (-b)) + (-b)
          /\ (IntMax + 1) \div (-b) \in Nat
      BY <2>0, DivBounds
    <2>1. /\ IntMax \div (-b) \in Nat
          /\ IntMax + 1 < (-b) * ((IntMax + 1) \div (-b)) + (-b)
          /\ (IntMax + 1) \div (-b) \in Nat
      BY <2>a, <2>b
    <2>2. (IntMax + 1) \div (-b) > 0
      <3>1. SUFFICES ASSUME (IntMax + 1) \div (-b) = 0 PROVE FALSE
        BY <2>1
      <3>2. IntMax + 1 < -b
        BY <2>1, <3>1
      <3> QED
        BY <3>2
    <2>3. /\ Quotient(IntMax, b) = -(IntMax \div (-b))
          /\ Quotient(IntMin, b) = (IntMax + 1) \div (-b)
      BY <1>2, <2>1 DEF Quotient, Abs
    <2> QED
      BY <1>2, <2>1, <2>2, <2>3 DEF FoldMul, MulOver, MulUnder
  <1> QED
    BY <1>1, <1>2

Operators == {"add", "sub", "mul", "div", "mod"}

\* Whatever two ints are folded, the result is an int (OPT_CFbinop,
\* constant_folding.c): no constant of the rewritten program overflows.
THEOREM FoldedIsInt ==
    ASSUME NEW op \in Operators, NEW a \in Ints, NEW b \in Ints
    PROVE  Fold(op, a, b) \in Ints
  <1>1. FoldMul(a, b) \in Ints
    <2>1. CASE b = 0
      BY <2>1 DEF FoldMul, MulOver, MulUnder
    <2> QED
      BY <2>1, MulPositive, MulNegative
  <1> QED
    BY <1>1, AddRight, SubRight, DivRight, ModRight DEF Fold, Operators

\* The tests in front of the arithmetic (OPT_CFbinop, constant_folding.c:64-177)
\* miss nothing: unless the compiler warns, the value has no overflow and no
\* division by zero, and folding gives exactly it.
THEOREM FoldedOrWarned ==
    ASSUME NEW op \in Operators, NEW a \in Ints, NEW b \in Ints, ~Warns(op, a, b)
    PROVE  Defined(op, a, b) /\ Fold(op, a, b) = Exact(op, a, b)
  <1>1. CASE op \in {"add", "sub"}
    BY <1>1, AddRight, SubRight DEF Fold, Warns, Exact, Defined
  <1>2. CASE op = "mul"
    <2>0. ~MulOver(a, b) /\ ~MulUnder(a, b)
      BY <1>2 DEF Warns
    <2>1. a * b \in Ints /\ FoldMul(a, b) = a * b
      <3>1. CASE b = 0
        <4>1. a * b = 0
          BY <3>1
        <4> QED
          BY <2>0, <4>1 DEF FoldMul
      <3>2. CASE b > 0
        BY <2>0, <3>2, MulPositive
      <3>3. CASE b < 0
        <4>1. b = -1 /\ a = -IntMax
          BY <2>0, <3>3, MulNegative
        <4> QED
          BY <3>3, <4>1, MulNegative
      <3> QED
        BY <3>1, <3>2, <3>3
    <2> QED
      BY <1>2, <2>1 DEF Fold, Exact, Defined
  <1>3. CASE op \in {"div", "mod"}
    <2>1. ~NoQuotient(a, b)
      BY <1>3 DEF Warns
    <2> QED
      BY <1>3, <2>1, DivRight, ModRight DEF Fold, Exact, Defined
  <1> QED
    BY <1>1, <1>2, <1>3 DEF Operators

\* Nor do they hold without reason, but for products with a negative constant
\* on the right: where there is a warning, the program overflows or divides
\* by zero.
THEOREM WarnedRightly ==
    ASSUME NEW op \in Operators, NEW a \in Ints, NEW b \in Ints, Warns(op, a, b),
           op = "mul" => b >= 0
    PROVE  ~Defined(op, a, b)
  <1>1. CASE op \in {"add", "sub"}
    BY <1>1, AddRight, SubRight DEF Warns, Exact, Defined
  <1>2. CASE op = "mul"
    <2>1. MulOver(a, b) \/ MulUnder(a, b)
      BY <1>2 DEF Warns
    <2>2. b > 0
      BY <1>2, <2>1 DEF MulOver, MulUnder
    <2> QED
      BY <1>2, <2>1, <2>2, MulPositive DEF Exact, Defined
  <1>3. CASE op \in {"div", "mod"}
    <2>1. NoQuotient(a, b)
      BY <1>3 DEF Warns
    <2> QED
      BY <1>3, <2>1, DivRight DEF Exact, Defined
  <1> QED
    BY <1>1, <1>2, <1>3 DEF Operators

\* The test for overflow of a product is wrong for all negative constants on
\* the right: the result is a limit of int whatever the product is.
THEOREM NegativeProducts ==
    ASSUME NEW a \in Ints, NEW b \in Ints, b < 0
    PROVE  Fold("mul", a, b) \in {IntMin, IntMax}
  BY MulNegative DEF Fold
=============================================================================
