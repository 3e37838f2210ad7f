----------------------------- MODULE Operators -----------------------------
(***************************************************************************)
(* The operators of expressions, the same in the source as on the stack    *)
(* machine.  Truth values are 0 and 1.                                     *)
(***************************************************************************)
EXTENDS Integers

Binary == {"add", "sub", "mul", "lt", "le", "gt", "ge", "eq", "ne"}
Unary == {"neg", "not"}

Truth(b) == IF b THEN 1 ELSE 0

\* What the operators mean, in the source as on the machine.
BinaryValue(op, a, b) ==
  CASE op = "add" -> a + b
    [] op = "sub" -> a - b
    [] op = "mul" -> a * b
    [] op = "lt" -> Truth(a < b)
    [] op = "le" -> Truth(a <= b)
    [] op = "gt" -> Truth(a > b)
    [] op = "ge" -> Truth(a >= b)
    [] op = "eq" -> Truth(a = b)
    [] op = "ne" -> Truth(a # b)

UnaryValue(op, a) == IF op = "neg" THEN -a ELSE 1 - a
=============================================================================
