---------------------------- MODULE MCExprRewrite ----------------------------
(***************************************************************************)
(* Expressions over a variable x, a condition b, a function f with effects *)
(* and a function p without.                                               *)
(***************************************************************************)
EXTENDS ExprRewrite

MCImpure == {"f"}
MCEnvs == {[x |-> 3, p |-> 5, b |-> TRUE], [x |-> -2, p |-> 1, b |-> FALSE],
           [x |-> 900, p |-> -700, b |-> TRUE]}
MCReturns == [n \in 1..8 |-> 2 * n + 1]

x == Var("x")
f == Call("f")
p == Call("p")
b == Var("b")

Bins(ops, L, R) == {Bin(op, l, r) : op \in ops, l \in L, r \in R}

Leaves == {Num(0), Num(1), Num(3), x, f, p}

\* Sums and products of two levels of operators
Small == Leaves \cup Bins({"add", "mul"}, Leaves, Leaves)
SumsAndProducts == Bins({"add", "mul"}, Small, Small)

\* Conditional expressions, alone, in sums, and in products; where they hold
\* a call with effects, not in products with 0, which never settle
Branches == {x, p, Num(0), Bin("add", Num(3), x)}
Conds(T, E) == {Cond(c, t, e) : c \in {b, Bool(TRUE), Bin("lt", x, Num(0)), Bin("lt", Num(0), f)},
                                t \in T, e \in E}
CondsInSums ==
    Bins({"add", "mul"}, Conds(Branches, Branches), Leaves)
    \cup Bins({"add", "mul"}, Leaves, Conds(Branches, Branches))
    \cup Bins({"add"}, Conds({f, x, Num(0)}, {f, p}), Leaves)
    \cup Bins({"mul"}, Leaves \ {Num(0)}, Conds({f, x}, {f, p}))

Negs == {Neg(e) : e \in Small} \cup {Neg(Neg(e)) : e \in Small}
Signed == Negs \cup Bins({"add", "mul"}, Negs, Leaves)

\* Not x % 1 and x % -1
Divisions == Bins({"div"}, Small, {Num(1), Num(3), Neg(Num(1)), x, f})
             \cup Bins({"mod"}, Small, {Num(3), x, f})
InDivisions == Bins({"add", "mul", "div"}, Divisions, {Num(3), x, f})
               \cup Bins({"mod"}, Divisions, {Num(3), x})

\* Not 0 - x, nor x - (y - z)
Minuends == {x, p, f} \cup Bins({"add", "mul"}, {x, p, f}, {Num(1), Num(3), x, f})
Differences == Bins({"sub"}, Minuends, {Num(0), Num(1), Num(3), x, f})
               \cup Bins({"sub"}, {Num(3)}, {x, f, Bin("mul", x, f)})
InDifferences == Bins({"add", "mul"}, Leaves, Differences)
                 \cup Bins({"add", "mul", "sub"}, Differences, Leaves \ {Num(0)})

\* Constants at the limits of int; again not 0 - x, x % 1 and x % -1
Limits == {-IntMax - 1, -IntMax, -1, 0, 1, 2, IntMax - 1, IntMax}
AtLimits == Bins({"add", "mul", "div"}, {Num(v) : v \in Limits}, {Num(v) : v \in Limits})
            \cup Bins({"sub"}, {Num(v) : v \in Limits \ {0}}, {Num(v) : v \in Limits})
            \cup Bins({"mod"}, {Num(v) : v \in Limits}, {Num(v) : v \in Limits \ {1, -1}})

\* Sums and products of three numbers and variables that overflow on the way,
\* as they are or once they are regrouped
Large == {Num(-IntMax - 1), Num(-300), Num(-1), Num(200), Num(900), Num(IntMax), x, p}
NearLimits == Bins({"add", "mul"}, Large, Bins({"add", "mul"}, Large, Large))
              \cup Bins({"add", "mul"}, Bins({"add", "mul"}, Large, Large), Large)
              \cup Bins({"sub"}, Bins({"add", "sub"}, Large, Large), Large)

MCSources == <<SumsAndProducts, CondsInSums, Signed, InDivisions, InDifferences, AtLimits,
               NearLimits>>

\* Sums of three constants
ConstantSums == <<Bins({"add"}, Large \ {x, p}, Bins({"add"}, Large \ {x, p}, Large \ {x, p}))>>

\* Differences of differences
NestedDifferences == <<Bins({"sub"}, {x, f}, Bins({"sub"}, {x, f}, {x, p}))>>
=============================================================================
