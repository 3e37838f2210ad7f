----------------------------- MODULE ExprRewrite -----------------------------
(***************************************************************************)
(* The three passes of the optimiser that rewrite expressions, and the     *)
(* cycle that repeats them until none reports a change (CCNcycleNotify):   *)
(* AlgebraicSimplification, AlgebraicReordering and ConstantFolding.       *)
(*                                                                         *)
(* An expression is a tree of integer constants, variables, calls without  *)
(* arguments and operators; conditions are boolean constants, variables    *)
(* and comparisons.  A pass returns the new tree, whether it reported a    *)
(* change, and whether it warned of an overflow.                           *)
(***************************************************************************)
EXTENDS ConstantFolding, Sequences

CONSTANTS
    Impure,     \* functions the side-effect analysis says YES of
    Sources,    \* the expressions to optimise, a sequence of sets
    Envs,       \* values of the variables and of functions without effects
    Returns,    \* what the calls of the others return, one after the other
    MaxCycles   \* the limit of the phase driver

Num(v)        == [node |-> "num", val |-> v]
Bool(v)       == [node |-> "bool", val |-> v]
Var(n)        == [node |-> "var", name |-> n]
Call(f)       == [node |-> "call", fun |-> f]
Neg(e)        == [node |-> "neg", arg |-> e]
Bin(op, l, r) == [node |-> "bin", op |-> op, left |-> l, right |-> r]
Cond(p, t, f) == [node |-> "cond", pred |-> p, then |-> t, else |-> f]

IsNum(e, v)  == e.node = "num" /\ e.val = v
IsBin(e, op) == e.node = "bin" /\ e.op = op

Res(e, changed) == [expr |-> e, changed |-> changed, warned |-> FALSE]

\* The result res, of a node whose parts had the results of the set parts
With(res, parts) ==
    [res EXCEPT !.changed = @ \/ \E p \in parts : p.changed,
                !.warned  = @ \/ \E p \in parts : p.warned]

-----------------------------------------------------------------------------
(* AlgebraicSimplification                                                 *)

None == [node |-> "none"]

\* sideeffected_expr with one more call, in the order in which they run
Plus(fx, e) == IF fx = None THEN e ELSE Bin("add", fx, e)

OrZero(e) == IF e = None THEN Num(0) ELSE e

\* The traversal with check_sideeffects: the calls of e that must stay, added
\* to fx.  A ternary stays if one of its branches holds such a call.
RECURSIVE Extract(_, _)
Extract(e, fx) ==
    CASE e.node = "call" -> IF e.fun \in Impure THEN Plus(fx, e) ELSE fx
      [] e.node = "neg"  -> Extract(e.arg, fx)
      [] e.node = "bin"  -> Extract(e.right, Extract(e.left, fx))
      [] e.node = "cond" ->
            LET f == Extract(e.else, None)
                t == Extract(e.then, None)
            IN  IF f = None /\ t = None THEN Extract(e.pred, fx)
                ELSE Plus(fx, Cond(e.pred, OrZero(t), OrZero(f)))
      [] OTHER -> fx

\* mutant: a single call
IsChainOfOne(e) == e.node = "call" /\ e.fun \in Impure

\* is_sideffect_chain: nothing but calls that must stay
RECURSIVE IsChain(_)
IsChain(e) ==
    \/ e.node = "call" /\ e.fun \in Impure
    \/ IsBin(e, "add") /\ IsChain(e.left) /\ IsChain(e.right)

\* mutant: a multiplication by zero is zero
TimesZeroDrops(e, other) == Res(Num(0), TRUE)

\* What is left of e, the product of zero and another expression
TimesZero(e, other) ==
    IF IsChain(other) THEN Res(e, FALSE)
    ELSE LET fx == Extract(other, None) IN
         Res(IF fx = None THEN Num(0) ELSE Bin("mul", fx, Num(0)), TRUE)

\* The rules of OPT_ASbinop, for a node whose operands are done
SimplifyBin(e) ==
    LET l == e.left
        r == e.right
    IN
    CASE e.op = "mul" ->
            IF IsNum(l, 1) THEN Res(r, TRUE)
            ELSE IF IsNum(l, 0) THEN TimesZero(e, r)
            ELSE IF IsNum(r, 1) THEN Res(l, TRUE)
            ELSE IF IsNum(r, 0) THEN TimesZero(e, l)
            ELSE Res(e, FALSE)
      [] e.op \in {"add", "sub"} ->
            IF IsNum(l, 0) THEN Res(r, TRUE)
            ELSE IF IsNum(r, 0) THEN Res(l, TRUE)
            ELSE Res(e, FALSE)
      [] e.op \in {"div", "mod"} ->
            IF IsNum(r, 1) THEN Res(l, TRUE)
            ELSE IF IsNum(r, -1) THEN Res(Neg(l), TRUE)
            ELSE Res(e, FALSE)
      [] e.op = "lt" -> Res(e, FALSE)

\* OPT_ASmonop
SimplifyNeg(e) ==
    IF e.arg.node = "num" THEN Res(Num(Negated(e.arg.val)), TRUE)
    ELSE IF e.arg.node = "neg" THEN Res(e.arg.arg, TRUE)
    ELSE Res(e, FALSE)

-----------------------------------------------------------------------------
(* AlgebraicReordering: OPT_ARbinop on integers, for a node whose operands *)
(* are done.  Regrouped operands are gone through again.                   *)

\* (l1 + l2) + (r1 + r2) and l + (r1 + r2), and the same with - and *
Regroups(e) ==
    /\ e.op \in {"add", "sub", "mul"}
    /\ IsBin(e.right, e.op)
    /\ e.left.node = "bin" => e.left.op = e.op

Regrouped(e) == Bin(e.op, Bin(e.op, e.left, e.right.left), e.right.right)

\* mutants: any operator, and none
CommutesAny(op) == TRUE
CommutesNone(op) == FALSE

Commutes(op) == op # "sub"

\* A constant moves to the right.
Swapped(e) ==
    LET l == e.left
        r == e.right
    IN
    IF e.op \notin {"add", "sub", "mul"} THEN Res(e, FALSE)
    ELSE IF IsBin(l, e.op) /\ l.right.node = "num" /\ r.node # "num"
         THEN Res(Bin(e.op, Bin(e.op, l.left, r), l.right), TRUE)
    ELSE IF Commutes(e.op) /\ l.node = "num" /\ r.node # "num"
         THEN Res(Bin(e.op, r, l), TRUE)
    ELSE Res(e, FALSE)

-----------------------------------------------------------------------------
(* ConstantFolding                                                         *)

FoldBin(e) ==
    IF e.left.node = "num" /\ e.right.node = "num"
    THEN IF e.op = "lt" THEN Res(Bool(e.left.val < e.right.val), TRUE)
         ELSE [Res(Num(Fold(e.op, e.left.val, e.right.val)), TRUE)
                  EXCEPT !.warned = Warns(e.op, e.left.val, e.right.val)]
    ELSE Res(e, FALSE)

FoldCond(e) ==
    IF e.pred.node = "bool"
    THEN Res(IF e.pred.val THEN e.then ELSE e.else, TRUE)
    ELSE Res(e, FALSE)

-----------------------------------------------------------------------------
(* A pass: the operands first, then the node itself.                       *)

RECURSIVE Pass(_, _)
Pass(p, e) ==
    CASE e.node = "bin" ->
            LET l    == Pass(p, e.left)
                r    == Pass(p, e.right)
                done == Bin(e.op, l.expr, r.expr)
                res  == CASE p = "AS" -> SimplifyBin(done)
                          [] p = "CF" -> FoldBin(done)
                          [] p = "AR" ->
                               IF ~Regroups(done) THEN Swapped(done)
                               ELSE LET new  == Regrouped(done)
                                        left == Pass(p, new.left)
                                        rest == Pass(p, new.right)
                                    IN  With(Swapped(Bin(new.op, left.expr, rest.expr)),
                                             {Res(new, TRUE)})
            IN  With(res, {l, r})
      [] e.node = "neg" ->
            LET a    == Pass(p, e.arg)
                done == Neg(a.expr)
            IN  With(IF p = "AS" THEN SimplifyNeg(done) ELSE Res(done, FALSE), {a})
      [] e.node = "cond" ->
            LET c    == Pass(p, e.pred)
                t    == Pass(p, e.then)
                f    == Pass(p, e.else)
                done == Cond(c.expr, t.expr, f.expr)
            IN  With(IF p = "CF" THEN FoldCond(done) ELSE Res(done, FALSE), {c, t, f})
      [] OTHER -> Res(e, FALSE)

-----------------------------------------------------------------------------
(* The cycle                                                               *)

VARIABLES
    source,     \* the expression of the program
    expr,       \* what has become of it
    pass,       \* the pass that comes next, or "end" of the cycle
    changed,    \* whether a pass of this cycle reported a change
    cycles,     \* cycle_iter of the phase driver
    warned      \* whether ConstantFolding has warned of an overflow or a
                \* division by zero

vars == <<source, expr, pass, changed, cycles, warned>>

Init ==
    /\ \E k \in DOMAIN Sources : source \in Sources[k]
    /\ expr = source
    /\ pass = "AS" /\ changed = FALSE /\ cycles = 0 /\ warned = FALSE

Run(p, next) ==
    /\ pass = p
    /\ \E res \in {Pass(p, expr)} :
          /\ expr' = res.expr
          /\ changed' = (changed \/ res.changed)
          /\ warned' = (warned \/ res.warned)
    /\ pass' = next
    /\ cycles' = IF next = "end" THEN cycles + 1 ELSE cycles
    /\ UNCHANGED source

AlgebraicSimplification == Run("AS", "AR")
AlgebraicReordering     == Run("AR", "CF")
Folding                 == Run("CF", "end")

Again ==
    /\ pass = "end" /\ changed /\ cycles < MaxCycles
    /\ pass' = "AS" /\ changed' = FALSE
    /\ UNCHANGED <<source, expr, cycles, warned>>

AtRest == pass = "end" /\ ~changed

Terminated == pass = "end" /\ (changed => cycles = MaxCycles) /\ UNCHANGED vars

Next == \/ AlgebraicSimplification \/ AlgebraicReordering \/ Folding
        \/ Again \/ Terminated

Spec == Init /\ [][Next]_vars

-----------------------------------------------------------------------------
(* The meaning of an expression: its value, on a machine whose ints wrap   *)
(* around, and the calls it makes.  It is ok if all divisions have a       *)
(* quotient, and it fits if moreover nothing overflows.                    *)

Value(val, ok, fits, calls) == [val |-> val, ok |-> ok, fits |-> fits, calls |-> calls]

RECURSIVE Eval(_, _, _)
Eval(e, env, calls) ==
    CASE e.node \in {"num", "bool"} -> Value(e.val, TRUE, TRUE, calls)
      [] e.node = "var"  -> Value(env[e.name], TRUE, TRUE, calls)
      [] e.node = "call" ->
            IF e.fun \in Impure
            THEN Value(Returns[Len(calls) + 1], TRUE, TRUE, Append(calls, e.fun))
            ELSE Value(env[e.fun], TRUE, TRUE, calls)
      [] e.node = "neg"  ->
            LET a == Eval(e.arg, env, calls) IN
            Value(Wrapped(-a.val), a.ok, a.fits /\ -a.val \in Ints, a.calls)
      [] e.node = "cond" ->
            LET c == Eval(e.pred, env, calls)
                x == Eval(IF c.val THEN e.then ELSE e.else, env, c.calls)
            IN  Value(x.val, c.ok /\ x.ok, c.fits /\ x.fits, x.calls)
      [] e.node = "bin"  ->
            LET l  == Eval(e.left, env, calls)
                r  == Eval(e.right, env, l.calls)
                ok == l.ok /\ r.ok /\ (e.op \in {"div", "mod"} => ~NoQuotient(l.val, r.val))
                n  == IF ok THEN Exact(e.op, l.val, r.val) ELSE 0
            IN  IF e.op = "lt"
                THEN Value(l.val < r.val, ok, l.fits /\ r.fits, r.calls)
                ELSE Value(Wrapped(n), ok, l.fits /\ r.fits /\ ok /\ n \in Ints, r.calls)

Meaning(e, env) == Eval(e, env, <<>>)

-----------------------------------------------------------------------------
(* Properties                                                              *)

RECURSIVE Expression(_)
Expression(e) ==
    CASE e.node = "num"  -> e.val \in Ints
      [] e.node = "neg"  -> Expression(e.arg)
      [] e.node = "bin"  -> Expression(e.left) /\ Expression(e.right)
      [] e.node = "cond" -> Expression(e.pred) /\ Expression(e.then) /\ Expression(e.else)
      [] OTHER -> e.node \in {"bool", "var", "call"}

\* The constants stay within the range of int, whatever is folded, negated or
\* counted up on the way.  And unless the compiler has warned, the rewritten
\* expression has the value of the program's, wherever that one divides by
\* nothing that has no quotient.  Regrouping a sum may make it overflow on the
\* way and come back, which changes nothing when ints wrap around.
ValueKept ==
    /\ Expression(expr)
    /\ ~warned => \A env \in Envs :
           LET was == Meaning(source, env)
               is  == Meaning(expr, env)
           IN  was.ok => is.ok /\ is.val = was.val

\* "We are not allowed to reorder sub and add, because we could cause an
\* unexpext overflow" (algebraic_reordering.c:64): where the program overflows
\* nowhere, the constants that reordering brings together do not either.
NoUnexpectedOverflow ==
    warned => \E env \in Envs : ~Meaning(source, env).fits

\* The calls that have effects are made in the same order, each as often as
\* before and under the same conditions.
CallsKept ==
    \A env \in Envs : Meaning(expr, env).calls = Meaning(source, env).calls

\* What the passes are for: at rest, constants stand to the right of all else
\* in sums and products ("expr + expr + ... + const + const",
\* algebraic_reordering.c:49), and no operator has two constants.
RECURSIVE Ordered(_)
Ordered(e) ==
    CASE e.node = "neg"  -> Ordered(e.arg)
      [] e.node = "cond" -> Ordered(e.pred) /\ Ordered(e.then) /\ Ordered(e.else)
      [] e.node = "bin"  ->
            /\ Ordered(e.left) /\ Ordered(e.right)
            /\ ~(e.left.node = "num" /\ e.right.node = "num")
            /\ e.op \in {"add", "mul"} =>
                  /\ e.left.node # "num" /\ ~Regroups(e)
                  /\ ~(IsBin(e.left, e.op) /\ e.left.right.node = "num"
                                         /\ e.right.node # "num")
      [] OTHER -> TRUE

ConstantsLast == AtRest => Ordered(expr)

\* The passes do not undo each other's work: the cycle ends because nothing
\* is left to do, and not at the limit of the driver.
Settles == pass = "end" /\ cycles = MaxCycles => AtRest
=============================================================================
