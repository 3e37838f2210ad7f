----------------------------- MODULE ForLoopCode -----------------------------
(***************************************************************************)
(* For loops from the prepared tree to the run: OPT_BEforloop, which drops *)
(* the block of a loop, the instructions CG_CGforloop emits, and the stack *)
(* machine that runs them.  HeterogeneousAssignments has put bounds that   *)
(* are no numbers into variables of their own before the loop.  The body   *)
(* is one instruction that notes the value of the loop variable, and does  *)
(* not assign to it.  Integers are far from their limits.                  *)
(***************************************************************************)
EXTENDS LoopHeader

VARIABLES
    loop,   \* the loop
    ran,    \* the values of its variable the body has run with
    pc,     \* the next instruction
    env,    \* the local variables of the loop
    stack   \* the operands of the machine, the top last; 1 is true

vars == <<loop, ran, pc, env, stack>>

-----------------------------------------------------------------------------
(* The compiler                                                            *)

I(op, arg) == [op |-> op, arg |-> arg]
Plain(op) == I(op, "none")

\* mutant: a variable taken for the number it starts with
DropsBlockUnknown(l) == l.step > 0 /\ l.start + l.step >= l.stop

\* The test of OPT_BEforloop
DropsBlock(l) ==
    /\ l.known
    /\ \/ l.step > 0 /\ l.start + l.step >= l.stop
       \/ l.step < 0 /\ l.start + l.step <= l.stop

Body(l) == IF DropsBlock(l) THEN <<>> ELSE <<I("body", "i")>>

Stop(l) == IF l.stopForm = "number" THEN I("push", l.stop) ELSE I("load", "cond")

Compare(l) == IF l.step > 0 THEN Plain("ilt") ELSE Plain("igt")

Start(l) == <<I("push", l.start), I("store", "i")>>

\* The variable is compared with stop before each iteration; "last" is what
\* is emitted between the body and the increment.
TestedCode(l, last) ==
    Start(l) \o
    <<I("label", "start"), I("load", "i"), Stop(l), Compare(l), I("branch_f", "end")>> \o
    Body(l) \o last \o
    <<I("inc", l.step), I("jump", "start"), I("label", "end")>>

\* A step of 1 or -1 that is written: CGint leaves it on the stack.
Explicit(l) == l.stepForm = "number" /\ l.step \in {1, -1}

\* The step is 1 or -1.
UnitCode(l) == TestedCode(l, IF Explicit(l) THEN <<I("push", l.step)>> ELSE <<>>)

\* mutant: the step is left on the stack here as well
NumberCodePushes(l) == TestedCode(l, <<I("push", l.step)>>)

\* The step is another number; it only gets a place in the constant table.
NumberCode(l) == TestedCode(l, <<>>)

\* The general case: "cond" becomes the number of times that are left.
CountedCode(l) ==
    Start(l) \o
    <<I("load", "cond"), I("load", "i"), Plain("isub"), I("load", "iter"),
      Plain("idiv"), I("store", "cond"),
      I("load", "cond"), I("load", "iter"), Plain("irem"), I("push", 0),
      Plain("ieq"), I("branch_t", "start"), I("inc_cond", 1),
      I("label", "start"), I("load", "cond"), I("push", 0), Plain("igt"),
      I("branch_f", "end")>> \o
    Body(l) \o
    <<I("inc_cond", -1), I("load", "i"), I("load", "iter"), Plain("iadd"),
      I("store", "i"), I("jump", "start"), I("label", "end")>>

Code(l) ==
    CASE l.stepForm = "variable" -> CountedCode(l)
      [] l.stepForm # "variable" /\ l.step \in {1, -1} -> UnitCode(l)
      [] l.stepForm # "variable" /\ l.step \notin {1, -1} -> NumberCode(l)

-----------------------------------------------------------------------------
(* The machine                                                             *)

Init ==
    /\ loop \in Loops /\ ran = <<>>
    /\ pc = 1 /\ stack = <<>>
    /\ env = [i |-> 0, cond |-> loop.stop, iter |-> loop.step]

Halted == pc > Len(Code(loop))

At(ops) == ~Halted /\ Code(loop)[pc].op \in ops

Arg == Code(loop)[pc].arg

Target == CHOOSE n \in 1..Len(Code(loop)) :
             Code(loop)[n].op = "label" /\ Code(loop)[n].arg = Arg

Top == stack[Len(stack)]
Second == stack[Len(stack) - 1]
Drop(n) == SubSeq(stack, 1, Len(stack) - n)

Truth(b) == IF b THEN 1 ELSE 0

\* Division rounds towards zero.
Abs(n) == IF n < 0 THEN -n ELSE n
Quotient(a, b) == (IF (a < 0) = (b < 0) THEN 1 ELSE -1) * (Abs(a) \div Abs(b))

Apply(op, a, b) ==
    CASE op = "ilt"  -> Truth(a < b)
      [] op = "igt"  -> Truth(a > b)
      [] op = "ieq"  -> Truth(a = b)
      [] op = "isub" -> a - b
      [] op = "iadd" -> a + b
      [] op = "idiv" -> Quotient(a, b)
      [] op = "irem" -> a - b * Quotient(a, b)

Load ==
    /\ At({"push", "load"})
    /\ stack' = Append(stack, IF Code(loop)[pc].op = "push" THEN Arg ELSE env[Arg])
    /\ pc' = pc + 1
    /\ UNCHANGED <<loop, ran, env>>

Store ==
    /\ At({"store"})
    /\ env' = [env EXCEPT ![Arg] = Top]
    /\ stack' = Drop(1)
    /\ pc' = pc + 1
    /\ UNCHANGED <<loop, ran>>

Operate ==
    /\ At({"ilt", "igt", "ieq", "isub", "iadd", "idiv", "irem"})
    /\ stack' = Append(Drop(2), Apply(Code(loop)[pc].op, Second, Top))
    /\ pc' = pc + 1
    /\ UNCHANGED <<loop, ran, env>>

\* iinc_1, idec_1 and iinc
Increment ==
    /\ At({"inc", "inc_cond"})
    /\ env' = [env EXCEPT ![IF At({"inc"}) THEN "i" ELSE "cond"] = @ + Arg]
    /\ pc' = pc + 1
    /\ UNCHANGED <<loop, ran, stack>>

Branch ==
    /\ At({"branch_f", "branch_t"})
    /\ pc' = IF (Top = 1) = At({"branch_t"}) THEN Target ELSE pc + 1
    /\ stack' = Drop(1)
    /\ UNCHANGED <<loop, ran, env>>

Jump ==
    /\ At({"jump", "label"})
    /\ pc' = IF At({"jump"}) THEN Target ELSE pc + 1
    /\ UNCHANGED <<loop, ran, env, stack>>

RunBody ==
    /\ At({"body"})
    /\ ran' = Append(ran, env.i)
    /\ pc' = pc + 1
    /\ UNCHANGED <<loop, env, stack>>

Terminated == Halted /\ UNCHANGED vars

Next == Load \/ Store \/ Operate \/ Increment \/ Branch \/ Jump \/ RunBody
        \/ Terminated

Spec == Init /\ [][Next]_vars /\ WF_vars(Next)

-----------------------------------------------------------------------------
(* Properties                                                              *)

\* The machine leaves the loop as the language says: the body has run with
\* the right values of the variable, each once, and the loop ends.
Meant == INSTANCE ForLoop WITH over <- Halted
ImplementsForLoop == Meant!LoopSpec

\* When the loop is tested or over, there is nothing left of it on the stack, but
\* one operand for each time the body has run if its step is an explicit 1 or
\* -1: CG_CGforloop visits it and nobody takes what that leaves.  (A loop
\* without its block does not note its iterations.)
StackBalanced ==
    /\ \/ Halted
       \/ At({"label"}) /\ Arg = "start"
    /\ Explicit(loop) => ~DropsBlock(loop)
    => Len(stack) = IF Explicit(loop) THEN Len(ran) ELSE 0
=============================================================================
