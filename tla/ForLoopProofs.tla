--------------------------- MODULE ForLoopProofs ---------------------------
(***************************************************************************)
(* The code of a for loop, for all loops: the stack is balanced            *)
(* (StackBalanced), but for one operand that an explicit step of 1 or -1   *)
(* leaves in each iteration, and the loops that AsMeant describes run as   *)
(* the language means (the safety part of ImplementsForLoop).              *)
(*                                                                         *)
(* The invariant says for every instruction how many operands it finds and *)
(* what they are, and that the loop variable is start plus step times the  *)
(* number of iterations that are over.  TestedStep and CountedStep have a  *)
(* case for each instruction of the two shapes of code.                    *)
(***************************************************************************)
EXTENDS ForLoopCode, TLAPS

Tested(l) == l.stepForm # "variable"

Kept(l) == IF DropsBlock(l) THEN 0 ELSE 1
Left(l) == IF Explicit(l) THEN 1 ELSE 0

\* Where the last part of the code begins: the step to the next iteration.
Step(l) == IF Tested(l) THEN 8 + Kept(l) + Left(l) ELSE 21 + Kept(l)

\* How often the code with a variable as step means to run the body.
Difference(l) == l.stop - l.start
Rounded(l) == Quotient(Difference(l), l.step)
Rest(l) == Rounded(l) - l.step * Quotient(Rounded(l), l.step)
Count(l) == IF Rest(l) = 0 THEN Rounded(l) ELSE Rounded(l) + 1

\* The value of the variable in iteration k, counted from 0
Nth(l, k) == l.start + k * l.step

CountsRight(l) ==
    \A k \in Nat : Continues(l, Nth(l, k)) <=> k < Count(l)

\* A loop that has its block unless it never runs, and whose number of
\* iterations, if it is computed, is the right one
Good(l) == /\ DropsBlock(l) => ~Continues(l, l.start)
           /\ ~Tested(l) => CountsRight(l)

-----------------------------------------------------------------------------
(* The invariant                                                           *)

\* The body has run and the variable still has the value it ran with.
InBlock == /\ Kept(loop) = 1
           /\ IF Tested(loop) THEN pc \in 9..Step(loop)
                              ELSE pc \in Step(loop)..Step(loop) + 4

\* Iterations that are over
Passed == IF InBlock THEN Len(ran) - 1 ELSE Len(ran)

Types ==
    /\ loop \in Loops /\ ran \in Seq(Int) /\ stack \in Seq(Int)
    /\ pc \in 1..Len(Code(loop)) + 1
    /\ env \in [i : Int, cond : Int, iter : Int]

\* How many operands the instruction at pc finds
Operands ==
    IF Tested(loop)
    THEN IF pc \in {2, 5, 7} THEN 1 ELSE IF pc = 6 THEN 2 ELSE 0
    ELSE IF pc \in {2, 4, 6, 8, 10, 12, 14, 18, 20, Step(loop) + 2, Step(loop) + 4} THEN 1
         ELSE IF pc \in {5, 7, 11, 13, 19, Step(loop) + 3} THEN 2 ELSE 0

\* What explicit steps of 1 and -1 have left below them
Height ==
    /\ Len(stack) >= Operands
    /\ Left(loop) = 0 => Len(stack) = Operands
    /\ Left(loop) = 1 /\ Kept(loop) = 1 =>
          Len(stack) = Operands + IF pc = 9 THEN Passed ELSE Len(ran)

\* The body has run with start, start + step, ...
InSteps ==
    /\ \A k \in 1..Len(ran) : ran[k] = Nth(loop, k - 1)
    /\ Kept(loop) = 0 => ran = <<>>
    /\ InBlock => Len(ran) > 0
    /\ pc <= 2 => ran = <<>>

Variables ==
    /\ env.iter = loop.step
    /\ Tested(loop) => env.cond = loop.stop
    /\ pc = 2 => Top = loop.start
    /\ pc >= 3 /\ (Kept(loop) = 1 \/ Good(loop)) =>
          env.i = Nth(loop, Passed)

GoesOn == Continues(loop, Nth(loop, Passed))

\* In tested code, for a loop that is good or has its block
TestedState ==
    /\ pc = 5 => Top = env.i
    /\ pc = 6 => Second = env.i /\ Top = loop.stop
    /\ pc = 7 => Top = Truth(Continues(loop, env.i))
    /\ pc \in 8..Step(loop) => GoesOn
    /\ Kept(loop) = 0 => pc \notin 8..Step(loop) + 1
    /\ pc >= Step(loop) + 2 => ~GoesOn

\* In the code for a step that is a variable: "cond" is stop, then the
\* quotient, then the iterations that are left.
Calculation ==
    /\ pc \in 3..15 => env.i = loop.start /\ ran = <<>>
    /\ pc <= 8 => env.cond = loop.stop
    /\ pc \in 9..15 => env.cond = Rounded(loop)
    /\ pc = 4 => Top = loop.stop
    /\ pc = 5 => Second = loop.stop /\ Top = loop.start
    /\ pc = 6 => Top = Difference(loop)
    /\ pc = 7 => Second = Difference(loop) /\ Top = loop.step
    /\ pc = 8 => Top = Rounded(loop)
    /\ pc = 10 => Top = Rounded(loop)
    /\ pc = 11 => Second = Rounded(loop) /\ Top = loop.step
    /\ pc = 12 => Top = Rest(loop)
    /\ pc = 13 => Second = Rest(loop) /\ Top = 0
    /\ pc = 14 => Top = Truth(Rest(loop) = 0)
    /\ pc = 15 => Rest(loop) # 0
    /\ pc = 18 => Top = env.cond
    /\ pc = 19 => Second = env.cond /\ Top = 0
    /\ pc = 20 => Top = Truth(env.cond > 0)
    /\ pc = 21 => env.cond > 0
    /\ pc = Step(loop) + 2 => Top = env.i
    /\ pc = Step(loop) + 3 => Second = env.i /\ Top = loop.step
    /\ pc = Step(loop) + 4 => Top = env.i + loop.step

\* In that code, for a loop that is good or has its block
CountedState ==
    /\ pc >= 16 => env.cond = Count(loop) - IF pc = Step(loop) THEN Passed ELSE Len(ran)
    /\ Kept(loop) = 0 => pc \notin 21..Step(loop) + 5
    /\ pc \in 21..Step(loop) => Passed < Count(loop)
    /\ pc >= Step(loop) + 6 => env.cond <= 0

LoopInv ==
    /\ Types /\ Height /\ InSteps /\ Variables
    /\ ~Tested(loop) => Calculation
    /\ Kept(loop) = 1 \/ Good(loop) =>
          IF Tested(loop) THEN TestedState ELSE CountedState

-----------------------------------------------------------------------------
(* The code                                                                *)

LEMMA TestedShape ==
    ASSUME NEW l \in Loop, Tested(l)
    PROVE  /\ Len(Code(l)) = Step(l) + 2
           /\ Code(l)[1] = I("push", l.start)
           /\ Code(l)[2] = I("store", "i")
           /\ Code(l)[3] = I("label", "start")
           /\ Code(l)[4] = I("load", "i")
           /\ Code(l)[5] = Stop(l)
           /\ Code(l)[6] = Compare(l)
           /\ Code(l)[7] = I("branch_f", "end")
           /\ Kept(l) = 1 => Code(l)[8] = I("body", "i")
           /\ Left(l) = 1 => Code(l)[8 + Kept(l)] = I("push", l.step)
           /\ Code(l)[Step(l)] = I("inc", l.step)
           /\ Code(l)[Step(l) + 1] = I("jump", "start")
           /\ Code(l)[Step(l) + 2] = I("label", "end")
  <1> DEFINE last == IF Explicit(l) THEN <<I("push", l.step)>> ELSE <<>>
  <1>1. Code(l) = TestedCode(l, last)
    BY DEF Tested, Code, UnitCode, NumberCode, Explicit, Loop
  <1>2. CASE DropsBlock(l) /\ Explicit(l)
    BY <1>1, <1>2 DEF Kept, Left, Step, Tested, TestedCode, Start, Body
  <1>3. CASE DropsBlock(l) /\ ~Explicit(l)
    BY <1>1, <1>3 DEF Kept, Left, Step, Tested, TestedCode, Start, Body
  <1>4. CASE ~DropsBlock(l) /\ Explicit(l)
    BY <1>1, <1>4 DEF Kept, Left, Step, Tested, TestedCode, Start, Body
  <1>5. CASE ~DropsBlock(l) /\ ~Explicit(l)
    BY <1>1, <1>5 DEF Kept, Left, Step, Tested, TestedCode, Start, Body
  <1> QED
    BY <1>2, <1>3, <1>4, <1>5

\* The parts of the code of a loop with a variable as step
LEMMA CountedShape ==
    ASSUME NEW l \in Loop, ~Tested(l)
    PROVE  LET c == Code(l) IN
           /\ Len(c) = Step(l) + 6
           /\ c[1] = I("push", l.start) /\ c[2] = I("store", "i")
           /\ c[3] = I("load", "cond") /\ c[4] = I("load", "i")
           /\ c[5] = Plain("isub") /\ c[6] = I("load", "iter")
           /\ c[7] = Plain("idiv") /\ c[8] = I("store", "cond")
           /\ c[9] = I("load", "cond") /\ c[10] = I("load", "iter")
           /\ c[11] = Plain("irem") /\ c[12] = I("push", 0)
           /\ c[13] = Plain("ieq") /\ c[14] = I("branch_t", "start")
           /\ c[15] = I("inc_cond", 1) /\ c[16] = I("label", "start")
           /\ c[17] = I("load", "cond") /\ c[18] = I("push", 0)
           /\ c[19] = Plain("igt") /\ c[20] = I("branch_f", "end")
           /\ Kept(l) = 1 => c[21] = I("body", "i")
           /\ c[Step(l)] = I("inc_cond", -1)
           /\ c[Step(l) + 1] = I("load", "i") /\ c[Step(l) + 2] = I("load", "iter")
           /\ c[Step(l) + 3] = Plain("iadd") /\ c[Step(l) + 4] = I("store", "i")
           /\ c[Step(l) + 5] = I("jump", "start") /\ c[Step(l) + 6] = I("label", "end")
  <1> DEFINE first ==
               <<I("load", "cond"), I("load", "i"), Plain("isub"), I("load", "iter"),
                 Plain("idiv"), I("store", "cond"),
                 I("load", "cond"), I("load", "iter"), Plain("irem"), I("push", 0),
                 Plain("ieq"), I("branch_t", "start"), I("inc_cond", 1),
                 I("label", "start"), I("load", "cond"), I("push", 0), Plain("igt"),
                 I("branch_f", "end")>>
             rest ==
               <<I("inc_cond", -1), I("load", "i"), I("load", "iter"), Plain("iadd"),
                 I("store", "i"), I("jump", "start"), I("label", "end")>>
  <1>1. Code(l) = Start(l) \o first \o Body(l) \o rest
    BY DEF Tested, Code, CountedCode
  <1>2. CASE DropsBlock(l)
    BY <1>1, <1>2 DEF Kept, Step, Tested, Start, Body
  <1>3. CASE ~DropsBlock(l)
    BY <1>1, <1>3 DEF Kept, Step, Tested, Start, Body
  <1> QED
    BY <1>2, <1>3

-----------------------------------------------------------------------------
(* The machine                                                             *)

Push(s, v) == Append(s, v)

LEMMA Instruction ==
    ASSUME Next, NEW op, NEW arg, pc \in 1..Len(Code(loop)), Code(loop)[pc] = I(op, arg)
    PROVE  /\ loop' = loop
           /\ op = "push" => /\ pc' = pc + 1 /\ ran' = ran /\ env' = env
                             /\ stack' = Push(stack, arg)
           /\ op = "load" => /\ pc' = pc + 1 /\ ran' = ran /\ env' = env
                             /\ stack' = Push(stack, env[arg])
           /\ op = "store" => /\ pc' = pc + 1 /\ ran' = ran
                              /\ env' = [env EXCEPT ![arg] = Top] /\ stack' = Drop(1)
           /\ op \in {"ilt", "igt", "ieq", "isub", "iadd", "idiv", "irem"} =>
                 /\ pc' = pc + 1 /\ ran' = ran /\ env' = env
                 /\ stack' = Push(Drop(2), Apply(op, Second, Top))
           /\ op = "inc" => /\ pc' = pc + 1 /\ ran' = ran /\ stack' = stack
                            /\ env' = [env EXCEPT !["i"] = @ + arg]
           /\ op = "inc_cond" => /\ pc' = pc + 1 /\ ran' = ran /\ stack' = stack
                                 /\ env' = [env EXCEPT !["cond"] = @ + arg]
           /\ op = "branch_f" => /\ pc' = IF Top = 1 THEN pc + 1 ELSE Target
                                 /\ ran' = ran /\ env' = env /\ stack' = Drop(1)
           /\ op = "branch_t" => /\ pc' = IF Top = 1 THEN Target ELSE pc + 1
                                 /\ ran' = ran /\ env' = env /\ stack' = Drop(1)
           /\ op = "label" => /\ pc' = pc + 1 /\ ran' = ran /\ env' = env /\ stack' = stack
           /\ op = "jump" => /\ pc' = Target /\ ran' = ran /\ env' = env /\ stack' = stack
           /\ op = "body" => /\ pc' = pc + 1 /\ ran' = Push(ran, env.i)
                             /\ env' = env /\ stack' = stack
  <1>1. ~Halted
    BY DEF Halted
  <1>2. Code(loop)[pc].op = op /\ Arg = arg
    BY DEF I, Arg
  <1>3. \A ops : At(ops) <=> op \in ops
    BY <1>1, <1>2 DEF At
  <1>4. CASE Load
    BY <1>2, <1>3, <1>4 DEF Load, Push
  <1>5. CASE Store
    BY <1>2, <1>3, <1>5 DEF Store
  <1>6. CASE Operate
    BY <1>2, <1>3, <1>6 DEF Operate, Push
  <1>7. CASE Increment
    BY <1>2, <1>3, <1>7 DEF Increment
  <1>8. CASE Branch
    <2>1. op \in {"branch_f", "branch_t"}
      BY <1>3, <1>8 DEF Branch
    <2>2. CASE op = "branch_t"
      <3>1. At({"branch_t"}) = TRUE
        BY <1>1, <1>2, <2>2 DEF At
      <3> QED
        BY <2>2, <3>1, <1>8 DEF Branch
    <2>3. CASE op = "branch_f"
      <3>1. At({"branch_t"}) = FALSE
        BY <1>1, <1>2, <2>3 DEF At
      <3> QED
        BY <2>3, <3>1, <1>8 DEF Branch
    <2> QED
      BY <2>1, <2>2, <2>3
  <1>9. CASE Jump
    BY <1>2, <1>3, <1>9 DEF Jump
  <1>10. CASE RunBody
    BY <1>2, <1>3, <1>10 DEF RunBody, Push
  <1>11. CASE Terminated
    BY <1>1, <1>11 DEF Terminated
  <1> QED
    BY <1>4, <1>5, <1>6, <1>7, <1>8, <1>9, <1>10, <1>11 DEF Next

LEMMA Pushed ==
    ASSUME NEW s \in Seq(Int), NEW v \in Int
    PROVE  /\ Push(s, v) \in Seq(Int) /\ Len(Push(s, v)) = Len(s) + 1
           /\ \A k \in 1..Len(s) + 1 : Push(s, v)[k] = IF k = Len(s) + 1 THEN v ELSE s[k]
  BY DEF Push

\* What a push leaves
LEMMA PushTop ==
    ASSUME NEW s \in Seq(Int), NEW v \in Int, stack' = Push(s, v)
    PROVE  /\ stack' \in Seq(Int) /\ Len(stack') = Len(s) + 1 /\ Top' = v
           /\ Len(s) >= 1 => Second' = s[Len(s)]
  <1>1. Len(s) \in Nat
    OBVIOUS
  <1>2. stack' \in Seq(Int) /\ Len(stack') = Len(s) + 1
    BY Pushed
  <1>3. Push(s, v)[Len(s) + 1] = v
    BY <1>1 DEF Push
  <1>4. ASSUME Len(s) >= 1
        PROVE  Push(s, v)[Len(s)] = s[Len(s)]
    BY <1>1, <1>4 DEF Push
  <1>5. Len(stack') - 1 = Len(s)
    BY <1>1, <1>2
  <1> QED
    BY <1>2, <1>3, <1>4, <1>5 DEF Top, Second

LEMMA Steps ==
    ASSUME NEW l \in Loop
    PROVE  /\ Nth(l, 0) = l.start
           /\ \A k \in Int : Nth(l, k) \in Int /\ Nth(l, k + 1) = Nth(l, k) + l.step
  <1>1. l.start \in Int /\ l.step \in Int
    BY DEF Loop
  <1>2. 0 * l.step = 0
    BY <1>1
  <1>3. ASSUME NEW k \in Int
        PROVE  Nth(l, k) \in Int /\ Nth(l, k + 1) = Nth(l, k) + l.step
    <2>1. PICK d \in Int : d = l.step
      BY <1>1
    <2>2. k * d \in Int /\ (k + 1) * d = k * d + d
      OBVIOUS
    <2> QED
      BY <1>1, <2>1, <2>2 DEF Nth
  <1> QED
    BY <1>1, <1>2, <1>3 DEF Nth

LEMMA Popped ==
    ASSUME stack \in Seq(Int), NEW n \in {1, 2}, Len(stack) >= n
    PROVE  /\ Drop(n) \in Seq(Int) /\ Len(Drop(n)) = Len(stack) - n
           /\ Top \in Int
           /\ n = 2 => Second \in Int
  BY DEF Drop, Top, Second

LEMMA DoPush ==
    ASSUME Next, NEW v, pc \in 1..Len(Code(loop)), Code(loop)[pc] = I("push", v)
    PROVE  loop' = loop /\ pc' = pc + 1 /\ ran' = ran /\ env' = env /\ stack' = Push(stack, v)
  BY Instruction

LEMMA DoLoad ==
    ASSUME Next, NEW v, pc \in 1..Len(Code(loop)), Code(loop)[pc] = I("load", v)
    PROVE  loop' = loop /\ pc' = pc + 1 /\ ran' = ran /\ env' = env /\ stack' = Push(stack, env[v])
  BY Instruction

LEMMA DoStore ==
    ASSUME Next, NEW v, pc \in 1..Len(Code(loop)), Code(loop)[pc] = I("store", v)
    PROVE  /\ loop' = loop /\ pc' = pc + 1 /\ ran' = ran /\ stack' = Drop(1)
           /\ env' = [env EXCEPT ![v] = Top]
  BY Instruction

LEMMA DoOperate ==
    ASSUME Next, NEW op \in {"ilt", "igt", "ieq", "isub", "iadd", "idiv", "irem"},
           pc \in 1..Len(Code(loop)), Code(loop)[pc] = Plain(op)
    PROVE  /\ loop' = loop /\ pc' = pc + 1 /\ ran' = ran /\ env' = env
           /\ stack' = Push(Drop(2), Apply(op, Second, Top))
  BY Instruction DEF Plain

LEMMA DoInc ==
    ASSUME Next, NEW v, pc \in 1..Len(Code(loop)), Code(loop)[pc] = I("inc", v)
    PROVE  /\ loop' = loop /\ pc' = pc + 1 /\ ran' = ran /\ stack' = stack
           /\ env' = [env EXCEPT !["i"] = @ + v]
  BY Instruction

LEMMA DoIncCond ==
    ASSUME Next, NEW v, pc \in 1..Len(Code(loop)), Code(loop)[pc] = I("inc_cond", v)
    PROVE  /\ loop' = loop /\ pc' = pc + 1 /\ ran' = ran /\ stack' = stack
           /\ env' = [env EXCEPT !["cond"] = @ + v]
  BY Instruction

LEMMA DoLabel ==
    ASSUME Next, NEW v, pc \in 1..Len(Code(loop)), Code(loop)[pc] = I("label", v)
    PROVE  UNCHANGED <<loop, ran, env, stack>> /\ pc' = pc + 1
  BY Instruction

LEMMA DoBody ==
    ASSUME Next, NEW v, pc \in 1..Len(Code(loop)), Code(loop)[pc] = I("body", v)
    PROVE  /\ loop' = loop /\ pc' = pc + 1 /\ env' = env /\ stack' = stack
           /\ ran' = Push(ran, env.i)
  BY Instruction

LEMMA Lengths ==
    ASSUME NEW l \in Loop
    PROVE  /\ Kept(l) \in {0, 1} /\ Left(l) \in {0, 1}
           /\ Tested(l) => Step(l) = 8 + Kept(l) + Left(l) /\ Len(Code(l)) = Step(l) + 2
           /\ ~Tested(l) => Step(l) = 21 + Kept(l) /\ Len(Code(l)) = Step(l) + 6
  <1>1. Kept(l) \in {0, 1} /\ Left(l) \in {0, 1}
    BY DEF Kept, Left
  <1>2. CASE Tested(l)
    <2>1. Len(Code(l)) = Step(l) + 2
      BY <1>2, TestedShape
    <2> QED
      BY <1>1, <1>2, <2>1 DEF Step
  <1>3. CASE ~Tested(l)
    <2>1. Len(Code(l)) = Step(l) + 6
      BY <1>3, CountedShape
    <2> QED
      BY <1>1, <1>3, <2>1 DEF Step
  <1> QED
    BY <1>1, <1>2, <1>3

\* Only these instructions are labels, and only this one is the body.
LEMMA Places ==
    ASSUME loop \in Loop, NEW n \in 1..Len(Code(loop))
    PROVE  /\ Code(loop)[n].op = "label" =>
                 n \in IF Tested(loop) THEN {3, Step(loop) + 2} ELSE {16, Step(loop) + 6}
           /\ Code(loop)[n].op = "body" =>
                 Kept(loop) = 1 /\ n = IF Tested(loop) THEN 8 ELSE 21
  <1> DEFINE special == {"label", "body"}
  <1>0. /\ \A op, a : I(op, a).op = op /\ I(op, a).arg = a
        /\ \A op : Plain(op).op = op
        /\ Stop(loop).op \in {"push", "load"} /\ Compare(loop).op \in {"ilt", "igt"}
    BY DEF I, Stop, Compare, Plain
  <1>1. CASE Tested(loop)
    <2>1. \/ n \in {1, 2, 3, 4, 5, 6, 7}
          \/ n \in {Step(loop), Step(loop) + 1, Step(loop) + 2}
          \/ (Kept(loop) = 1 /\ n = 8)
          \/ (Left(loop) = 1 /\ n = 8 + Kept(loop))
      BY <1>1, Lengths
    <2>2. \A k \in {1, 2, 4, 5, 6, 7, Step(loop), Step(loop) + 1} :
             Code(loop)[k].op \notin special
      <3>1. /\ Code(loop)[1] = I("push", loop.start) /\ Code(loop)[2] = I("store", "i")
            /\ Code(loop)[4] = I("load", "i") /\ Code(loop)[5] = Stop(loop)
            /\ Code(loop)[6] = Compare(loop) /\ Code(loop)[7] = I("branch_f", "end")
        BY <1>1, TestedShape, Zenon
      <3>2. /\ Code(loop)[Step(loop)] = I("inc", loop.step)
            /\ Code(loop)[Step(loop) + 1] = I("jump", "start")
        BY <1>1, TestedShape, Zenon
      <3>3. \A k \in {1, 2, 4, 5, 6, 7} : Code(loop)[k].op \notin special
        BY <1>0, <3>1
      <3>4. \A k \in {Step(loop), Step(loop) + 1} : Code(loop)[k].op \notin special
        BY <1>0, <3>2
      <3> QED
        BY <3>3, <3>4
    <2>3. Code(loop)[3].op = "label" /\ Code(loop)[Step(loop) + 2].op = "label"
      BY <1>0, <1>1, TestedShape
    <2>4. Kept(loop) = 1 => Code(loop)[8].op = "body"
      BY <1>0, <1>1, TestedShape
    <2>5. Left(loop) = 1 => Code(loop)[8 + Kept(loop)].op \notin special
      BY <1>0, <1>1, TestedShape
    <2> QED
      BY <1>1, <2>1, <2>2, <2>3, <2>4, <2>5
  <1>2. CASE ~Tested(loop)
    <2> DEFINE c == Code(loop)
    <2>1. /\ c[1] = I("push", loop.start) /\ c[2] = I("store", "i")
          /\ c[3] = I("load", "cond") /\ c[4] = I("load", "i")
          /\ c[5] = Plain("isub") /\ c[6] = I("load", "iter")
          /\ c[7] = Plain("idiv") /\ c[8] = I("store", "cond")
      BY <1>2, CountedShape, Zenon
    <2>2. /\ c[9] = I("load", "cond") /\ c[10] = I("load", "iter")
          /\ c[11] = Plain("irem") /\ c[12] = I("push", 0)
          /\ c[13] = Plain("ieq") /\ c[14] = I("branch_t", "start")
          /\ c[15] = I("inc_cond", 1)
      BY <1>2, CountedShape, Zenon
    <2>3. /\ c[17] = I("load", "cond") /\ c[18] = I("push", 0)
          /\ c[19] = Plain("igt") /\ c[20] = I("branch_f", "end")
      BY <1>2, CountedShape, Zenon
    <2>4. LET t == Step(loop) IN
          /\ c[t] = I("inc_cond", -1)
          /\ c[t + 1] = I("load", "i") /\ c[t + 2] = I("load", "iter")
          /\ c[t + 3] = Plain("iadd") /\ c[t + 4] = I("store", "i")
          /\ c[t + 5] = I("jump", "start")
      BY <1>2, CountedShape, Zenon
    <2>5. /\ c[16] = I("label", "start") /\ c[Step(loop) + 6] = I("label", "end")
          /\ Kept(loop) = 1 => c[21] = I("body", "i")
      BY <1>2, CountedShape, Zenon
    <2>6. Kept(loop) \in {0, 1} /\ Step(loop) = 21 + Kept(loop) /\ Len(c) = Step(loop) + 6
      BY <1>2, Lengths
    <2>7. n \in 1..Len(c)
      OBVIOUS
    <2> HIDE DEF c
    <2>8. ASSUME c[n].op \in special
          PROVE  n \in {16, Step(loop) + 6} \/ (Kept(loop) = 1 /\ n = 21)
      <3>1. n \notin 1..8
        BY <1>0, <2>1, <2>8
      <3>2. n \notin 9..15
        BY <1>0, <2>2, <2>8
      <3>3. n \notin 17..20
        BY <1>0, <2>3, <2>8
      <3>4. \A t \in Int : t = Step(loop) => n \notin {t, t + 1, t + 2, t + 3, t + 4, t + 5}
        <4> TAKE t \in Int
        <4> HAVE t = Step(loop)
        <4>1. c[n] # I("inc_cond", -1) /\ c[n] # I("load", "i") /\ c[n] # I("load", "iter")
          BY <1>0, <2>8
        <4>2. c[n] # Plain("iadd") /\ c[n] # I("store", "i") /\ c[n] # I("jump", "start")
          BY <1>0, <2>8
        <4> QED
          BY <2>4, <4>1, <4>2, Zenon
      <3> QED
        BY <2>6, <2>7, <3>1, <3>2, <3>3, <3>4
    <2>9. c[n].op = "label" => n \in {16, Step(loop) + 6}
      BY <1>0, <2>5, <2>8
    <2>10. c[n].op = "body" => Kept(loop) = 1 /\ n = 21
      BY <1>0, <2>5, <2>8
    <2> QED
      BY <1>2, <2>9, <2>10 DEF c
  <1> QED
    BY <1>1, <1>2

\* A label is found where it is.
LEMMA Targets ==
    ASSUME loop \in Loop, pc \in 1..Len(Code(loop))
    PROVE  /\ Tested(loop) /\ Arg = "start" => Target = 3
           /\ Tested(loop) /\ Arg = "end" => Target = Step(loop) + 2
           /\ ~Tested(loop) /\ Arg = "start" => Target = 16
           /\ ~Tested(loop) /\ Arg = "end" => Target = Step(loop) + 6
  <1>0. \A op, a : I(op, a).op = op /\ I(op, a).arg = a
    BY DEF I
  <1>1. CASE Tested(loop)
    <2>1. Code(loop)[3] = I("label", "start") /\ Code(loop)[Step(loop) + 2] = I("label", "end")
      BY <1>1, TestedShape
    <2>2. Step(loop) \in 8..10 /\ Len(Code(loop)) = Step(loop) + 2
      BY <1>1, Lengths
    <2>3. \A n \in 1..Len(Code(loop)) : Code(loop)[n].op = "label" => n \in {3, Step(loop) + 2}
      BY <1>1, Places
    <2> QED
      BY <1>0, <1>1, <2>1, <2>2, <2>3 DEF Target
  <1>2. CASE ~Tested(loop)
    <2>1. Code(loop)[16] = I("label", "start") /\ Code(loop)[Step(loop) + 6] = I("label", "end")
      BY <1>2, CountedShape, Zenon
    <2>2. Step(loop) \in 21..22 /\ Len(Code(loop)) = Step(loop) + 6
      BY <1>2, Lengths
    <2>3. \A n \in 1..Len(Code(loop)) : Code(loop)[n].op = "label" => n \in {16, Step(loop) + 6}
      BY <1>2, Places
    <2> QED
      BY <1>0, <1>2, <2>1, <2>2, <2>3 DEF Target
  <1> QED
    BY <1>1, <1>2

LEMMA DoJump ==
    ASSUME Next, loop \in Loop, NEW v \in {"start", "end"},
           pc \in 1..Len(Code(loop)), Code(loop)[pc] = I("jump", v)
    PROVE  LET t == IF v = "start" THEN IF Tested(loop) THEN 3 ELSE 16
                    ELSE IF Tested(loop) THEN Step(loop) + 2 ELSE Step(loop) + 6
           IN  UNCHANGED <<loop, ran, env, stack>> /\ pc' = t
  <1>1. Arg = v
    BY DEF Arg, I
  <1>2. Target = IF v = "start" THEN IF Tested(loop) THEN 3 ELSE 16
                 ELSE IF Tested(loop) THEN Step(loop) + 2 ELSE Step(loop) + 6
    BY <1>1, Targets
  <1> QED
    BY <1>2, Instruction

LEMMA DoBranchF ==
    ASSUME Next, loop \in Loop, NEW v \in {"start", "end"},
           pc \in 1..Len(Code(loop)), Code(loop)[pc] = I("branch_f", v)
    PROVE  LET t == IF v = "start" THEN IF Tested(loop) THEN 3 ELSE 16
                    ELSE IF Tested(loop) THEN Step(loop) + 2 ELSE Step(loop) + 6
           IN  /\ loop' = loop /\ ran' = ran /\ env' = env /\ stack' = Drop(1)
               /\ pc' = IF Top = 1 THEN pc + 1 ELSE t
  <1>1. Arg = v
    BY DEF Arg, I
  <1>2. Target = IF v = "start" THEN IF Tested(loop) THEN 3 ELSE 16
                 ELSE IF Tested(loop) THEN Step(loop) + 2 ELSE Step(loop) + 6
    BY <1>1, Targets
  <1> QED
    BY <1>2, Instruction

LEMMA DoBranchT ==
    ASSUME Next, loop \in Loop, NEW v \in {"start", "end"},
           pc \in 1..Len(Code(loop)), Code(loop)[pc] = I("branch_t", v)
    PROVE  LET t == IF v = "start" THEN IF Tested(loop) THEN 3 ELSE 16
                    ELSE IF Tested(loop) THEN Step(loop) + 2 ELSE Step(loop) + 6
           IN  /\ loop' = loop /\ ran' = ran /\ env' = env /\ stack' = Drop(1)
               /\ pc' = IF Top = 1 THEN t ELSE pc + 1
  <1>1. Arg = v
    BY DEF Arg, I
  <1>2. Target = IF v = "start" THEN IF Tested(loop) THEN 3 ELSE 16
                 ELSE IF Tested(loop) THEN Step(loop) + 2 ELSE Step(loop) + 6
    BY <1>1, Targets
  <1> QED
    BY <1>2, Instruction


LEMMA HeightKept ==
    ASSUME Height, UNCHANGED <<loop, ran>>, pc # 9, pc' # 9,
           Len(stack) \in Int, Len(stack') \in Int, Len(ran) \in Int,
           Operands \in Int, Operands' \in Int,
           Len(stack') - Len(stack) = Operands' - Operands
    PROVE  Height'
  <1>1. \A h, o, h1, o1 \in Int : h1 - h = o1 - o =>
           /\ h >= o => h1 >= o1
           /\ h = o => h1 = o1
           /\ \A n \in Int : h = o + n => h1 = o1 + n
    OBVIOUS
  <1> QED
    BY <1>1 DEF Height

\* A step that changes nothing keeps the invariant.
LEMMA SameLoop ==
    ASSUME LoopInv, UNCHANGED vars
    PROVE  LoopInv'
  <1>1. UNCHANGED <<loop, ran, pc, env, stack>>
    BY DEF vars
  <1>2. UNCHANGED <<Operands, InBlock, Top, Second>>
    BY <1>1 DEF Operands, InBlock, Top, Second
  <1>3. UNCHANGED Passed
    BY <1>1, <1>2 DEF Passed
  <1>4. Types' /\ Height' /\ InSteps' /\ Variables'
    BY <1>1, <1>2, <1>3 DEF LoopInv, Types, Height, InSteps, Variables
  <1>5. Calculation <=> Calculation'
    BY <1>1, <1>2 DEF Calculation
  <1>6. (TestedState <=> TestedState') /\ (CountedState <=> CountedState')
    BY <1>1, <1>2, <1>3 DEF TestedState, CountedState, GoesOn
  <1> QED
    BY <1>1, <1>4, <1>5, <1>6 DEF LoopInv

\* The instructions of tested code keep the invariant.
LEMMA TestedStep ==
    ASSUME LoopInv, Next, Tested(loop),
           NEW b \in 0..1, Kept(loop) = b, NEW x \in 0..1, Left(loop) = x
    PROVE  LoopInv'
  <1>a. /\ loop \in Loops /\ loop \in Loop
        /\ loop.start \in Int /\ loop.stop \in Int /\ loop.step \in Int
    BY LoopAssumption DEF LoopInv, Types, Loop
  <1>b. /\ stack \in Seq(Int) /\ ran \in Seq(Int) /\ env \in [i : Int, cond : Int, iter : Int]
    BY DEF LoopInv, Types
  <1>c. Step(loop) = 8 + b + x
    BY <1>a DEF Step
  <1>d. Len(Code(loop)) = 10 + b + x
    BY <1>a, <1>c, Lengths
  <1>e. pc \in 1..11 + b + x
    BY <1>d DEF LoopInv, Types
  <1>f. Height /\ InSteps /\ Variables /\ (Kept(loop) = 1 \/ Good(loop) => TestedState)
    BY DEF LoopInv
  <1>g. Passed \in Int /\ Len(ran) \in Nat /\ Len(stack) \in Nat
    BY <1>b DEF Passed
  <1>1. CASE pc = 1
    <2>0. pc \in 1..Len(Code(loop))
      BY <1>d, <1>e, <1>1
    <2>1. Code(loop)[pc] = I("push", loop.start)
      BY <1>a, <1>1, TestedShape, Zenon
    <2>2. loop' = loop /\ pc' = 2 /\ env' = env /\ ran' = ran /\ stack' = Push(stack, loop.start)
      BY <2>0, <2>1, <1>1, DoPush
    <2>3. Operands = 0 /\ Operands' = 1 /\ ~InBlock /\ ~InBlock'
      BY <1>c, <1>1, <2>2 DEF Operands, InBlock
    <2>4. /\ stack' \in Seq(Int) /\ Len(stack') = Len(stack) + 1 /\ Top' = loop.start
          /\ Passed' = Passed /\ GoesOn' = GoesOn
      <3>1. stack' \in Seq(Int) /\ Len(stack') = Len(stack) + 1 /\ Top' = loop.start
        BY <1>a, <1>b, <2>2, PushTop
      <3>2. Passed' = Passed /\ GoesOn' = GoesOn
        BY <2>2, <2>3 DEF Passed, GoesOn
      <3> QED
        BY <3>1, <3>2
    <2>5. Types'
      <3>1. pc' \in 1..11 + b + x
        BY <1>c, <1>1, <2>2
      <3> QED
        BY <1>a, <1>b, <1>d, <2>2, <2>4, <3>1 DEF Types
    <2>6. Height'
      BY <1>b, <1>f, <1>g, <1>1, <2>2, <2>3, <2>4 DEF Height
    <2>7. InSteps'
      BY <1>b, <1>f, <1>1, <2>2, <2>3, <2>4 DEF InSteps
    <2>8. Variables'
      BY <1>a, <1>b, <1>f, <1>1, <2>2, <2>3, <2>4 DEF Variables
    <2>9. Kept(loop) = 1 \/ Good(loop) => TestedState'
      BY <1>b, <1>c, <1>f, <1>1, <2>2, <2>3, <2>4 DEF TestedState
    <2> QED
      BY <2>2, <2>5, <2>6, <2>7, <2>8, <2>9 DEF LoopInv
  <1>2. CASE pc = 2
    <2>0. pc \in 1..Len(Code(loop))
      BY <1>d, <1>e, <1>2
    <2>1. Code(loop)[pc] = I("store", "i")
      BY <1>a, <1>2, TestedShape, Zenon
    <2>2. loop' = loop /\ pc' = 3 /\ ran' = ran /\ stack' = Drop(1)
          /\ env' = [env EXCEPT !["i"] = Top]
      BY <2>0, <2>1, <1>2, DoStore
    <2>3. Operands = 1 /\ Operands' = 0 /\ ~InBlock /\ ~InBlock'
      BY <1>c, <1>2, <2>2 DEF Operands, InBlock
    <2>4. /\ stack' \in Seq(Int) /\ Len(stack') = Len(stack) - 1 /\ Top \in Int
          /\ Top = loop.start /\ Len(ran) = 0 /\ Passed' = 0 /\ Nth(loop, 0) = loop.start
          /\ env' \in [i : Int, cond : Int, iter : Int] /\ env'.i = Top
          /\ env'.cond = env.cond /\ env'.iter = env.iter
      <3>1. Len(stack) >= 1 /\ Len(ran) = 0 /\ Top = loop.start
        BY <1>2, <1>f, <2>3 DEF Height, InSteps, Variables
      <3>2. stack' \in Seq(Int) /\ Len(stack') = Len(stack) - 1 /\ Top \in Int
        BY <1>b, <2>2, <3>1, Popped
      <3>3. Passed' = 0
        BY <2>2, <2>3, <3>1 DEF Passed
      <3>4. /\ env' \in [i : Int, cond : Int, iter : Int] /\ env'.i = Top
            /\ env'.cond = env.cond /\ env'.iter = env.iter
        BY <1>b, <2>2, <3>2
      <3> QED
        BY <1>a, <3>1, <3>2, <3>3, <3>4, Steps
    <2>5. Types'
      <3>1. pc' \in 1..11 + b + x
        BY <1>c, <1>2, <2>2
      <3> QED
        BY <1>a, <1>b, <1>d, <2>2, <2>4, <3>1 DEF Types
    <2>6. Height'
      <3>1. Len(stack') - Len(stack) = Operands' - Operands /\ Len(stack') \in Int
        BY <1>g, <2>3, <2>4
      <3>2. pc # 9 /\ pc' # 9
        BY <1>c, <1>2, <2>2
      <3> QED
        BY <1>f, <1>g, <2>2, <2>3, <3>1, <3>2, HeightKept
    <2>7. InSteps'
      BY <1>b, <1>f, <1>2, <2>2, <2>3, <2>4 DEF InSteps
    <2>8. Variables'
      BY <1>a, <1>b, <1>f, <1>2, <2>2, <2>3, <2>4 DEF Variables
    <2>9. Kept(loop) = 1 \/ Good(loop) => TestedState'
      BY <1>b, <1>c, <1>f, <1>2, <2>2, <2>3, <2>4 DEF TestedState
    <2> QED
      BY <2>2, <2>5, <2>6, <2>7, <2>8, <2>9 DEF LoopInv
  <1>3. CASE pc = 3
    <2>0. pc \in 1..Len(Code(loop))
      BY <1>d, <1>e, <1>3
    <2>1. Code(loop)[pc] = I("label", "start")
      BY <1>a, <1>3, TestedShape, Zenon
    <2>2. loop' = loop /\ pc' = 4 /\ env' = env /\ ran' = ran /\ stack' = stack
      BY <2>0, <2>1, <1>3, DoLabel
    <2>3. Operands = 0 /\ Operands' = 0 /\ ~InBlock /\ ~InBlock'
      BY <1>c, <1>3, <2>2 DEF Operands, InBlock
    <2>4. Passed' = Passed /\ GoesOn' = GoesOn
      BY <2>2, <2>3 DEF Passed, GoesOn
    <2>5. Types'
      <3>1. pc' \in 1..11 + b + x
        BY <1>c, <1>3, <2>2
      <3> QED
        BY <1>a, <1>b, <1>d, <2>2, <2>4, <3>1 DEF Types
    <2>6. Height'
      BY <1>b, <1>f, <1>g, <1>3, <2>2, <2>3, <2>4 DEF Height
    <2>7. InSteps'
      BY <1>b, <1>f, <1>3, <2>2, <2>3, <2>4 DEF InSteps
    <2>8. Variables'
      BY <1>a, <1>b, <1>f, <1>3, <2>2, <2>3, <2>4 DEF Variables
    <2>9. Kept(loop) = 1 \/ Good(loop) => TestedState'
      BY <1>b, <1>c, <1>f, <1>3, <2>2, <2>3, <2>4 DEF TestedState
    <2> QED
      BY <2>2, <2>5, <2>6, <2>7, <2>8, <2>9 DEF LoopInv
  <1>4. CASE pc = 4
    <2>0. pc \in 1..Len(Code(loop))
      BY <1>d, <1>e, <1>4
    <2>1. Code(loop)[pc] = I("load", "i")
      BY <1>a, <1>4, TestedShape, Zenon
    <2>2. loop' = loop /\ pc' = 5 /\ env' = env /\ ran' = ran /\ stack' = Push(stack, env.i)
      BY <2>0, <2>1, <1>4, DoLoad
    <2>3. Operands = 0 /\ Operands' = 1 /\ ~InBlock /\ ~InBlock'
      BY <1>c, <1>4, <2>2 DEF Operands, InBlock
    <2>4. /\ stack' \in Seq(Int) /\ Len(stack') = Len(stack) + 1 /\ Top' = env.i
          /\ Passed' = Passed /\ GoesOn' = GoesOn
      <3>1. stack' \in Seq(Int) /\ Len(stack') = Len(stack) + 1 /\ Top' = env.i
        BY <1>a, <1>b, <2>2, PushTop
      <3>2. Passed' = Passed /\ GoesOn' = GoesOn
        BY <2>2, <2>3 DEF Passed, GoesOn
      <3> QED
        BY <3>1, <3>2
    <2>5. Types'
      <3>1. pc' \in 1..11 + b + x
        BY <1>c, <1>4, <2>2
      <3> QED
        BY <1>a, <1>b, <1>d, <2>2, <2>4, <3>1 DEF Types
    <2>6. Height'
      BY <1>b, <1>f, <1>g, <1>4, <2>2, <2>3, <2>4 DEF Height
    <2>7. InSteps'
      BY <1>b, <1>f, <1>4, <2>2, <2>3, <2>4 DEF InSteps
    <2>8. Variables'
      BY <1>a, <1>b, <1>f, <1>4, <2>2, <2>3, <2>4 DEF Variables
    <2>9. Kept(loop) = 1 \/ Good(loop) => TestedState'
      BY <1>b, <1>c, <1>f, <1>4, <2>2, <2>3, <2>4 DEF TestedState
    <2> QED
      BY <2>2, <2>5, <2>6, <2>7, <2>8, <2>9 DEF LoopInv
  <1>5. CASE pc = 5
    <2>0. pc \in 1..Len(Code(loop))
      BY <1>d, <1>e, <1>5
    <2>1. Code(loop)[pc] = Stop(loop)
      BY <1>a, <1>5, TestedShape, Zenon
    <2>2. loop' = loop /\ pc' = 6 /\ env' = env /\ ran' = ran /\ stack' = Push(stack, loop.stop)
      <3>1. CASE loop.stopForm = "number"
        <4>1. Code(loop)[pc] = I("push", loop.stop)
          BY <2>1, <3>1 DEF Stop
        <4> QED
          BY <1>5, <2>0, <4>1, DoPush
      <3>2. CASE loop.stopForm # "number"
        <4>1. Code(loop)[pc] = I("load", "cond") /\ env["cond"] = loop.stop
          BY <1>f, <2>1, <3>2 DEF Stop, Variables
        <4> QED
          BY <1>5, <2>0, <4>1, DoLoad
      <3> QED
        BY <3>1, <3>2
    <2>3. Operands = 1 /\ Operands' = 2 /\ ~InBlock /\ ~InBlock'
      BY <1>c, <1>5, <2>2 DEF Operands, InBlock
    <2>4. /\ stack' \in Seq(Int) /\ Len(stack') = Len(stack) + 1 /\ Top' = loop.stop
          /\ Second' = Top /\ Passed' = Passed /\ GoesOn' = GoesOn
      <3>0. Len(stack) \in Nat /\ Len(stack) > 0
        BY <1>b, <1>f, <2>3 DEF Height
      <3>1. stack' \in Seq(Int) /\ Len(stack') = Len(stack) + 1 /\ Top' = loop.stop
        BY <1>a, <1>b, <2>2, PushTop
      <3>2. Passed' = Passed /\ GoesOn' = GoesOn
        BY <2>2, <2>3 DEF Passed, GoesOn
      <3>3. Second' = Top
        BY <1>a, <1>b, <2>2, <3>0, PushTop DEF Top
      <3> QED
        BY <3>1, <3>2, <3>3
    <2>5. Types'
      <3>1. pc' \in 1..11 + b + x
        BY <1>c, <1>5, <2>2
      <3> QED
        BY <1>a, <1>b, <1>d, <2>2, <2>4, <3>1 DEF Types
    <2>6. Height'
      <3>1. Len(stack') - Len(stack) = Operands' - Operands /\ Len(stack') \in Int
        BY <1>g, <2>3, <2>4
      <3>2. pc # 9 /\ pc' # 9
        BY <1>c, <1>5, <2>2
      <3> QED
        BY <1>f, <1>g, <2>2, <2>3, <3>1, <3>2, HeightKept
    <2>7. InSteps'
      BY <1>b, <1>f, <1>5, <2>2, <2>3, <2>4 DEF InSteps
    <2>8. Variables'
      BY <1>a, <1>b, <1>f, <1>5, <2>2, <2>3, <2>4 DEF Variables
    <2>9. Kept(loop) = 1 \/ Good(loop) => TestedState'
      BY <1>b, <1>c, <1>f, <1>5, <2>2, <2>3, <2>4 DEF TestedState
    <2> QED
      BY <2>2, <2>5, <2>6, <2>7, <2>8, <2>9 DEF LoopInv
  <1>6. CASE pc = 6
    <2>0. pc \in 1..Len(Code(loop))
      BY <1>d, <1>e, <1>6
    <2>1. Code(loop)[pc] = Compare(loop)
      BY <1>a, <1>6, TestedShape, Zenon
    <2>2. loop' = loop /\ pc' = 7 /\ env' = env /\ ran' = ran
          /\ stack' = Push(Drop(2), Truth(IF loop.step > 0 THEN Second < Top ELSE Second > Top))
      <3>1. CASE loop.step > 0
        <4>1. Code(loop)[pc] = Plain("ilt") /\ Apply("ilt", Second, Top) = Truth(Second < Top)
          BY <2>1, <3>1 DEF Compare, Apply
        <4> QED
          BY <1>6, <2>0, <3>1, <4>1, DoOperate
      <3>2. CASE ~(loop.step > 0)
        <4>1. Code(loop)[pc] = Plain("igt") /\ Apply("igt", Second, Top) = Truth(Second > Top)
          BY <2>1, <3>2 DEF Compare, Apply
        <4> QED
          BY <1>6, <2>0, <3>2, <4>1, DoOperate
      <3> QED
        BY <3>1, <3>2
    <2>3. Operands = 2 /\ Operands' = 1 /\ ~InBlock /\ ~InBlock'
      BY <1>c, <1>6, <2>2 DEF Operands, InBlock
    <2>4. /\ stack' \in Seq(Int) /\ Len(stack') = Len(stack) - 1
          /\ Top' = Truth(IF loop.step > 0 THEN Second < Top ELSE Second > Top)
          /\ Passed' = Passed /\ GoesOn' = GoesOn
      <3> DEFINE v == Truth(IF loop.step > 0 THEN Second < Top ELSE Second > Top)
      <3>1. Len(stack) >= 2
        BY <1>f, <2>3 DEF Height
      <3>2. v \in Int
        BY DEF Truth
      <3>3. /\ Drop(2) \in Seq(Int) /\ Len(Drop(2)) = Len(stack) - 2
        BY <1>b, <3>1, Popped
      <3> HIDE DEF v
      <3>4. stack' = Push(Drop(2), v)
        BY <2>2 DEF v
      <3>5. /\ stack' \in Seq(Int) /\ Len(stack') = Len(stack) - 1 /\ Top' = v
        <4>1. stack' \in Seq(Int) /\ Len(stack') = Len(Drop(2)) + 1 /\ Top' = v
          BY <3>2, <3>3, <3>4, PushTop
        <4> QED
          BY <1>g, <3>3, <4>1
      <3>6. Passed' = Passed /\ GoesOn' = GoesOn
        BY <2>2, <2>3 DEF Passed, GoesOn
      <3> QED
        BY <3>5, <3>6 DEF v
    <2>5. Types'
      <3>1. pc' \in 1..11 + b + x
        BY <1>c, <1>6, <2>2
      <3> QED
        BY <1>a, <1>b, <1>d, <2>2, <2>4, <3>1 DEF Types
    <2>6. Height'
      <3>1. Len(stack') - Len(stack) = Operands' - Operands /\ Len(stack') \in Int
        BY <1>g, <2>3, <2>4
      <3>2. pc # 9 /\ pc' # 9
        BY <1>c, <1>6, <2>2
      <3> QED
        BY <1>f, <1>g, <2>2, <2>3, <3>1, <3>2, HeightKept
    <2>7. InSteps'
      BY <1>b, <1>f, <1>6, <2>2, <2>3, <2>4 DEF InSteps
    <2>8. Variables'
      BY <1>a, <1>b, <1>f, <1>6, <2>2, <2>3, <2>4 DEF Variables
    <2>9. Kept(loop) = 1 \/ Good(loop) => TestedState'
      BY <1>b, <1>c, <1>f, <1>6, <2>2, <2>3, <2>4 DEF TestedState, Continues
    <2> QED
      BY <2>2, <2>5, <2>6, <2>7, <2>8, <2>9 DEF LoopInv
  <1>7. CASE pc = 7
    <2>0. pc \in 1..Len(Code(loop))
      BY <1>d, <1>e, <1>7
    <2>1. Code(loop)[pc] = I("branch_f", "end")
      BY <1>a, <1>7, TestedShape, Zenon
    <2>2. loop' = loop /\ ran' = ran /\ env' = env /\ stack' = Drop(1)
          /\ pc' = IF Top = 1 THEN 8 ELSE Step(loop) + 2
      BY <2>0, <2>1, <1>7, <1>a, DoBranchF
    <2>3. Operands = 1 /\ Operands' = 0 /\ ~InBlock /\ ~InBlock'
      BY <1>c, <1>7, <2>2 DEF Operands, InBlock
    <2>4. /\ stack' \in Seq(Int) /\ Len(stack') = Len(stack) - 1
          /\ Passed' = Passed /\ GoesOn' = GoesOn
          /\ Kept(loop) = 1 \/ Good(loop) => (Top = 1 <=> GoesOn)
          /\ Kept(loop) = 0 /\ Good(loop) => ~GoesOn
      <3>1. Len(stack) >= 1
        BY <1>f, <2>3 DEF Height
      <3>2. stack' \in Seq(Int) /\ Len(stack') = Len(stack) - 1
        BY <1>b, <2>2, <3>1, Popped
      <3>3. Passed' = Passed /\ GoesOn' = GoesOn
        BY <2>2, <2>3 DEF Passed, GoesOn
      <3>4. Kept(loop) = 1 \/ Good(loop) => (Top = 1 <=> GoesOn)
        <4>1. Kept(loop) = 1 \/ Good(loop) =>
                 /\ env.i = Nth(loop, Passed)
                 /\ Top = Truth(Continues(loop, env.i))
          BY <1>7, <1>f DEF Variables, TestedState
        <4> QED
          BY <4>1 DEF GoesOn, Truth
      <3>5. ASSUME Kept(loop) = 0, Good(loop)
            PROVE  ~GoesOn
        <4>1. Passed = 0 /\ Nth(loop, 0) = loop.start
          BY <1>a, <1>f, <2>3, <3>5, Steps DEF InSteps, Passed
        <4> QED
          BY <3>5, <4>1 DEF Kept, Good, GoesOn
      <3> QED
        BY <3>2, <3>3, <3>4, <3>5
    <2>5. Types'
      <3>1. pc' \in 1..11 + b + x
        BY <1>c, <1>7, <2>2
      <3> QED
        BY <1>a, <1>b, <1>d, <2>2, <2>4, <3>1 DEF Types
    <2>6. Height'
      <3>1. Len(stack') - Len(stack) = Operands' - Operands /\ Len(stack') \in Int
        BY <1>g, <2>3, <2>4
      <3>2. pc # 9 /\ pc' # 9
        BY <1>c, <1>7, <2>2
      <3> QED
        BY <1>f, <1>g, <2>2, <2>3, <3>1, <3>2, HeightKept
    <2>7. InSteps'
      BY <1>b, <1>f, <1>7, <2>2, <2>3, <2>4, <1>c DEF InSteps
    <2>8. Variables'
      BY <1>a, <1>b, <1>f, <1>7, <2>2, <2>3, <2>4, <1>c DEF Variables
    <2>9. Kept(loop) = 1 \/ Good(loop) => TestedState'
      BY <1>b, <1>c, <1>f, <1>7, <2>2, <2>3, <2>4 DEF TestedState
    <2> QED
      BY <2>2, <2>5, <2>6, <2>7, <2>8, <2>9 DEF LoopInv
  <1>8. CASE b = 1 /\ pc = 8
    <2>0. pc \in 1..Len(Code(loop))
      BY <1>d, <1>e, <1>8
    <2>1. Code(loop)[pc] = I("body", "i")
      BY <1>a, <1>8, TestedShape, Zenon
    <2>2. loop' = loop /\ pc' = 9 /\ env' = env /\ stack' = stack /\ ran' = Push(ran, env.i)
      BY <2>0, <2>1, <1>8, DoBody
    <2>3. Operands = 0 /\ Operands' = 0 /\ ~InBlock /\ InBlock'
      BY <1>c, <1>8, <2>2 DEF Operands, InBlock
    <2>4. /\ ran' \in Seq(Int) /\ Len(ran') = Len(ran) + 1
          /\ Passed' = Passed /\ GoesOn' = GoesOn /\ Passed = Len(ran)
          /\ env.i = Nth(loop, Len(ran))
          /\ \A k \in 1..Len(ran) + 1 :
                ran'[k] = IF k = Len(ran) + 1 THEN env.i ELSE ran[k]
      <3>1. env.i \in Int
        BY <1>b
      <3>2. /\ ran' \in Seq(Int) /\ Len(ran') = Len(ran) + 1
            /\ \A k \in 1..Len(ran) + 1 :
                  ran'[k] = IF k = Len(ran) + 1 THEN env.i ELSE ran[k]
        BY <1>b, <2>2, <3>1, Pushed
      <3>3. Passed' = Passed /\ Passed = Len(ran)
        BY <1>b, <2>3, <3>2 DEF Passed
      <3>4. GoesOn' = GoesOn
        BY <2>2, <3>3 DEF GoesOn
      <3>5. env.i = Nth(loop, Len(ran))
        BY <1>8, <1>f, <3>3 DEF Variables
      <3> QED
        BY <3>2, <3>3, <3>4, <3>5
    <2>5. Types'
      <3>1. pc' \in 1..11 + b + x
        BY <1>c, <1>8, <2>2
      <3> QED
        BY <1>a, <1>b, <1>d, <2>2, <2>4, <3>1 DEF Types
    <2>6. Height'
      BY <1>b, <1>f, <1>g, <1>8, <2>2, <2>3, <2>4 DEF Height
    <2>7. InSteps'
      <3>1. Kept(loop') = 1 /\ pc' = 9
        BY <1>8, <2>2
      <3>2. ASSUME NEW k \in 1..Len(ran')
            PROVE  ran'[k] = Nth(loop', k - 1)
        <4>1. CASE k = Len(ran) + 1
          <5>1. k - 1 = Len(ran) /\ k \in 1..Len(ran) + 1
            BY <1>g, <4>1
          <5> QED
            BY <2>2, <2>4, <4>1, <5>1
        <4>2. CASE k # Len(ran) + 1
          <5>1. k \in 1..Len(ran) /\ k \in 1..Len(ran) + 1
            BY <1>g, <2>4, <4>2
          <5> QED
            BY <1>f, <2>2, <2>4, <4>2, <5>1 DEF InSteps
        <4> QED
          BY <4>1, <4>2
      <3>3. Len(ran') > 0
        BY <1>g, <2>4
      <3> QED
        BY <3>1, <3>2, <3>3 DEF InSteps
    <2>8. Variables'
      BY <1>a, <1>b, <1>f, <1>8, <2>2, <2>3, <2>4 DEF Variables
    <2>9. Kept(loop) = 1 \/ Good(loop) => TestedState'
      BY <1>b, <1>c, <1>f, <1>8, <2>2, <2>3, <2>4 DEF TestedState
    <2> QED
      BY <2>2, <2>5, <2>6, <2>7, <2>8, <2>9 DEF LoopInv
  <1>9. CASE x = 1 /\ pc = 8 + b
    <2>0. pc \in 1..Len(Code(loop))
      BY <1>d, <1>e, <1>9
    <2>1. Code(loop)[pc] = I("push", loop.step)
      BY <1>a, <1>9, TestedShape, Zenon
    <2>2. loop' = loop /\ pc' = 9 + b /\ env' = env /\ ran' = ran /\ stack' = Push(stack, loop.step)
      BY <2>0, <2>1, <1>9, DoPush
    <2>3. Operands = 0 /\ Operands' = 0 /\ (InBlock <=> b = 1) /\ (InBlock' <=> b = 1)
      BY <1>c, <1>9, <2>2 DEF Operands, InBlock
    <2>4. /\ stack' \in Seq(Int) /\ Len(stack') = Len(stack) + 1
          /\ Passed' = Passed /\ GoesOn' = GoesOn
          /\ b = 1 => Passed = Len(ran) - 1
      <3>1. stack' \in Seq(Int) /\ Len(stack') = Len(stack) + 1 /\ Top' = loop.step
        BY <1>a, <1>b, <2>2, PushTop
      <3>2. Passed' = Passed /\ GoesOn' = GoesOn
        BY <2>2, <2>3 DEF Passed, GoesOn
      <3>3. b = 1 => Passed = Len(ran) - 1
        BY <2>3 DEF Passed
      <3> QED
        BY <3>1, <3>2, <3>3
    <2>5. Types'
      <3>1. pc' \in 1..11 + b + x
        BY <1>c, <1>9, <2>2
      <3> QED
        BY <1>a, <1>b, <1>d, <2>2, <2>4, <3>1 DEF Types
    <2>6. Height'
      BY <1>b, <1>f, <1>g, <1>9, <2>2, <2>3, <2>4 DEF Height
    <2>7. InSteps'
      BY <1>b, <1>f, <1>9, <2>2, <2>3, <2>4 DEF InSteps
    <2>8. Variables'
      BY <1>a, <1>b, <1>f, <1>9, <2>2, <2>3, <2>4 DEF Variables
    <2>9. Kept(loop) = 1 \/ Good(loop) => TestedState'
      BY <1>b, <1>c, <1>f, <1>9, <2>2, <2>3, <2>4 DEF TestedState
    <2> QED
      BY <2>2, <2>5, <2>6, <2>7, <2>8, <2>9 DEF LoopInv
  <1>10. CASE pc = Step(loop)
    <2>0. pc \in 1..Len(Code(loop))
      BY <1>d, <1>e, <1>10, <1>c
    <2>1. Code(loop)[pc] = I("inc", loop.step)
      BY <1>a, <1>10, TestedShape, Zenon
    <2>2. loop' = loop /\ pc' = 9 + b + x /\ ran' = ran /\ stack' = stack
          /\ env' = [env EXCEPT !["i"] = @ + loop.step]
      BY <2>0, <2>1, <1>10, <1>c, DoInc
    <2>3. Operands = 0 /\ Operands' = 0 /\ (InBlock <=> b = 1) /\ ~InBlock'
      BY <1>c, <1>10, <2>2 DEF Operands, InBlock
    <2>4. /\ Passed' = Passed + b /\ Nth(loop, Passed + 1) = Nth(loop, Passed) + loop.step
          /\ env' \in [i : Int, cond : Int, iter : Int] /\ env'.i = env.i + loop.step
          /\ env'.cond = env.cond /\ env'.iter = env.iter
          /\ pc' \in 1..Len(Code(loop)) + 1 /\ (Kept(loop) = 1 \/ Good(loop) => b = 1)
      <3>1. Passed' = Passed + b
        BY <1>b, <2>2, <2>3 DEF Passed
      <3>2. /\ env' \in [i : Int, cond : Int, iter : Int] /\ env'.i = env.i + loop.step
            /\ env'.cond = env.cond /\ env'.iter = env.iter
        <4>1. env.i + loop.step \in Int /\ env' = [env EXCEPT !["i"] = env.i + loop.step]
          BY <1>a, <1>b, <2>2
        <4> QED
          BY <1>b, <4>1
      <3>3. pc' \in 1..Len(Code(loop)) + 1 /\ (Kept(loop) = 1 \/ Good(loop) => b = 1)
        BY <1>c, <1>d, <1>f, <1>10, <2>2 DEF TestedState
      <3> QED
        BY <1>a, <1>g, <3>1, <3>2, <3>3, Steps
    <2>5. Types'
      <3>1. pc' \in 1..11 + b + x
        BY <1>c, <1>10, <2>2
      <3> QED
        BY <1>a, <1>b, <1>d, <2>2, <2>4, <3>1 DEF Types
    <2>6. Height'
      BY <1>b, <1>f, <1>g, <1>10, <2>2, <2>3, <2>4, <1>c DEF Height
    <2>7. InSteps'
      BY <1>b, <1>f, <1>10, <2>2, <2>3, <2>4, <1>c DEF InSteps
    <2>8. Variables'
      <3>1. env.iter = loop.step /\ env.cond = loop.stop
        BY <1>f DEF Variables
      <3>2. Kept(loop) = 1 \/ Good(loop) => env.i = Nth(loop, Passed)
        BY <1>c, <1>f, <1>10 DEF Variables
      <3>3. Kept(loop) = 1 \/ Good(loop) => env'.i = Nth(loop, Passed')
        BY <2>4, <3>2
      <3>4. pc' > 2
        BY <2>2
      <3> QED
        BY <2>2, <2>4, <3>1, <3>3, <3>4 DEF Variables
    <2>9. Kept(loop) = 1 \/ Good(loop) => TestedState'
      BY <1>b, <1>c, <1>f, <1>10, <2>2, <2>3, <2>4 DEF TestedState
    <2> QED
      BY <2>2, <2>5, <2>6, <2>7, <2>8, <2>9 DEF LoopInv
  <1>11. CASE pc = Step(loop) + 1
    <2>0. pc \in 1..Len(Code(loop))
      BY <1>d, <1>e, <1>11, <1>c
    <2>1. Code(loop)[pc] = I("jump", "start")
      BY <1>a, <1>11, TestedShape, Zenon
    <2>2. loop' = loop /\ pc' = 3 /\ env' = env /\ ran' = ran /\ stack' = stack
      BY <2>0, <2>1, <1>11, <1>a, DoJump
    <2>3. Operands = 0 /\ Operands' = 0 /\ ~InBlock /\ ~InBlock'
      BY <1>c, <1>11, <2>2 DEF Operands, InBlock
    <2>4. Passed' = Passed /\ GoesOn' = GoesOn
      BY <2>2, <2>3 DEF Passed, GoesOn
    <2>5. Types'
      <3>1. pc' \in 1..11 + b + x
        BY <1>c, <1>11, <2>2
      <3> QED
        BY <1>a, <1>b, <1>d, <2>2, <2>4, <3>1 DEF Types
    <2>6. Height'
      BY <1>b, <1>f, <1>g, <1>11, <2>2, <2>3, <2>4, <1>c DEF Height
    <2>7. InSteps'
      BY <1>b, <1>f, <1>11, <2>2, <2>3, <2>4, <1>c DEF InSteps
    <2>8. Variables'
      BY <1>a, <1>b, <1>f, <1>11, <2>2, <2>3, <2>4, <1>c DEF Variables
    <2>9. Kept(loop) = 1 \/ Good(loop) => TestedState'
      BY <1>b, <1>c, <1>f, <1>11, <2>2, <2>3, <2>4 DEF TestedState
    <2> QED
      BY <2>2, <2>5, <2>6, <2>7, <2>8, <2>9 DEF LoopInv
  <1>12. CASE pc = Step(loop) + 2
    <2>0. pc \in 1..Len(Code(loop))
      BY <1>d, <1>e, <1>12, <1>c
    <2>1. Code(loop)[pc] = I("label", "end")
      BY <1>a, <1>12, TestedShape, Zenon
    <2>2. loop' = loop /\ pc' = 11 + b + x /\ env' = env /\ ran' = ran /\ stack' = stack
      BY <2>0, <2>1, <1>12, <1>c, DoLabel
    <2>3. Operands = 0 /\ Operands' = 0 /\ ~InBlock /\ ~InBlock'
      BY <1>c, <1>12, <2>2 DEF Operands, InBlock
    <2>4. Passed' = Passed /\ GoesOn' = GoesOn
      BY <2>2, <2>3 DEF Passed, GoesOn
    <2>5. Types'
      <3>1. pc' \in 1..11 + b + x
        BY <1>c, <1>12, <2>2
      <3> QED
        BY <1>a, <1>b, <1>d, <2>2, <2>4, <3>1 DEF Types
    <2>6. Height'
      BY <1>b, <1>f, <1>g, <1>12, <2>2, <2>3, <2>4, <1>c DEF Height
    <2>7. InSteps'
      BY <1>b, <1>f, <1>12, <2>2, <2>3, <2>4, <1>c DEF InSteps
    <2>8. Variables'
      BY <1>a, <1>b, <1>f, <1>12, <2>2, <2>3, <2>4, <1>c DEF Variables
    <2>9. Kept(loop) = 1 \/ Good(loop) => TestedState'
      BY <1>b, <1>c, <1>f, <1>12, <2>2, <2>3, <2>4 DEF TestedState
    <2> QED
      BY <2>2, <2>5, <2>6, <2>7, <2>8, <2>9 DEF LoopInv
  <1>13. CASE pc = Step(loop) + 3
    <2>1. Halted
      BY <1>c, <1>d, <1>13 DEF Halted
    <2>2. UNCHANGED vars
      BY <2>1 DEF Next, Load, Store, Operate, Increment, Branch, Jump, RunBody, Terminated, At
    <2> QED
      BY <2>2, SameLoop
  <1>14. \/ pc \in {1, 2, 3, 4, 5, 6, 7} \/ (b = 1 /\ pc = 8) \/ (x = 1 /\ pc = 8 + b)
        \/ pc = Step(loop) \/ pc = Step(loop) + 1 \/ pc = Step(loop) + 2 \/ pc = Step(loop) + 3
    <2>1. b \in {0, 1} /\ x \in {0, 1} /\ pc \in 1..11 + b + x
      BY <1>e
    <2>2. CASE x = 0
      BY <1>c, <2>1, <2>2
    <2>3. CASE x = 1
      BY <1>c, <2>1, <2>3
    <2> QED
      BY <2>1, <2>2, <2>3
  <1> QED
    BY <1>1, <1>2, <1>3, <1>4, <1>5, <1>6, <1>7, <1>8, <1>9, <1>10, <1>11, <1>12, <1>13, <1>14

LEMMA OperateTop ==
    ASSUME stack \in Seq(Int), Len(stack) = 2, NEW v \in Int, stack' = Push(Drop(2), v)
    PROVE  stack' \in Seq(Int) /\ Len(stack') = 1 /\ Top' = v
  <1>1. Drop(2) \in Seq(Int) /\ Len(Drop(2)) = 0
    BY Popped
  <1>2. stack' \in Seq(Int) /\ Len(stack') = Len(Drop(2)) + 1 /\ Top' = v
    BY <1>1, PushTop
  <1>3. \A n \in Nat : n = 0 => n + 1 = 1
    OBVIOUS
  <1>4. Len(Drop(2)) \in Nat
    BY <1>1
  <1>5. Len(stack') = 1
    BY <1>1, <1>2, <1>3, <1>4
  <1> QED
    BY <1>2, <1>5

LEMMA NoneLeft ==
    ASSUME Left(loop) = 0, loop' = loop, Operands' \in Nat, Len(stack') = Operands'
    PROVE  Height'
  BY DEF Height

LEMMA PopOne ==
    ASSUME stack \in Seq(Int), Len(stack) = 1, stack' = Drop(1)
    PROVE  stack' \in Seq(Int) /\ Len(stack') = 0 /\ Top \in Int
  BY Popped

LEMMA Quotients ==
    ASSUME NEW a \in Int, NEW c \in Int \ {0}
    PROVE  Quotient(a, c) \in Int
  <1>1. Abs(a) \in Int /\ Abs(c) \in Int /\ Abs(c) > 0
    BY DEF Abs
  <1>2. \A m, n \in Int : n > 0 =>
           m \div n \in Int /\ 1 * (m \div n) \in Int /\ (-1) * (m \div n) \in Int
    OBVIOUS
  <1> QED
    BY <1>1, <1>2 DEF Quotient

LEMMA Numbers ==
    ASSUME NEW l \in Loop
    PROVE  Difference(l) \in Int /\ Rounded(l) \in Int /\ Rest(l) \in Int /\ Count(l) \in Int
  <1>1. l.step \in Int \ {0} /\ Difference(l) \in Int
    BY DEF Loop, Difference
  <1>2. Rounded(l) \in Int
    BY <1>1, Quotients DEF Rounded
  <1>3. Quotient(Rounded(l), l.step) \in Int
    BY <1>1, <1>2, Quotients
  <1>4. \A x, y \in Int : x * y \in Int
    OBVIOUS
  <1>5. l.step * Quotient(Rounded(l), l.step) \in Int
    BY <1>1, <1>3, <1>4
  <1>6. Rest(l) \in Int
    BY <1>2, <1>5 DEF Rest
  <1> QED
    BY <1>1, <1>2, <1>6 DEF Count

\* The instructions of code for a step that is a variable keep the invariant.
LEMMA CountedStep ==
    ASSUME LoopInv, Next, ~Tested(loop), NEW b \in 0..1, Kept(loop) = b
    PROVE  LoopInv'
  <1>a. /\ loop \in Loops /\ loop \in Loop
        /\ loop.start \in Int /\ loop.stop \in Int /\ loop.step \in Int
    BY LoopAssumption DEF LoopInv, Types, Loop
  <1>b. /\ stack \in Seq(Int) /\ ran \in Seq(Int) /\ env \in [i : Int, cond : Int, iter : Int]
        /\ env.i \in Int /\ env.cond \in Int /\ env.iter \in Int
    BY DEF LoopInv, Types
  <1>c. Step(loop) = 21 + b
    BY <1>a DEF Step
  <1>d. Len(Code(loop)) = 27 + b
    BY <1>a, <1>c, Lengths
  <1>e. pc \in 1..28 + b
    BY <1>d DEF LoopInv, Types
  <1>f. /\ InSteps /\ Variables /\ Calculation
        /\ Kept(loop) = 1 \/ Good(loop) => CountedState
    BY DEF LoopInv
  <1>g. Passed \in Int /\ Len(ran) \in Nat /\ Len(stack) \in Nat
    BY <1>b DEF Passed
  <1>h. Left(loop) = 0 /\ Len(stack) = Operands
    BY DEF Left, Explicit, Tested, LoopInv, Height
  <1>i. /\ Difference(loop) \in Int /\ Rounded(loop) \in Int /\ Rest(loop) \in Int
        /\ Count(loop) \in Int
    BY <1>a, Numbers
  <1>1. CASE pc = 1
    <2>0. pc \in 1..Len(Code(loop))
      BY <1>c, <1>d, <1>e, <1>1
    <2>1. Code(loop)[pc] = I("push", loop.start)
      BY <1>a, <1>1, CountedShape, Zenon
    <2>2. loop' = loop /\ pc' = 2 /\ env' = env /\ ran' = ran
          /\ stack' = Push(stack, loop.start)
      BY <1>a, <1>c, <1>1, <2>0, <2>1, DoPush
    <2>3. Operands = 0 /\ Operands' = 1 /\ ~InBlock /\ ~InBlock'
      BY <1>c, <1>1, <2>2 DEF Operands, InBlock
    <2>4. Len(stack) = 0
      BY <1>h, <2>3
    <2>5. /\ stack' \in Seq(Int) /\ Len(stack') = 1 /\ Top' = loop.start
          /\ Passed' = Passed
      <3>1. /\ stack' \in Seq(Int) /\ Len(stack') = Len(stack) + 1 /\ Top' = loop.start
            /\ Len(stack) >= 1 => Second' = stack[Len(stack)]
        BY <1>a, <1>b, <2>2, PushTop
      <3>2. Passed' = Passed
        BY <2>2, <2>3 DEF Passed
      <3> QED
        BY <2>4, <3>1, <3>2 DEF Top
    <2>6. Types'
      <3>1. pc' \in 1..28 + b
        BY <1>c, <2>2
      <3> QED
        BY <1>a, <1>b, <1>d, <2>2, <2>5, <3>1 DEF Types
    <2>7. Height'
      <3>1. Operands' \in Nat /\ Len(stack') = Operands'
        BY <2>2, <2>3, <2>4, <2>5
      <3> QED
        BY <1>h, <2>2, <3>1, NoneLeft
    <2>8. InSteps'
      BY <1>b, <1>c, <1>f, <1>g, <1>1, <2>2, <2>3, <2>5 DEF InSteps
    <2>9. Variables'
      BY <1>a, <1>b, <1>c, <1>f, <1>1, <2>2, <2>3, <2>5 DEF Variables
    <2>10. Calculation'
      BY <1>b, <1>c, <1>f, <1>1, <2>2, <2>5 DEF Calculation, Variables
    <2>11. Kept(loop) = 1 \/ Good(loop) => CountedState'
      BY <1>b, <1>c, <1>f, <1>g, <1>1, <2>2, <2>3, <2>5 DEF CountedState
    <2> QED
      BY <2>2, <2>6, <2>7, <2>8, <2>9, <2>10, <2>11 DEF LoopInv
  <1>2. CASE pc = 2
    <2>0. pc \in 1..Len(Code(loop))
      BY <1>c, <1>d, <1>e, <1>2
    <2>1. Code(loop)[pc] = I("store", "i")
      BY <1>a, <1>2, CountedShape, Zenon
    <2>2. loop' = loop /\ pc' = 3 /\ ran' = ran /\ stack' = Drop(1)
          /\ env' = [env EXCEPT !["i"] = Top]
      BY <1>a, <1>c, <1>2, <2>0, <2>1, DoStore
    <2>3. Operands = 1 /\ Operands' = 0 /\ ~InBlock /\ ~InBlock'
      BY <1>c, <1>2, <2>2 DEF Operands, InBlock
    <2>4. Len(stack) = 1
      BY <1>h, <2>3
    <2>5. /\ stack' \in Seq(Int) /\ Len(stack') = 0 /\ Top \in Int
          /\ env' \in [i : Int, cond : Int, iter : Int] /\ env'.i = Top
          /\ env'.cond = env.cond /\ env'.iter = env.iter
          /\ Passed' = 0 /\ Nth(loop, 0) = loop.start /\ Top = loop.start /\ ran = <<>>
      <3>1. stack' \in Seq(Int) /\ Len(stack') = 0 /\ Top \in Int
        BY <1>b, <2>2, <2>4, PopOne
      <3>2. /\ env' \in [i : Int, cond : Int, iter : Int] /\ env'.i = Top
            /\ env'.cond = env.cond /\ env'.iter = env.iter
        BY <1>b, <2>2, <3>1
      <3>3. Passed' = 0 /\ Nth(loop, 0) = loop.start /\ Top = loop.start /\ ran = <<>>
        <4>1. ran = <<>> /\ Top = loop.start
          BY <1>2, <1>f DEF InSteps, Variables
        <4>2. Passed' = 0
          BY <2>2, <2>3, <4>1 DEF Passed
        <4> QED
          BY <1>a, <4>1, <4>2, Steps
      <3> QED
        BY <3>1, <3>2, <3>3
    <2>6. Types'
      <3>1. pc' \in 1..28 + b
        BY <1>c, <2>2
      <3> QED
        BY <1>a, <1>b, <1>d, <2>2, <2>5, <3>1 DEF Types
    <2>7. Height'
      <3>1. Operands' \in Nat /\ Len(stack') = Operands'
        BY <2>2, <2>3, <2>4, <2>5
      <3> QED
        BY <1>h, <2>2, <3>1, NoneLeft
    <2>8. InSteps'
      BY <1>b, <1>c, <1>f, <1>g, <1>2, <2>2, <2>3, <2>5 DEF InSteps
    <2>9. Variables'
      BY <1>a, <1>b, <1>c, <1>f, <1>2, <2>2, <2>3, <2>5 DEF Variables
    <2>10. Calculation'
      BY <1>b, <1>c, <1>f, <1>2, <2>2, <2>5 DEF Calculation
    <2>11. Kept(loop) = 1 \/ Good(loop) => CountedState'
      BY <1>b, <1>c, <1>f, <1>g, <1>2, <2>2, <2>3, <2>5 DEF CountedState
    <2> QED
      BY <2>2, <2>6, <2>7, <2>8, <2>9, <2>10, <2>11 DEF LoopInv
  <1>3. CASE pc = 3
    <2>0. pc \in 1..Len(Code(loop))
      BY <1>c, <1>d, <1>e, <1>3
    <2>1. Code(loop)[pc] = I("load", "cond")
      BY <1>a, <1>3, CountedShape, Zenon
    <2>2. loop' = loop /\ pc' = 4 /\ env' = env /\ ran' = ran
          /\ stack' = Push(stack, env.cond)
      BY <1>a, <1>c, <1>3, <2>0, <2>1, DoLoad
    <2>3. Operands = 0 /\ Operands' = 1 /\ ~InBlock /\ ~InBlock'
      BY <1>c, <1>3, <2>2 DEF Operands, InBlock
    <2>4. Len(stack) = 0
      BY <1>h, <2>3
    <2>5. /\ stack' \in Seq(Int) /\ Len(stack') = 1 /\ Top' = env.cond
          /\ Passed' = Passed
      <3>1. /\ stack' \in Seq(Int) /\ Len(stack') = Len(stack) + 1 /\ Top' = env.cond
            /\ Len(stack) >= 1 => Second' = stack[Len(stack)]
        BY <1>a, <1>b, <2>2, PushTop
      <3>2. Passed' = Passed
        BY <2>2, <2>3 DEF Passed
      <3> QED
        BY <2>4, <3>1, <3>2 DEF Top
    <2>6. Types'
      <3>1. pc' \in 1..28 + b
        BY <1>c, <2>2
      <3> QED
        BY <1>a, <1>b, <1>d, <2>2, <2>5, <3>1 DEF Types
    <2>7. Height'
      <3>1. Operands' \in Nat /\ Len(stack') = Operands'
        BY <2>2, <2>3, <2>4, <2>5
      <3> QED
        BY <1>h, <2>2, <3>1, NoneLeft
    <2>8. InSteps'
      BY <1>b, <1>c, <1>f, <1>g, <1>3, <2>2, <2>3, <2>5 DEF InSteps
    <2>9. Variables'
      BY <1>a, <1>b, <1>c, <1>f, <1>3, <2>2, <2>3, <2>5 DEF Variables
    <2>10. Calculation'
      BY <1>b, <1>c, <1>f, <1>3, <2>2, <2>5 DEF Calculation, Variables
    <2>11. Kept(loop) = 1 \/ Good(loop) => CountedState'
      BY <1>b, <1>c, <1>f, <1>g, <1>3, <2>2, <2>3, <2>5 DEF CountedState
    <2> QED
      BY <2>2, <2>6, <2>7, <2>8, <2>9, <2>10, <2>11 DEF LoopInv
  <1>4. CASE pc = 4
    <2>0. pc \in 1..Len(Code(loop))
      BY <1>c, <1>d, <1>e, <1>4
    <2>1. Code(loop)[pc] = I("load", "i")
      BY <1>a, <1>4, CountedShape, Zenon
    <2>2. loop' = loop /\ pc' = 5 /\ env' = env /\ ran' = ran
          /\ stack' = Push(stack, env.i)
      BY <1>a, <1>c, <1>4, <2>0, <2>1, DoLoad
    <2>3. Operands = 1 /\ Operands' = 2 /\ ~InBlock /\ ~InBlock'
      BY <1>c, <1>4, <2>2 DEF Operands, InBlock
    <2>4. Len(stack) = 1
      BY <1>h, <2>3
    <2>5. /\ stack' \in Seq(Int) /\ Len(stack') = 2 /\ Top' = env.i /\ Second' = Top
          /\ Passed' = Passed
      <3>1. /\ stack' \in Seq(Int) /\ Len(stack') = Len(stack) + 1 /\ Top' = env.i
            /\ Len(stack) >= 1 => Second' = stack[Len(stack)]
        BY <1>a, <1>b, <2>2, PushTop
      <3>2. Passed' = Passed
        BY <2>2, <2>3 DEF Passed
      <3> QED
        BY <2>4, <3>1, <3>2 DEF Top
    <2>6. Types'
      <3>1. pc' \in 1..28 + b
        BY <1>c, <2>2
      <3> QED
        BY <1>a, <1>b, <1>d, <2>2, <2>5, <3>1 DEF Types
    <2>7. Height'
      <3>1. Operands' \in Nat /\ Len(stack') = Operands'
        BY <2>2, <2>3, <2>4, <2>5
      <3> QED
        BY <1>h, <2>2, <3>1, NoneLeft
    <2>8. InSteps'
      BY <1>b, <1>c, <1>f, <1>g, <1>4, <2>2, <2>3, <2>5 DEF InSteps
    <2>9. Variables'
      BY <1>a, <1>b, <1>c, <1>f, <1>4, <2>2, <2>3, <2>5 DEF Variables
    <2>10. Calculation'
      BY <1>b, <1>c, <1>f, <1>4, <2>2, <2>5 DEF Calculation, Variables
    <2>11. Kept(loop) = 1 \/ Good(loop) => CountedState'
      BY <1>b, <1>c, <1>f, <1>g, <1>4, <2>2, <2>3, <2>5 DEF CountedState
    <2> QED
      BY <2>2, <2>6, <2>7, <2>8, <2>9, <2>10, <2>11 DEF LoopInv
  <1>5. CASE pc = 5
    <2>0. pc \in 1..Len(Code(loop))
      BY <1>c, <1>d, <1>e, <1>5
    <2>1. Code(loop)[pc] = Plain("isub")
      BY <1>a, <1>5, CountedShape, Zenon
    <2>2. loop' = loop /\ pc' = 6 /\ env' = env /\ ran' = ran
          /\ stack' = Push(Drop(2), Apply("isub", Second, Top))
      BY <1>a, <1>c, <1>5, <2>0, <2>1, DoOperate
    <2>3. Operands = 2 /\ Operands' = 1 /\ ~InBlock /\ ~InBlock'
      BY <1>c, <1>5, <2>2 DEF Operands, InBlock
    <2>4. Len(stack) = 2
      BY <1>h, <2>3
    <2>5. stack' \in Seq(Int) /\ Len(stack') = 1 /\ Top' = Difference(loop) /\ Passed' = Passed
      <3>1. Apply("isub", Second, Top) = Difference(loop) /\ Difference(loop) \in Int
        <4>1. Second = loop.stop /\ Top = loop.start
          BY <1>a, <1>b, <1>c, <1>f, <1>5 DEF Calculation, Variables
        <4> QED
          BY <1>a, <1>b, <1>i, <4>1 DEF Apply, Difference, Rounded, Rest, Truth
      <3>2. stack' = Push(Drop(2), Difference(loop))
        BY <2>2, <3>1
      <3>3. stack' \in Seq(Int) /\ Len(stack') = 1 /\ Top' = Difference(loop)
        BY <1>b, <2>4, <3>1, <3>2, OperateTop
      <3>4. Passed' = Passed
        BY <2>2, <2>3 DEF Passed
      <3> QED
        BY <3>3, <3>4
    <2>6. Types'
      <3>1. pc' \in 1..28 + b
        BY <1>c, <2>2
      <3> QED
        BY <1>a, <1>b, <1>d, <2>2, <2>5, <3>1 DEF Types
    <2>7. Height'
      <3>1. Operands' \in Nat /\ Len(stack') = Operands'
        BY <2>2, <2>3, <2>4, <2>5
      <3> QED
        BY <1>h, <2>2, <3>1, NoneLeft
    <2>8. InSteps'
      BY <1>b, <1>c, <1>f, <1>g, <1>5, <2>2, <2>3, <2>5 DEF InSteps
    <2>9. Variables'
      BY <1>a, <1>b, <1>c, <1>f, <1>5, <2>2, <2>3, <2>5 DEF Variables
    <2>10. Calculation'
      BY <1>b, <1>c, <1>f, <1>5, <2>2, <2>5 DEF Calculation
    <2>11. Kept(loop) = 1 \/ Good(loop) => CountedState'
      BY <1>b, <1>c, <1>f, <1>g, <1>5, <2>2, <2>3, <2>5 DEF CountedState
    <2> QED
      BY <2>2, <2>6, <2>7, <2>8, <2>9, <2>10, <2>11 DEF LoopInv
  <1>6. CASE pc = 6
    <2>0. pc \in 1..Len(Code(loop))
      BY <1>c, <1>d, <1>e, <1>6
    <2>1. Code(loop)[pc] = I("load", "iter")
      BY <1>a, <1>6, CountedShape, Zenon
    <2>2. loop' = loop /\ pc' = 7 /\ env' = env /\ ran' = ran
          /\ stack' = Push(stack, env.iter)
      BY <1>a, <1>c, <1>6, <2>0, <2>1, DoLoad
    <2>3. Operands = 1 /\ Operands' = 2 /\ ~InBlock /\ ~InBlock'
      BY <1>c, <1>6, <2>2 DEF Operands, InBlock
    <2>4. Len(stack) = 1
      BY <1>h, <2>3
    <2>5. /\ stack' \in Seq(Int) /\ Len(stack') = 2 /\ Top' = env.iter /\ Second' = Top
          /\ Passed' = Passed
      <3>1. /\ stack' \in Seq(Int) /\ Len(stack') = Len(stack) + 1 /\ Top' = env.iter
            /\ Len(stack) >= 1 => Second' = stack[Len(stack)]
        BY <1>a, <1>b, <2>2, PushTop
      <3>2. Passed' = Passed
        BY <2>2, <2>3 DEF Passed
      <3> QED
        BY <2>4, <3>1, <3>2 DEF Top
    <2>6. Types'
      <3>1. pc' \in 1..28 + b
        BY <1>c, <2>2
      <3> QED
        BY <1>a, <1>b, <1>d, <2>2, <2>5, <3>1 DEF Types
    <2>7. Height'
      <3>1. Operands' \in Nat /\ Len(stack') = Operands'
        BY <2>2, <2>3, <2>4, <2>5
      <3> QED
        BY <1>h, <2>2, <3>1, NoneLeft
    <2>8. InSteps'
      BY <1>b, <1>c, <1>f, <1>g, <1>6, <2>2, <2>3, <2>5 DEF InSteps
    <2>9. Variables'
      BY <1>a, <1>b, <1>c, <1>f, <1>6, <2>2, <2>3, <2>5 DEF Variables
    <2>10. Calculation'
      BY <1>b, <1>c, <1>f, <1>6, <2>2, <2>5 DEF Calculation, Variables
    <2>11. Kept(loop) = 1 \/ Good(loop) => CountedState'
      BY <1>b, <1>c, <1>f, <1>g, <1>6, <2>2, <2>3, <2>5 DEF CountedState
    <2> QED
      BY <2>2, <2>6, <2>7, <2>8, <2>9, <2>10, <2>11 DEF LoopInv
  <1>7. CASE pc = 7
    <2>0. pc \in 1..Len(Code(loop))
      BY <1>c, <1>d, <1>e, <1>7
    <2>1. Code(loop)[pc] = Plain("idiv")
      BY <1>a, <1>7, CountedShape, Zenon
    <2>2. loop' = loop /\ pc' = 8 /\ env' = env /\ ran' = ran
          /\ stack' = Push(Drop(2), Apply("idiv", Second, Top))
      BY <1>a, <1>c, <1>7, <2>0, <2>1, DoOperate
    <2>3. Operands = 2 /\ Operands' = 1 /\ ~InBlock /\ ~InBlock'
      BY <1>c, <1>7, <2>2 DEF Operands, InBlock
    <2>4. Len(stack) = 2
      BY <1>h, <2>3
    <2>5. stack' \in Seq(Int) /\ Len(stack') = 1 /\ Top' = Rounded(loop) /\ Passed' = Passed
      <3>1. Apply("idiv", Second, Top) = Rounded(loop) /\ Rounded(loop) \in Int
        <4>1. Second = Difference(loop) /\ Top = loop.step
          BY <1>a, <1>b, <1>c, <1>f, <1>7 DEF Calculation, Variables
        <4> QED
          BY <1>a, <1>b, <1>i, <4>1 DEF Apply, Difference, Rounded, Rest, Truth
      <3>2. stack' = Push(Drop(2), Rounded(loop))
        BY <2>2, <3>1
      <3>3. stack' \in Seq(Int) /\ Len(stack') = 1 /\ Top' = Rounded(loop)
        BY <1>b, <2>4, <3>1, <3>2, OperateTop
      <3>4. Passed' = Passed
        BY <2>2, <2>3 DEF Passed
      <3> QED
        BY <3>3, <3>4
    <2>6. Types'
      <3>1. pc' \in 1..28 + b
        BY <1>c, <2>2
      <3> QED
        BY <1>a, <1>b, <1>d, <2>2, <2>5, <3>1 DEF Types
    <2>7. Height'
      <3>1. Operands' \in Nat /\ Len(stack') = Operands'
        BY <2>2, <2>3, <2>4, <2>5
      <3> QED
        BY <1>h, <2>2, <3>1, NoneLeft
    <2>8. InSteps'
      BY <1>b, <1>c, <1>f, <1>g, <1>7, <2>2, <2>3, <2>5 DEF InSteps
    <2>9. Variables'
      BY <1>a, <1>b, <1>c, <1>f, <1>7, <2>2, <2>3, <2>5 DEF Variables
    <2>10. Calculation'
      BY <1>b, <1>c, <1>f, <1>7, <2>2, <2>5 DEF Calculation
    <2>11. Kept(loop) = 1 \/ Good(loop) => CountedState'
      BY <1>b, <1>c, <1>f, <1>g, <1>7, <2>2, <2>3, <2>5 DEF CountedState
    <2> QED
      BY <2>2, <2>6, <2>7, <2>8, <2>9, <2>10, <2>11 DEF LoopInv
  <1>8. CASE pc = 8
    <2>0. pc \in 1..Len(Code(loop))
      BY <1>c, <1>d, <1>e, <1>8
    <2>1. Code(loop)[pc] = I("store", "cond")
      BY <1>a, <1>8, CountedShape, Zenon
    <2>2. loop' = loop /\ pc' = 9 /\ ran' = ran /\ stack' = Drop(1)
          /\ env' = [env EXCEPT !["cond"] = Top]
      BY <1>a, <1>c, <1>8, <2>0, <2>1, DoStore
    <2>3. Operands = 1 /\ Operands' = 0 /\ ~InBlock /\ ~InBlock'
      BY <1>c, <1>8, <2>2 DEF Operands, InBlock
    <2>4. Len(stack) = 1
      BY <1>h, <2>3
    <2>5. /\ stack' \in Seq(Int) /\ Len(stack') = 0 /\ Top \in Int
          /\ env' \in [i : Int, cond : Int, iter : Int] /\ env'.cond = Top
          /\ env'.i = env.i /\ env'.iter = env.iter
          /\ Passed' = Passed
      <3>1. stack' \in Seq(Int) /\ Len(stack') = 0 /\ Top \in Int
        BY <1>b, <2>2, <2>4, PopOne
      <3>2. /\ env' \in [i : Int, cond : Int, iter : Int] /\ env'.cond = Top
            /\ env'.i = env.i /\ env'.iter = env.iter
        BY <1>b, <2>2, <3>1
      <3>3. Passed' = Passed
        BY <2>2, <2>3 DEF Passed
      <3> QED
        BY <3>1, <3>2, <3>3
    <2>6. Types'
      <3>1. pc' \in 1..28 + b
        BY <1>c, <2>2
      <3> QED
        BY <1>a, <1>b, <1>d, <2>2, <2>5, <3>1 DEF Types
    <2>7. Height'
      <3>1. Operands' \in Nat /\ Len(stack') = Operands'
        BY <2>2, <2>3, <2>4, <2>5
      <3> QED
        BY <1>h, <2>2, <3>1, NoneLeft
    <2>8. InSteps'
      BY <1>b, <1>c, <1>f, <1>g, <1>8, <2>2, <2>3, <2>5 DEF InSteps
    <2>9. Variables'
      BY <1>a, <1>b, <1>c, <1>f, <1>8, <2>2, <2>3, <2>5 DEF Variables
    <2>10. Calculation'
      BY <1>b, <1>c, <1>f, <1>8, <2>2, <2>5 DEF Calculation
    <2>11. Kept(loop) = 1 \/ Good(loop) => CountedState'
      BY <1>b, <1>c, <1>f, <1>g, <1>8, <2>2, <2>3, <2>5 DEF CountedState
    <2> QED
      BY <2>2, <2>6, <2>7, <2>8, <2>9, <2>10, <2>11 DEF LoopInv
  <1>9. CASE pc = 9
    <2>0. pc \in 1..Len(Code(loop))
      BY <1>c, <1>d, <1>e, <1>9
    <2>1. Code(loop)[pc] = I("load", "cond")
      BY <1>a, <1>9, CountedShape, Zenon
    <2>2. loop' = loop /\ pc' = 10 /\ env' = env /\ ran' = ran
          /\ stack' = Push(stack, env.cond)
      BY <1>a, <1>c, <1>9, <2>0, <2>1, DoLoad
    <2>3. Operands = 0 /\ Operands' = 1 /\ ~InBlock /\ ~InBlock'
      BY <1>c, <1>9, <2>2 DEF Operands, InBlock
    <2>4. Len(stack) = 0
      BY <1>h, <2>3
    <2>5. /\ stack' \in Seq(Int) /\ Len(stack') = 1 /\ Top' = env.cond
          /\ Passed' = Passed
      <3>1. /\ stack' \in Seq(Int) /\ Len(stack') = Len(stack) + 1 /\ Top' = env.cond
            /\ Len(stack) >= 1 => Second' = stack[Len(stack)]
        BY <1>a, <1>b, <2>2, PushTop
      <3>2. Passed' = Passed
        BY <2>2, <2>3 DEF Passed
      <3> QED
        BY <2>4, <3>1, <3>2 DEF Top
    <2>6. Types'
      <3>1. pc' \in 1..28 + b
        BY <1>c, <2>2
      <3> QED
        BY <1>a, <1>b, <1>d, <2>2, <2>5, <3>1 DEF Types
    <2>7. Height'
      <3>1. Operands' \in Nat /\ Len(stack') = Operands'
        BY <2>2, <2>3, <2>4, <2>5
      <3> QED
        BY <1>h, <2>2, <3>1, NoneLeft
    <2>8. InSteps'
      BY <1>b, <1>c, <1>f, <1>g, <1>9, <2>2, <2>3, <2>5 DEF InSteps
    <2>9. Variables'
      BY <1>a, <1>b, <1>c, <1>f, <1>9, <2>2, <2>3, <2>5 DEF Variables
    <2>10. Calculation'
      BY <1>b, <1>c, <1>f, <1>9, <2>2, <2>5 DEF Calculation, Variables
    <2>11. Kept(loop) = 1 \/ Good(loop) => CountedState'
      BY <1>b, <1>c, <1>f, <1>g, <1>9, <2>2, <2>3, <2>5 DEF CountedState
    <2> QED
      BY <2>2, <2>6, <2>7, <2>8, <2>9, <2>10, <2>11 DEF LoopInv
  <1>10. CASE pc = 10
    <2>0. pc \in 1..Len(Code(loop))
      BY <1>c, <1>d, <1>e, <1>10
    <2>1. Code(loop)[pc] = I("load", "iter")
      BY <1>a, <1>10, CountedShape, Zenon
    <2>2. loop' = loop /\ pc' = 11 /\ env' = env /\ ran' = ran
          /\ stack' = Push(stack, env.iter)
      BY <1>a, <1>c, <1>10, <2>0, <2>1, DoLoad
    <2>3. Operands = 1 /\ Operands' = 2 /\ ~InBlock /\ ~InBlock'
      BY <1>c, <1>10, <2>2 DEF Operands, InBlock
    <2>4. Len(stack) = 1
      BY <1>h, <2>3
    <2>5. /\ stack' \in Seq(Int) /\ Len(stack') = 2 /\ Top' = env.iter /\ Second' = Top
          /\ Passed' = Passed
      <3>1. /\ stack' \in Seq(Int) /\ Len(stack') = Len(stack) + 1 /\ Top' = env.iter
            /\ Len(stack) >= 1 => Second' = stack[Len(stack)]
        BY <1>a, <1>b, <2>2, PushTop
      <3>2. Passed' = Passed
        BY <2>2, <2>3 DEF Passed
      <3> QED
        BY <2>4, <3>1, <3>2 DEF Top
    <2>6. Types'
      <3>1. pc' \in 1..28 + b
        BY <1>c, <2>2
      <3> QED
        BY <1>a, <1>b, <1>d, <2>2, <2>5, <3>1 DEF Types
    <2>7. Height'
      <3>1. Operands' \in Nat /\ Len(stack') = Operands'
        BY <2>2, <2>3, <2>4, <2>5
      <3> QED
        BY <1>h, <2>2, <3>1, NoneLeft
    <2>8. InSteps'
      BY <1>b, <1>c, <1>f, <1>g, <1>10, <2>2, <2>3, <2>5 DEF InSteps
    <2>9. Variables'
      BY <1>a, <1>b, <1>c, <1>f, <1>10, <2>2, <2>3, <2>5 DEF Variables
    <2>10. Calculation'
      BY <1>b, <1>c, <1>f, <1>10, <2>2, <2>5 DEF Calculation, Variables
    <2>11. Kept(loop) = 1 \/ Good(loop) => CountedState'
      BY <1>b, <1>c, <1>f, <1>g, <1>10, <2>2, <2>3, <2>5 DEF CountedState
    <2> QED
      BY <2>2, <2>6, <2>7, <2>8, <2>9, <2>10, <2>11 DEF LoopInv
  <1>11. CASE pc = 11
    <2>0. pc \in 1..Len(Code(loop))
      BY <1>c, <1>d, <1>e, <1>11
    <2>1. Code(loop)[pc] = Plain("irem")
      BY <1>a, <1>11, CountedShape, Zenon
    <2>2. loop' = loop /\ pc' = 12 /\ env' = env /\ ran' = ran
          /\ stack' = Push(Drop(2), Apply("irem", Second, Top))
      BY <1>a, <1>c, <1>11, <2>0, <2>1, DoOperate
    <2>3. Operands = 2 /\ Operands' = 1 /\ ~InBlock /\ ~InBlock'
      BY <1>c, <1>11, <2>2 DEF Operands, InBlock
    <2>4. Len(stack) = 2
      BY <1>h, <2>3
    <2>5. stack' \in Seq(Int) /\ Len(stack') = 1 /\ Top' = Rest(loop) /\ Passed' = Passed
      <3>1. Apply("irem", Second, Top) = Rest(loop) /\ Rest(loop) \in Int
        <4>1. Second = Rounded(loop) /\ Top = loop.step
          BY <1>a, <1>b, <1>c, <1>f, <1>11 DEF Calculation, Variables
        <4> QED
          BY <1>a, <1>b, <1>i, <4>1 DEF Apply, Difference, Rounded, Rest, Truth
      <3>2. stack' = Push(Drop(2), Rest(loop))
        BY <2>2, <3>1
      <3>3. stack' \in Seq(Int) /\ Len(stack') = 1 /\ Top' = Rest(loop)
        BY <1>b, <2>4, <3>1, <3>2, OperateTop
      <3>4. Passed' = Passed
        BY <2>2, <2>3 DEF Passed
      <3> QED
        BY <3>3, <3>4
    <2>6. Types'
      <3>1. pc' \in 1..28 + b
        BY <1>c, <2>2
      <3> QED
        BY <1>a, <1>b, <1>d, <2>2, <2>5, <3>1 DEF Types
    <2>7. Height'
      <3>1. Operands' \in Nat /\ Len(stack') = Operands'
        BY <2>2, <2>3, <2>4, <2>5
      <3> QED
        BY <1>h, <2>2, <3>1, NoneLeft
    <2>8. InSteps'
      BY <1>b, <1>c, <1>f, <1>g, <1>11, <2>2, <2>3, <2>5 DEF InSteps
    <2>9. Variables'
      BY <1>a, <1>b, <1>c, <1>f, <1>11, <2>2, <2>3, <2>5 DEF Variables
    <2>10. Calculation'
      BY <1>b, <1>c, <1>f, <1>11, <2>2, <2>5 DEF Calculation
    <2>11. Kept(loop) = 1 \/ Good(loop) => CountedState'
      BY <1>b, <1>c, <1>f, <1>g, <1>11, <2>2, <2>3, <2>5 DEF CountedState
    <2> QED
      BY <2>2, <2>6, <2>7, <2>8, <2>9, <2>10, <2>11 DEF LoopInv
  <1>12. CASE pc = 12
    <2>0. pc \in 1..Len(Code(loop))
      BY <1>c, <1>d, <1>e, <1>12
    <2>1. Code(loop)[pc] = I("push", 0)
      BY <1>a, <1>12, CountedShape, Zenon
    <2>2. loop' = loop /\ pc' = 13 /\ env' = env /\ ran' = ran
          /\ stack' = Push(stack, 0)
      BY <1>a, <1>c, <1>12, <2>0, <2>1, DoPush
    <2>3. Operands = 1 /\ Operands' = 2 /\ ~InBlock /\ ~InBlock'
      BY <1>c, <1>12, <2>2 DEF Operands, InBlock
    <2>4. Len(stack) = 1
      BY <1>h, <2>3
    <2>5. /\ stack' \in Seq(Int) /\ Len(stack') = 2 /\ Top' = 0 /\ Second' = Top
          /\ Passed' = Passed
      <3>1. /\ stack' \in Seq(Int) /\ Len(stack') = Len(stack) + 1 /\ Top' = 0
            /\ Len(stack) >= 1 => Second' = stack[Len(stack)]
        BY <1>a, <1>b, <2>2, PushTop
      <3>2. Passed' = Passed
        BY <2>2, <2>3 DEF Passed
      <3> QED
        BY <2>4, <3>1, <3>2 DEF Top
    <2>6. Types'
      <3>1. pc' \in 1..28 + b
        BY <1>c, <2>2
      <3> QED
        BY <1>a, <1>b, <1>d, <2>2, <2>5, <3>1 DEF Types
    <2>7. Height'
      <3>1. Operands' \in Nat /\ Len(stack') = Operands'
        BY <2>2, <2>3, <2>4, <2>5
      <3> QED
        BY <1>h, <2>2, <3>1, NoneLeft
    <2>8. InSteps'
      BY <1>b, <1>c, <1>f, <1>g, <1>12, <2>2, <2>3, <2>5 DEF InSteps
    <2>9. Variables'
      BY <1>a, <1>b, <1>c, <1>f, <1>12, <2>2, <2>3, <2>5 DEF Variables
    <2>10. Calculation'
      BY <1>b, <1>c, <1>f, <1>12, <2>2, <2>5 DEF Calculation, Variables
    <2>11. Kept(loop) = 1 \/ Good(loop) => CountedState'
      BY <1>b, <1>c, <1>f, <1>g, <1>12, <2>2, <2>3, <2>5 DEF CountedState
    <2> QED
      BY <2>2, <2>6, <2>7, <2>8, <2>9, <2>10, <2>11 DEF LoopInv
  <1>13. CASE pc = 13
    <2>0. pc \in 1..Len(Code(loop))
      BY <1>c, <1>d, <1>e, <1>13
    <2>1. Code(loop)[pc] = Plain("ieq")
      BY <1>a, <1>13, CountedShape, Zenon
    <2>2. loop' = loop /\ pc' = 14 /\ env' = env /\ ran' = ran
          /\ stack' = Push(Drop(2), Apply("ieq", Second, Top))
      BY <1>a, <1>c, <1>13, <2>0, <2>1, DoOperate
    <2>3. Operands = 2 /\ Operands' = 1 /\ ~InBlock /\ ~InBlock'
      BY <1>c, <1>13, <2>2 DEF Operands, InBlock
    <2>4. Len(stack) = 2
      BY <1>h, <2>3
    <2>5. stack' \in Seq(Int) /\ Len(stack') = 1 /\ Top' = Truth(Rest(loop) = 0) /\ Passed' = Passed
      <3>1. Apply("ieq", Second, Top) = Truth(Rest(loop) = 0) /\ Truth(Rest(loop) = 0) \in Int
        <4>1. Second = Rest(loop) /\ Top = 0
          BY <1>a, <1>b, <1>c, <1>f, <1>13 DEF Calculation, Variables
        <4> QED
          BY <1>a, <1>b, <1>i, <4>1 DEF Apply, Difference, Rounded, Rest, Truth
      <3>2. stack' = Push(Drop(2), Truth(Rest(loop) = 0))
        BY <2>2, <3>1
      <3>3. stack' \in Seq(Int) /\ Len(stack') = 1 /\ Top' = Truth(Rest(loop) = 0)
        BY <1>b, <2>4, <3>1, <3>2, OperateTop
      <3>4. Passed' = Passed
        BY <2>2, <2>3 DEF Passed
      <3> QED
        BY <3>3, <3>4
    <2>6. Types'
      <3>1. pc' \in 1..28 + b
        BY <1>c, <2>2
      <3> QED
        BY <1>a, <1>b, <1>d, <2>2, <2>5, <3>1 DEF Types
    <2>7. Height'
      <3>1. Operands' \in Nat /\ Len(stack') = Operands'
        BY <2>2, <2>3, <2>4, <2>5
      <3> QED
        BY <1>h, <2>2, <3>1, NoneLeft
    <2>8. InSteps'
      BY <1>b, <1>c, <1>f, <1>g, <1>13, <2>2, <2>3, <2>5 DEF InSteps
    <2>9. Variables'
      BY <1>a, <1>b, <1>c, <1>f, <1>13, <2>2, <2>3, <2>5 DEF Variables
    <2>10. Calculation'
      BY <1>b, <1>c, <1>f, <1>13, <2>2, <2>5 DEF Calculation
    <2>11. Kept(loop) = 1 \/ Good(loop) => CountedState'
      BY <1>b, <1>c, <1>f, <1>g, <1>13, <2>2, <2>3, <2>5 DEF CountedState
    <2> QED
      BY <2>2, <2>6, <2>7, <2>8, <2>9, <2>10, <2>11 DEF LoopInv
  <1>14. CASE pc = 14
    <2>0. pc \in 1..Len(Code(loop))
      BY <1>c, <1>d, <1>e, <1>14
    <2>1. Code(loop)[pc] = I("branch_t", "start")
      BY <1>a, <1>14, CountedShape, Zenon
    <2>2. loop' = loop /\ pc' = (IF Top = 1 THEN 16 ELSE 15)
          /\ env' = env /\ ran' = ran /\ stack' = Drop(1)
      BY <1>a, <1>c, <1>14, <2>0, <2>1, DoBranchT
    <2>3. Operands = 1 /\ Operands' = 0 /\ ~InBlock /\ ~InBlock'
      BY <1>c, <1>14, <2>2 DEF Operands, InBlock
    <2>4. Len(stack) = 1
      BY <1>h, <2>3
    <2>5. stack' \in Seq(Int) /\ Len(stack') = 0 /\ Passed' = Passed
      <3>1. stack' \in Seq(Int) /\ Len(stack') = 0
        BY <1>b, <2>2, <2>4, PopOne
      <3>2. Passed' = Passed
        BY <2>2, <2>3 DEF Passed
      <3> QED
        BY <3>1, <3>2
    <2>6. Types'
      <3>1. pc' \in 1..28 + b
        BY <1>c, <2>2
      <3> QED
        BY <1>a, <1>b, <1>d, <2>2, <2>5, <3>1 DEF Types
    <2>7. Height'
      <3>1. Operands' \in Nat /\ Len(stack') = Operands'
        BY <2>2, <2>3, <2>4, <2>5
      <3> QED
        BY <1>h, <2>2, <3>1, NoneLeft
    <2>8. InSteps'
      BY <1>b, <1>c, <1>f, <1>g, <1>14, <2>2, <2>3, <2>5 DEF InSteps
    <2>9. Variables'
      BY <1>a, <1>b, <1>c, <1>f, <1>14, <2>2, <2>3, <2>5 DEF Variables
    <2>10. Calculation'
      BY <1>b, <1>c, <1>f, <1>14, <2>2, <2>5 DEF Calculation, Truth
    <2>11. Kept(loop) = 1 \/ Good(loop) => CountedState'
      <3>1. ran' = <<>> /\ env'.cond = Rounded(loop) /\ Top = Truth(Rest(loop) = 0)
        BY <1>14, <1>f, <2>2 DEF Calculation
      <3>2. pc' = 15 \/ (pc' = 16 /\ Count(loop) = Rounded(loop))
        BY <2>2, <3>1 DEF Truth, Count
      <3>3. Len(ran') = 0 /\ Count(loop) - 0 = Count(loop)
        BY <1>i, <3>1
      <3> QED
        BY <1>c, <2>2, <3>1, <3>2, <3>3 DEF CountedState
    <2> QED
      BY <2>2, <2>6, <2>7, <2>8, <2>9, <2>10, <2>11 DEF LoopInv
  <1>15. CASE pc = 15
    <2>0. pc \in 1..Len(Code(loop))
      BY <1>c, <1>d, <1>e, <1>15
    <2>1. Code(loop)[pc] = I("inc_cond", 1)
      BY <1>a, <1>15, CountedShape, Zenon
    <2>2. loop' = loop /\ pc' = 16 /\ ran' = ran /\ stack' = stack
          /\ env' = [env EXCEPT !["cond"] = @ + (1)]
      BY <1>a, <1>c, <1>15, <2>0, <2>1, DoIncCond
    <2>3. Operands = 0 /\ Operands' = 0 /\ ~InBlock /\ ~InBlock'
      BY <1>c, <1>15, <2>2 DEF Operands, InBlock
    <2>4. Len(stack) = 0
      BY <1>h, <2>3
    <2>5. /\ env' \in [i : Int, cond : Int, iter : Int] /\ env'.cond = env.cond + (1)
          /\ env'.i = env.i /\ env'.iter = env.iter /\ Passed' = Passed
      <3>1. /\ env' \in [i : Int, cond : Int, iter : Int] /\ env'.cond = env.cond + (1)
            /\ env'.i = env.i /\ env'.iter = env.iter
        <4>1. env.cond + (1) \in Int
          BY <1>b
        <4>2. env' = [env EXCEPT !["cond"] = env.cond + (1)]
          BY <1>b, <2>2
        <4> QED
          BY <1>b, <4>1, <4>2
      <3>2. Passed' = Passed
        BY <2>2, <2>3 DEF Passed
      <3> QED
        BY <3>1, <3>2
    <2>6. Types'
      <3>1. pc' \in 1..28 + b
        BY <1>c, <2>2
      <3> QED
        BY <1>a, <1>b, <1>d, <2>2, <2>5, <3>1 DEF Types
    <2>7. Height'
      <3>1. Operands' \in Nat /\ Len(stack') = Operands'
        BY <2>2, <2>3, <2>4, <2>5
      <3> QED
        BY <1>h, <2>2, <3>1, NoneLeft
    <2>8. InSteps'
      BY <1>b, <1>c, <1>f, <1>g, <1>15, <2>2, <2>3, <2>5 DEF InSteps
    <2>9. Variables'
      BY <1>a, <1>b, <1>c, <1>f, <1>15, <2>2, <2>3, <2>5 DEF Variables
    <2>10. Calculation'
      BY <1>b, <1>c, <1>f, <1>15, <2>2, <2>5 DEF Calculation
    <2>11. Kept(loop) = 1 \/ Good(loop) => CountedState'
      <3>1. Len(ran') = 0 /\ env'.cond = Rounded(loop) + 1 /\ Rest(loop) # 0
        BY <1>15, <1>f, <2>2, <2>5 DEF Calculation
      <3>2. env'.cond = Count(loop) - 0
        BY <1>i, <3>1 DEF Count
      <3> QED
        BY <1>c, <2>2, <3>1, <3>2 DEF CountedState
    <2> QED
      BY <2>2, <2>6, <2>7, <2>8, <2>9, <2>10, <2>11 DEF LoopInv
  <1>16. CASE pc = 16
    <2>0. pc \in 1..Len(Code(loop))
      BY <1>c, <1>d, <1>e, <1>16
    <2>1. Code(loop)[pc] = I("label", "start")
      BY <1>a, <1>16, CountedShape, Zenon
    <2>2. loop' = loop /\ pc' = 17 /\ env' = env /\ ran' = ran /\ stack' = stack
      BY <1>a, <1>c, <1>16, <2>0, <2>1, DoLabel
    <2>3. Operands = 0 /\ Operands' = 0 /\ ~InBlock /\ ~InBlock'
      BY <1>c, <1>16, <2>2 DEF Operands, InBlock
    <2>4. Len(stack) = 0
      BY <1>h, <2>3
    <2>5. Passed' = Passed
      BY <2>2, <2>3 DEF Passed
    <2>6. Types'
      <3>1. pc' \in 1..28 + b
        BY <1>c, <2>2
      <3> QED
        BY <1>a, <1>b, <1>d, <2>2, <2>5, <3>1 DEF Types
    <2>7. Height'
      <3>1. Operands' \in Nat /\ Len(stack') = Operands'
        BY <2>2, <2>3, <2>4, <2>5
      <3> QED
        BY <1>h, <2>2, <3>1, NoneLeft
    <2>8. InSteps'
      BY <1>b, <1>c, <1>f, <1>g, <1>16, <2>2, <2>3, <2>5 DEF InSteps
    <2>9. Variables'
      BY <1>a, <1>b, <1>c, <1>f, <1>16, <2>2, <2>3, <2>5 DEF Variables
    <2>10. Calculation'
      BY <1>b, <1>c, <1>f, <1>16, <2>2, <2>5 DEF Calculation
    <2>11. Kept(loop) = 1 \/ Good(loop) => CountedState'
      BY <1>b, <1>c, <1>f, <1>g, <1>16, <2>2, <2>3, <2>5 DEF CountedState
    <2> QED
      BY <2>2, <2>6, <2>7, <2>8, <2>9, <2>10, <2>11 DEF LoopInv
  <1>17. CASE pc = 17
    <2>0. pc \in 1..Len(Code(loop))
      BY <1>c, <1>d, <1>e, <1>17
    <2>1. Code(loop)[pc] = I("load", "cond")
      BY <1>a, <1>17, CountedShape, Zenon
    <2>2. loop' = loop /\ pc' = 18 /\ env' = env /\ ran' = ran
          /\ stack' = Push(stack, env.cond)
      BY <1>a, <1>c, <1>17, <2>0, <2>1, DoLoad
    <2>3. Operands = 0 /\ Operands' = 1 /\ ~InBlock /\ ~InBlock'
      BY <1>c, <1>17, <2>2 DEF Operands, InBlock
    <2>4. Len(stack) = 0
      BY <1>h, <2>3
    <2>5. /\ stack' \in Seq(Int) /\ Len(stack') = 1 /\ Top' = env.cond
          /\ Passed' = Passed
      <3>1. /\ stack' \in Seq(Int) /\ Len(stack') = Len(stack) + 1 /\ Top' = env.cond
            /\ Len(stack) >= 1 => Second' = stack[Len(stack)]
        BY <1>a, <1>b, <2>2, PushTop
      <3>2. Passed' = Passed
        BY <2>2, <2>3 DEF Passed
      <3> QED
        BY <2>4, <3>1, <3>2 DEF Top
    <2>6. Types'
      <3>1. pc' \in 1..28 + b
        BY <1>c, <2>2
      <3> QED
        BY <1>a, <1>b, <1>d, <2>2, <2>5, <3>1 DEF Types
    <2>7. Height'
      <3>1. Operands' \in Nat /\ Len(stack') = Operands'
        BY <2>2, <2>3, <2>4, <2>5
      <3> QED
        BY <1>h, <2>2, <3>1, NoneLeft
    <2>8. InSteps'
      BY <1>b, <1>c, <1>f, <1>g, <1>17, <2>2, <2>3, <2>5 DEF InSteps
    <2>9. Variables'
      BY <1>a, <1>b, <1>c, <1>f, <1>17, <2>2, <2>3, <2>5 DEF Variables
    <2>10. Calculation'
      BY <1>b, <1>c, <1>f, <1>17, <2>2, <2>5 DEF Calculation, Variables
    <2>11. Kept(loop) = 1 \/ Good(loop) => CountedState'
      BY <1>b, <1>c, <1>f, <1>g, <1>17, <2>2, <2>3, <2>5 DEF CountedState
    <2> QED
      BY <2>2, <2>6, <2>7, <2>8, <2>9, <2>10, <2>11 DEF LoopInv
  <1>18. CASE pc = 18
    <2>0. pc \in 1..Len(Code(loop))
      BY <1>c, <1>d, <1>e, <1>18
    <2>1. Code(loop)[pc] = I("push", 0)
      BY <1>a, <1>18, CountedShape, Zenon
    <2>2. loop' = loop /\ pc' = 19 /\ env' = env /\ ran' = ran
          /\ stack' = Push(stack, 0)
      BY <1>a, <1>c, <1>18, <2>0, <2>1, DoPush
    <2>3. Operands = 1 /\ Operands' = 2 /\ ~InBlock /\ ~InBlock'
      BY <1>c, <1>18, <2>2 DEF Operands, InBlock
    <2>4. Len(stack) = 1
      BY <1>h, <2>3
    <2>5. /\ stack' \in Seq(Int) /\ Len(stack') = 2 /\ Top' = 0 /\ Second' = Top
          /\ Passed' = Passed
      <3>1. /\ stack' \in Seq(Int) /\ Len(stack') = Len(stack) + 1 /\ Top' = 0
            /\ Len(stack) >= 1 => Second' = stack[Len(stack)]
        BY <1>a, <1>b, <2>2, PushTop
      <3>2. Passed' = Passed
        BY <2>2, <2>3 DEF Passed
      <3> QED
        BY <2>4, <3>1, <3>2 DEF Top
    <2>6. Types'
      <3>1. pc' \in 1..28 + b
        BY <1>c, <2>2
      <3> QED
        BY <1>a, <1>b, <1>d, <2>2, <2>5, <3>1 DEF Types
    <2>7. Height'
      <3>1. Operands' \in Nat /\ Len(stack') = Operands'
        BY <2>2, <2>3, <2>4, <2>5
      <3> QED
        BY <1>h, <2>2, <3>1, NoneLeft
    <2>8. InSteps'
      BY <1>b, <1>c, <1>f, <1>g, <1>18, <2>2, <2>3, <2>5 DEF InSteps
    <2>9. Variables'
      BY <1>a, <1>b, <1>c, <1>f, <1>18, <2>2, <2>3, <2>5 DEF Variables
    <2>10. Calculation'
      BY <1>b, <1>c, <1>f, <1>18, <2>2, <2>5 DEF Calculation, Variables
    <2>11. Kept(loop) = 1 \/ Good(loop) => CountedState'
      BY <1>b, <1>c, <1>f, <1>g, <1>18, <2>2, <2>3, <2>5 DEF CountedState
    <2> QED
      BY <2>2, <2>6, <2>7, <2>8, <2>9, <2>10, <2>11 DEF LoopInv
  <1>19. CASE pc = 19
    <2>0. pc \in 1..Len(Code(loop))
      BY <1>c, <1>d, <1>e, <1>19
    <2>1. Code(loop)[pc] = Plain("igt")
      BY <1>a, <1>19, CountedShape, Zenon
    <2>2. loop' = loop /\ pc' = 20 /\ env' = env /\ ran' = ran
          /\ stack' = Push(Drop(2), Apply("igt", Second, Top))
      BY <1>a, <1>c, <1>19, <2>0, <2>1, DoOperate
    <2>3. Operands = 2 /\ Operands' = 1 /\ ~InBlock /\ ~InBlock'
      BY <1>c, <1>19, <2>2 DEF Operands, InBlock
    <2>4. Len(stack) = 2
      BY <1>h, <2>3
    <2>5. stack' \in Seq(Int) /\ Len(stack') = 1 /\ Top' = Truth(env.cond > 0) /\ Passed' = Passed
      <3>1. Apply("igt", Second, Top) = Truth(env.cond > 0) /\ Truth(env.cond > 0) \in Int
        <4>1. Second = env.cond /\ Top = 0
          BY <1>a, <1>b, <1>c, <1>f, <1>19 DEF Calculation, Variables
        <4> QED
          BY <1>a, <1>b, <1>i, <4>1 DEF Apply, Difference, Rounded, Rest, Truth
      <3>2. stack' = Push(Drop(2), Truth(env.cond > 0))
        BY <2>2, <3>1
      <3>3. stack' \in Seq(Int) /\ Len(stack') = 1 /\ Top' = Truth(env.cond > 0)
        BY <1>b, <2>4, <3>1, <3>2, OperateTop
      <3>4. Passed' = Passed
        BY <2>2, <2>3 DEF Passed
      <3> QED
        BY <3>3, <3>4
    <2>6. Types'
      <3>1. pc' \in 1..28 + b
        BY <1>c, <2>2
      <3> QED
        BY <1>a, <1>b, <1>d, <2>2, <2>5, <3>1 DEF Types
    <2>7. Height'
      <3>1. Operands' \in Nat /\ Len(stack') = Operands'
        BY <2>2, <2>3, <2>4, <2>5
      <3> QED
        BY <1>h, <2>2, <3>1, NoneLeft
    <2>8. InSteps'
      BY <1>b, <1>c, <1>f, <1>g, <1>19, <2>2, <2>3, <2>5 DEF InSteps
    <2>9. Variables'
      BY <1>a, <1>b, <1>c, <1>f, <1>19, <2>2, <2>3, <2>5 DEF Variables
    <2>10. Calculation'
      BY <1>b, <1>c, <1>f, <1>19, <2>2, <2>5 DEF Calculation
    <2>11. Kept(loop) = 1 \/ Good(loop) => CountedState'
      BY <1>b, <1>c, <1>f, <1>g, <1>19, <2>2, <2>3, <2>5 DEF CountedState
    <2> QED
      BY <2>2, <2>6, <2>7, <2>8, <2>9, <2>10, <2>11 DEF LoopInv
  <1>20. CASE pc = 20
    <2>0. pc \in 1..Len(Code(loop))
      BY <1>c, <1>d, <1>e, <1>20
    <2>1. Code(loop)[pc] = I("branch_f", "end")
      BY <1>a, <1>20, CountedShape, Zenon
    <2>2. loop' = loop /\ pc' = (IF Top = 1 THEN 21 ELSE Step(loop) + 6)
          /\ env' = env /\ ran' = ran /\ stack' = Drop(1)
      BY <1>a, <1>c, <1>20, <2>0, <2>1, DoBranchF
    <2>3. Operands = 1 /\ Operands' = 0 /\ ~InBlock /\ ~InBlock'
      BY <1>c, <1>20, <2>2 DEF Operands, InBlock
    <2>4. Len(stack) = 1
      BY <1>h, <2>3
    <2>5. stack' \in Seq(Int) /\ Len(stack') = 0 /\ Passed' = Passed
      <3>1. stack' \in Seq(Int) /\ Len(stack') = 0
        BY <1>b, <2>2, <2>4, PopOne
      <3>2. Passed' = Passed
        BY <2>2, <2>3 DEF Passed
      <3> QED
        BY <3>1, <3>2
    <2>6. Types'
      <3>1. pc' \in 1..28 + b
        BY <1>c, <2>2
      <3> QED
        BY <1>a, <1>b, <1>d, <2>2, <2>5, <3>1 DEF Types
    <2>7. Height'
      <3>1. Operands' \in Nat /\ Len(stack') = Operands'
        BY <2>2, <2>3, <2>4, <2>5
      <3> QED
        BY <1>h, <2>2, <3>1, NoneLeft
    <2>8. InSteps'
      BY <1>b, <1>c, <1>f, <1>g, <1>20, <2>2, <2>3, <2>5 DEF InSteps
    <2>9. Variables'
      BY <1>a, <1>b, <1>c, <1>f, <1>20, <2>2, <2>3, <2>5 DEF Variables
    <2>10. Calculation'
      BY <1>b, <1>c, <1>f, <1>20, <2>2, <2>5 DEF Calculation, Truth
    <2>11. Kept(loop) = 1 \/ Good(loop) => CountedState'
      <3> SUFFICES ASSUME Kept(loop) = 1 \/ Good(loop)
                   PROVE  CountedState'
        OBVIOUS
      <3>1. /\ env.cond = Count(loop) - Len(ran) /\ Passed = Len(ran)
            /\ Top = 1 <=> env.cond > 0
        BY <1>20, <1>c, <1>f, <2>3 DEF Calculation, CountedState, Passed, Truth
      <3>2. ASSUME Kept(loop) = 0
            PROVE  ~(env.cond > 0)
        <4>1. ~Continues(loop, Nth(loop, 0))
          BY <1>a, <3>2, Steps DEF Good, Kept
        <4>2. ~(0 < Count(loop))
          BY <3>2, <4>1 DEF Good, CountsRight
        <4>3. Len(ran) = 0
          BY <1>f, <3>2 DEF InSteps
        <4> QED
          BY <1>i, <3>1, <4>2, <4>3
      <3>3. CASE env.cond > 0
        <4>1. Kept(loop) = 1 /\ b = 1
          BY <3>2, <3>3
        <4>2. pc' = 21 /\ Passed < Count(loop)
          BY <1>g, <1>i, <2>2, <3>1, <3>3
        <4> QED
          BY <1>c, <2>2, <2>5, <3>1, <4>1, <4>2 DEF CountedState
      <3>4. CASE ~(env.cond > 0)
        <4>1. pc' = 27 + b /\ env.cond <= 0
          BY <1>b, <1>c, <2>2, <3>1, <3>4
        <4> QED
          BY <1>c, <2>2, <2>5, <3>1, <4>1 DEF CountedState
      <3> QED
        BY <3>3, <3>4
    <2> QED
      BY <2>2, <2>6, <2>7, <2>8, <2>9, <2>10, <2>11 DEF LoopInv
  <1>21. CASE b = 1 /\ pc = 21
    <2>0. pc \in 1..Len(Code(loop))
      BY <1>c, <1>d, <1>e, <1>21
    <2>1. Code(loop)[pc] = I("body", "i")
      BY <1>a, <1>21, CountedShape, Zenon
    <2>2. loop' = loop /\ pc' = 22 /\ env' = env /\ stack' = stack /\ ran' = Push(ran, env.i)
      BY <1>a, <1>c, <1>21, <2>0, <2>1, DoBody
    <2>3. Operands = 0 /\ Operands' = 0 /\ ~InBlock /\ InBlock'
      BY <1>c, <1>21, <2>2 DEF Operands, InBlock
    <2>4. Len(stack) = 0
      BY <1>h, <2>3
    <2>5. /\ ran' \in Seq(Int) /\ Len(ran') = Len(ran) + 1
          /\ Passed' = Passed /\ Passed = Len(ran) /\ env.i = Nth(loop, Len(ran))
          /\ \A k \in 1..Len(ran) + 1 :
                ran'[k] = IF k = Len(ran) + 1 THEN env.i ELSE ran[k]
      <3>1. env.i \in Int
        BY <1>b
      <3>2. /\ ran' \in Seq(Int) /\ Len(ran') = Len(ran) + 1
            /\ \A k \in 1..Len(ran) + 1 :
                  ran'[k] = IF k = Len(ran) + 1 THEN env.i ELSE ran[k]
        BY <1>b, <2>2, <3>1, Pushed
      <3>3. Passed' = Passed /\ Passed = Len(ran)
        BY <1>b, <2>3, <3>2 DEF Passed
      <3>4. env.i = Nth(loop, Len(ran))
        BY <1>21, <1>f, <3>3 DEF Variables
      <3> QED
        BY <3>2, <3>3, <3>4
    <2>6. Types'
      <3>1. pc' \in 1..28 + b
        BY <2>2
      <3> QED
        BY <1>a, <1>b, <1>d, <2>2, <2>5, <3>1 DEF Types
    <2>7. Height'
      <3>1. Operands' \in Nat /\ Len(stack') = Operands'
        BY <2>2, <2>3, <2>4
      <3> QED
        BY <1>h, <2>2, <3>1, NoneLeft
    <2>8. InSteps'
      <3>1. Kept(loop') = 1 /\ pc' = 22
        BY <1>21, <2>2
      <3>2. ASSUME NEW k \in 1..Len(ran')
            PROVE  ran'[k] = Nth(loop', k - 1)
        <4>1. CASE k = Len(ran) + 1
          <5>1. k - 1 = Len(ran) /\ k \in 1..Len(ran) + 1
            BY <1>g, <4>1
          <5> QED
            BY <2>2, <2>5, <4>1, <5>1
        <4>2. CASE k # Len(ran) + 1
          <5>1. k \in 1..Len(ran) /\ k \in 1..Len(ran) + 1
            BY <1>g, <2>5, <4>2
          <5> QED
            BY <1>f, <2>2, <2>5, <4>2, <5>1 DEF InSteps
        <4> QED
          BY <4>1, <4>2
      <3>3. Len(ran') > 0
        BY <1>g, <2>5
      <3> QED
        BY <3>1, <3>2, <3>3 DEF InSteps
    <2>9. Variables'
      BY <1>a, <1>b, <1>c, <1>f, <1>21, <2>2, <2>3, <2>5 DEF Variables
    <2>10. Calculation'
      BY <1>b, <1>c, <1>f, <1>21, <2>2, <2>5 DEF Calculation
    <2>11. CountedState'
      BY <1>b, <1>c, <1>f, <1>g, <1>21, <2>2, <2>3, <2>5 DEF CountedState
    <2> QED
      BY <2>2, <2>6, <2>7, <2>8, <2>9, <2>10, <2>11 DEF LoopInv
  <1>22. CASE pc = Step(loop)
    <2>0. pc \in 1..Len(Code(loop))
      BY <1>c, <1>d, <1>e, <1>22
    <2>1. Code(loop)[pc] = I("inc_cond", -1)
      BY <1>a, <1>22, CountedShape, Zenon
    <2>2. loop' = loop /\ pc' = 22 + b /\ ran' = ran /\ stack' = stack
          /\ env' = [env EXCEPT !["cond"] = @ + (-1)]
      BY <1>a, <1>c, <1>22, <2>0, <2>1, DoIncCond
    <2>3. Operands = 0 /\ Operands' = 0 /\ (InBlock <=> b = 1) /\ (InBlock' <=> b = 1)
      BY <1>c, <1>22, <2>2 DEF Operands, InBlock
    <2>4. Len(stack) = 0
      BY <1>h, <2>3
    <2>5. /\ env' \in [i : Int, cond : Int, iter : Int] /\ env'.cond = env.cond + (-1)
          /\ env'.i = env.i /\ env'.iter = env.iter /\ Passed' = Passed
      <3>1. /\ env' \in [i : Int, cond : Int, iter : Int] /\ env'.cond = env.cond + (-1)
            /\ env'.i = env.i /\ env'.iter = env.iter
        <4>1. env.cond + (-1) \in Int
          BY <1>b
        <4>2. env' = [env EXCEPT !["cond"] = env.cond + (-1)]
          BY <1>b, <2>2
        <4> QED
          BY <1>b, <4>1, <4>2
      <3>2. Passed' = Passed
        BY <2>2, <2>3 DEF Passed
      <3> QED
        BY <3>1, <3>2
    <2>6. Types'
      <3>1. pc' \in 1..28 + b
        BY <1>c, <2>2
      <3> QED
        BY <1>a, <1>b, <1>d, <2>2, <2>5, <3>1 DEF Types
    <2>7. Height'
      <3>1. Operands' \in Nat /\ Len(stack') = Operands'
        BY <2>2, <2>3, <2>4, <2>5
      <3> QED
        BY <1>h, <2>2, <3>1, NoneLeft
    <2>8. InSteps'
      BY <1>b, <1>c, <1>f, <1>g, <1>22, <2>2, <2>3, <2>5 DEF InSteps
    <2>9. Variables'
      BY <1>a, <1>b, <1>c, <1>f, <1>22, <2>2, <2>3, <2>5 DEF Variables
    <2>10. Calculation'
      <3>1. CASE b = 0
        <4>1. pc' = 22 /\ Step(loop') = 21
          BY <1>c, <2>2, <3>1
        <4> QED
          BY <4>1 DEF Calculation
      <3>2. CASE b = 1
        <4>1. pc' = 23 /\ Step(loop') = 22
          BY <1>c, <2>2, <3>2
        <4> QED
          BY <4>1 DEF Calculation
      <3> QED
        BY <3>1, <3>2
    <2>11. Kept(loop) = 1 \/ Good(loop) => CountedState'
      <3> SUFFICES ASSUME Kept(loop) = 1 \/ Good(loop)
                   PROVE  CountedState'
        OBVIOUS
      <3>1. b = 1 /\ env.cond = Count(loop) - Passed
        BY <1>22, <1>c, <1>f DEF CountedState
      <3>2. Passed = Len(ran) - 1
        BY <2>3, <3>1 DEF Passed
      <3>3. env'.cond = Count(loop) - Len(ran) /\ pc' = 23 /\ Step(loop) = 22
        BY <1>c, <1>g, <1>i, <2>2, <2>5, <3>1, <3>2
      <3> QED
        BY <2>2, <3>1, <3>3 DEF CountedState
    <2> QED
      BY <2>2, <2>6, <2>7, <2>8, <2>9, <2>10, <2>11 DEF LoopInv
  <1>23. CASE pc = Step(loop) + 1
    <2>0. pc \in 1..Len(Code(loop))
      BY <1>c, <1>d, <1>e, <1>23
    <2>1. Code(loop)[pc] = I("load", "i")
      BY <1>a, <1>23, CountedShape, Zenon
    <2>2. loop' = loop /\ pc' = 23 + b /\ env' = env /\ ran' = ran
          /\ stack' = Push(stack, env.i)
      BY <1>a, <1>c, <1>23, <2>0, <2>1, DoLoad
    <2>3. Operands = 0 /\ Operands' = 1 /\ (InBlock <=> b = 1) /\ (InBlock' <=> b = 1)
      BY <1>c, <1>23, <2>2 DEF Operands, InBlock
    <2>4. Len(stack) = 0
      BY <1>h, <2>3
    <2>5. /\ stack' \in Seq(Int) /\ Len(stack') = 1 /\ Top' = env.i
          /\ Passed' = Passed
      <3>1. /\ stack' \in Seq(Int) /\ Len(stack') = Len(stack) + 1 /\ Top' = env.i
            /\ Len(stack) >= 1 => Second' = stack[Len(stack)]
        BY <1>a, <1>b, <2>2, PushTop
      <3>2. Passed' = Passed
        BY <2>2, <2>3 DEF Passed
      <3> QED
        BY <2>4, <3>1, <3>2 DEF Top
    <2>6. Types'
      <3>1. pc' \in 1..28 + b
        BY <1>c, <2>2
      <3> QED
        BY <1>a, <1>b, <1>d, <2>2, <2>5, <3>1 DEF Types
    <2>7. Height'
      <3>1. Operands' \in Nat /\ Len(stack') = Operands'
        BY <2>2, <2>3, <2>4, <2>5
      <3> QED
        BY <1>h, <2>2, <3>1, NoneLeft
    <2>8. InSteps'
      BY <1>b, <1>c, <1>f, <1>g, <1>23, <2>2, <2>3, <2>5 DEF InSteps
    <2>9. Variables'
      BY <1>a, <1>b, <1>c, <1>f, <1>23, <2>2, <2>3, <2>5 DEF Variables
    <2>10. Calculation'
      BY <1>b, <1>c, <1>f, <1>23, <2>2, <2>5 DEF Calculation, Variables
    <2>11. Kept(loop) = 1 \/ Good(loop) => CountedState'
      BY <1>b, <1>c, <1>f, <1>g, <1>23, <2>2, <2>3, <2>5 DEF CountedState
    <2> QED
      BY <2>2, <2>6, <2>7, <2>8, <2>9, <2>10, <2>11 DEF LoopInv
  <1>24. CASE pc = Step(loop) + 2
    <2>0. pc \in 1..Len(Code(loop))
      BY <1>c, <1>d, <1>e, <1>24
    <2>1. Code(loop)[pc] = I("load", "iter")
      BY <1>a, <1>24, CountedShape, Zenon
    <2>2. loop' = loop /\ pc' = 24 + b /\ env' = env /\ ran' = ran
          /\ stack' = Push(stack, env.iter)
      BY <1>a, <1>c, <1>24, <2>0, <2>1, DoLoad
    <2>3. Operands = 1 /\ Operands' = 2 /\ (InBlock <=> b = 1) /\ (InBlock' <=> b = 1)
      BY <1>c, <1>24, <2>2 DEF Operands, InBlock
    <2>4. Len(stack) = 1
      BY <1>h, <2>3
    <2>5. /\ stack' \in Seq(Int) /\ Len(stack') = 2 /\ Top' = env.iter /\ Second' = Top
          /\ Passed' = Passed
      <3>1. /\ stack' \in Seq(Int) /\ Len(stack') = Len(stack) + 1 /\ Top' = env.iter
            /\ Len(stack) >= 1 => Second' = stack[Len(stack)]
        BY <1>a, <1>b, <2>2, PushTop
      <3>2. Passed' = Passed
        BY <2>2, <2>3 DEF Passed
      <3> QED
        BY <2>4, <3>1, <3>2 DEF Top
    <2>6. Types'
      <3>1. pc' \in 1..28 + b
        BY <1>c, <2>2
      <3> QED
        BY <1>a, <1>b, <1>d, <2>2, <2>5, <3>1 DEF Types
    <2>7. Height'
      <3>1. Operands' \in Nat /\ Len(stack') = Operands'
        BY <2>2, <2>3, <2>4, <2>5
      <3> QED
        BY <1>h, <2>2, <3>1, NoneLeft
    <2>8. InSteps'
      BY <1>b, <1>c, <1>f, <1>g, <1>24, <2>2, <2>3, <2>5 DEF InSteps
    <2>9. Variables'
      BY <1>a, <1>b, <1>c, <1>f, <1>24, <2>2, <2>3, <2>5 DEF Variables
    <2>10. Calculation'
      BY <1>b, <1>c, <1>f, <1>24, <2>2, <2>5 DEF Calculation, Variables
    <2>11. Kept(loop) = 1 \/ Good(loop) => CountedState'
      BY <1>b, <1>c, <1>f, <1>g, <1>24, <2>2, <2>3, <2>5 DEF CountedState
    <2> QED
      BY <2>2, <2>6, <2>7, <2>8, <2>9, <2>10, <2>11 DEF LoopInv
  <1>25. CASE pc = Step(loop) + 3
    <2>0. pc \in 1..Len(Code(loop))
      BY <1>c, <1>d, <1>e, <1>25
    <2>1. Code(loop)[pc] = Plain("iadd")
      BY <1>a, <1>25, CountedShape, Zenon
    <2>2. loop' = loop /\ pc' = 25 + b /\ env' = env /\ ran' = ran
          /\ stack' = Push(Drop(2), Apply("iadd", Second, Top))
      BY <1>a, <1>c, <1>25, <2>0, <2>1, DoOperate
    <2>3. Operands = 2 /\ Operands' = 1 /\ (InBlock <=> b = 1) /\ (InBlock' <=> b = 1)
      BY <1>c, <1>25, <2>2 DEF Operands, InBlock
    <2>4. Len(stack) = 2
      BY <1>h, <2>3
    <2>5. stack' \in Seq(Int) /\ Len(stack') = 1 /\ Top' = (env.i + loop.step) /\ Passed' = Passed
      <3>1. Apply("iadd", Second, Top) = (env.i + loop.step) /\ (env.i + loop.step) \in Int
        <4>1. Second = env.i /\ Top = loop.step
          BY <1>a, <1>b, <1>c, <1>f, <1>25 DEF Calculation, Variables
        <4> QED
          BY <1>a, <1>b, <1>i, <4>1 DEF Apply, Difference, Rounded, Rest, Truth
      <3>2. stack' = Push(Drop(2), (env.i + loop.step))
        BY <2>2, <3>1
      <3>3. stack' \in Seq(Int) /\ Len(stack') = 1 /\ Top' = (env.i + loop.step)
        BY <1>b, <2>4, <3>1, <3>2, OperateTop
      <3>4. Passed' = Passed
        BY <2>2, <2>3 DEF Passed
      <3> QED
        BY <3>3, <3>4
    <2>6. Types'
      <3>1. pc' \in 1..28 + b
        BY <1>c, <2>2
      <3> QED
        BY <1>a, <1>b, <1>d, <2>2, <2>5, <3>1 DEF Types
    <2>7. Height'
      <3>1. Operands' \in Nat /\ Len(stack') = Operands'
        BY <2>2, <2>3, <2>4, <2>5
      <3> QED
        BY <1>h, <2>2, <3>1, NoneLeft
    <2>8. InSteps'
      BY <1>b, <1>c, <1>f, <1>g, <1>25, <2>2, <2>3, <2>5 DEF InSteps
    <2>9. Variables'
      BY <1>a, <1>b, <1>c, <1>f, <1>25, <2>2, <2>3, <2>5 DEF Variables
    <2>10. Calculation'
      BY <1>b, <1>c, <1>f, <1>25, <2>2, <2>5 DEF Calculation
    <2>11. Kept(loop) = 1 \/ Good(loop) => CountedState'
      BY <1>b, <1>c, <1>f, <1>g, <1>25, <2>2, <2>3, <2>5 DEF CountedState
    <2> QED
      BY <2>2, <2>6, <2>7, <2>8, <2>9, <2>10, <2>11 DEF LoopInv
  <1>26. CASE pc = Step(loop) + 4
    <2>0. pc \in 1..Len(Code(loop))
      BY <1>c, <1>d, <1>e, <1>26
    <2>1. Code(loop)[pc] = I("store", "i")
      BY <1>a, <1>26, CountedShape, Zenon
    <2>2. loop' = loop /\ pc' = 26 + b /\ ran' = ran /\ stack' = Drop(1)
          /\ env' = [env EXCEPT !["i"] = Top]
      BY <1>a, <1>c, <1>26, <2>0, <2>1, DoStore
    <2>3. Operands = 1 /\ Operands' = 0 /\ (InBlock <=> b = 1) /\ ~InBlock'
      BY <1>c, <1>26, <2>2 DEF Operands, InBlock
    <2>4. Len(stack) = 1
      BY <1>h, <2>3
    <2>5. /\ stack' \in Seq(Int) /\ Len(stack') = 0 /\ Top \in Int
          /\ env' \in [i : Int, cond : Int, iter : Int] /\ env'.i = Top
          /\ env'.cond = env.cond /\ env'.iter = env.iter
          /\ Passed' = Passed + b /\ Nth(loop, Passed + 1) = Nth(loop, Passed) + loop.step
          /\ Top = env.i + loop.step /\ (Kept(loop) = 1 \/ Good(loop) => b = 1)
      <3>1. stack' \in Seq(Int) /\ Len(stack') = 0 /\ Top \in Int
        BY <1>b, <2>2, <2>4, PopOne
      <3>2. /\ env' \in [i : Int, cond : Int, iter : Int] /\ env'.i = Top
            /\ env'.cond = env.cond /\ env'.iter = env.iter
        BY <1>b, <2>2, <3>1
      <3>3. Passed' = Passed + b /\ Nth(loop, Passed + 1) = Nth(loop, Passed) + loop.step
          /\ Top = env.i + loop.step /\ (Kept(loop) = 1 \/ Good(loop) => b = 1)
        <4>1. Passed' = Passed + b
          BY <1>b, <2>2, <2>3 DEF Passed
        <4>2. Nth(loop, Passed + 1) = Nth(loop, Passed) + loop.step
          BY <1>a, <1>g, Steps
        <4>3. Top = env.i + loop.step
          BY <1>c, <1>f, <1>26 DEF Calculation
        <4>4. Kept(loop) = 1 \/ Good(loop) => b = 1
          BY <1>c, <1>f, <1>26 DEF CountedState
        <4> QED
          BY <4>1, <4>2, <4>3, <4>4
      <3> QED
        BY <3>1, <3>2, <3>3
    <2>6. Types'
      <3>1. pc' \in 1..28 + b
        BY <1>c, <2>2
      <3> QED
        BY <1>a, <1>b, <1>d, <2>2, <2>5, <3>1 DEF Types
    <2>7. Height'
      <3>1. Operands' \in Nat /\ Len(stack') = Operands'
        BY <2>2, <2>3, <2>4, <2>5
      <3> QED
        BY <1>h, <2>2, <3>1, NoneLeft
    <2>8. InSteps'
      BY <1>b, <1>c, <1>f, <1>g, <1>26, <2>2, <2>3, <2>5 DEF InSteps
    <2>9. Variables'
      <3>1. env.iter = loop.step /\ pc' > 2
        BY <1>f, <2>2 DEF Variables
      <3>2. Kept(loop) = 1 \/ Good(loop) => env.i = Nth(loop, Passed)
        BY <1>c, <1>f, <1>26 DEF Variables
      <3>3. Kept(loop) = 1 \/ Good(loop) => env'.i = Nth(loop, Passed')
        BY <2>5, <3>2
      <3> QED
        BY <2>2, <2>5, <3>1, <3>3 DEF Variables
    <2>10. Calculation'
      <3>1. CASE b = 0
        <4>1. pc' = 26 /\ Step(loop') = 21
          BY <1>c, <2>2, <3>1
        <4> QED
          BY <4>1 DEF Calculation
      <3>2. CASE b = 1
        <4>1. pc' = 27 /\ Step(loop') = 22
          BY <1>c, <2>2, <3>2
        <4> QED
          BY <4>1 DEF Calculation
      <3> QED
        BY <3>1, <3>2
    <2>11. Kept(loop) = 1 \/ Good(loop) => CountedState'
      <3> SUFFICES ASSUME Kept(loop) = 1 \/ Good(loop)
                   PROVE  CountedState'
        OBVIOUS
      <3>1. b = 1
        BY <2>5
      <3>2. env.cond = Count(loop) - Len(ran) /\ pc' = 27 /\ Step(loop) = 22
        BY <1>26, <1>c, <1>f, <2>2, <3>1 DEF CountedState
      <3> QED
        BY <2>2, <2>5, <3>1, <3>2 DEF CountedState
    <2> QED
      BY <2>2, <2>6, <2>7, <2>8, <2>9, <2>10, <2>11 DEF LoopInv
  <1>27. CASE pc = Step(loop) + 5
    <2>0. pc \in 1..Len(Code(loop))
      BY <1>c, <1>d, <1>e, <1>27
    <2>1. Code(loop)[pc] = I("jump", "start")
      BY <1>a, <1>27, CountedShape, Zenon
    <2>2. loop' = loop /\ pc' = 16 /\ env' = env /\ ran' = ran /\ stack' = stack
      BY <1>a, <1>c, <1>27, <2>0, <2>1, DoJump
    <2>3. Operands = 0 /\ Operands' = 0 /\ ~InBlock /\ ~InBlock'
      BY <1>c, <1>27, <2>2 DEF Operands, InBlock
    <2>4. Len(stack) = 0
      BY <1>h, <2>3
    <2>5. Passed' = Passed
      BY <2>2, <2>3 DEF Passed
    <2>6. Types'
      <3>1. pc' \in 1..28 + b
        BY <1>c, <2>2
      <3> QED
        BY <1>a, <1>b, <1>d, <2>2, <2>5, <3>1 DEF Types
    <2>7. Height'
      <3>1. Operands' \in Nat /\ Len(stack') = Operands'
        BY <2>2, <2>3, <2>4, <2>5
      <3> QED
        BY <1>h, <2>2, <3>1, NoneLeft
    <2>8. InSteps'
      BY <1>b, <1>c, <1>f, <1>g, <1>27, <2>2, <2>3, <2>5 DEF InSteps
    <2>9. Variables'
      BY <1>a, <1>b, <1>c, <1>f, <1>27, <2>2, <2>3, <2>5 DEF Variables
    <2>10. Calculation'
      BY <1>b, <1>c, <1>f, <1>27, <2>2, <2>5 DEF Calculation
    <2>11. Kept(loop) = 1 \/ Good(loop) => CountedState'
      BY <1>b, <1>c, <1>f, <1>g, <1>27, <2>2, <2>3, <2>5 DEF CountedState
    <2> QED
      BY <2>2, <2>6, <2>7, <2>8, <2>9, <2>10, <2>11 DEF LoopInv
  <1>28. CASE pc = Step(loop) + 6
    <2>0. pc \in 1..Len(Code(loop))
      BY <1>c, <1>d, <1>e, <1>28
    <2>1. Code(loop)[pc] = I("label", "end")
      BY <1>a, <1>28, CountedShape, Zenon
    <2>2. loop' = loop /\ pc' = 28 + b /\ env' = env /\ ran' = ran /\ stack' = stack
      BY <1>a, <1>c, <1>28, <2>0, <2>1, DoLabel
    <2>3. Operands = 0 /\ Operands' = 0 /\ ~InBlock /\ ~InBlock'
      BY <1>c, <1>28, <2>2 DEF Operands, InBlock
    <2>4. Len(stack) = 0
      BY <1>h, <2>3
    <2>5. Passed' = Passed
      BY <2>2, <2>3 DEF Passed
    <2>6. Types'
      <3>1. pc' \in 1..28 + b
        BY <1>c, <2>2
      <3> QED
        BY <1>a, <1>b, <1>d, <2>2, <2>5, <3>1 DEF Types
    <2>7. Height'
      <3>1. Operands' \in Nat /\ Len(stack') = Operands'
        BY <2>2, <2>3, <2>4, <2>5
      <3> QED
        BY <1>h, <2>2, <3>1, NoneLeft
    <2>8. InSteps'
      BY <1>b, <1>c, <1>f, <1>g, <1>28, <2>2, <2>3, <2>5 DEF InSteps
    <2>9. Variables'
      BY <1>a, <1>b, <1>c, <1>f, <1>28, <2>2, <2>3, <2>5 DEF Variables
    <2>10. Calculation'
      BY <1>b, <1>c, <1>f, <1>28, <2>2, <2>5 DEF Calculation
    <2>11. Kept(loop) = 1 \/ Good(loop) => CountedState'
      BY <1>b, <1>c, <1>f, <1>g, <1>28, <2>2, <2>3, <2>5 DEF CountedState
    <2> QED
      BY <2>2, <2>6, <2>7, <2>8, <2>9, <2>10, <2>11 DEF LoopInv
  <1>29. CASE pc = Step(loop) + 7
    <2>1. Halted
      BY <1>c, <1>d, <1>29 DEF Halted
    <2>2. UNCHANGED vars
      BY <2>1 DEF Next, Load, Store, Operate, Increment, Branch, Jump, RunBody, Terminated, At
    <2> QED
      BY <2>2, SameLoop
  <1>30. \/ pc \in {1, 2, 3, 4, 5, 6, 7, 8, 9, 10, 11, 12, 13, 14, 15, 16, 17, 18, 19, 20}
        \/ (b = 1 /\ pc = 21)
        \/ pc = Step(loop) \/ pc = Step(loop) + 1 \/ pc = Step(loop) + 2 \/ pc = Step(loop) + 3
        \/ pc = Step(loop) + 4 \/ pc = Step(loop) + 5 \/ pc = Step(loop) + 6 \/ pc = Step(loop) + 7
    <2>1. b \in {0, 1} /\ pc \in 1..28 + b
      BY <1>e
    <2>2. CASE pc \in 1..20
      <3>1. CASE pc \in 1..10
        BY <3>1
      <3>2. CASE pc \in 11..20
        BY <3>2
      <3> QED
        BY <2>2, <3>1, <3>2
    <2>3. CASE pc \notin 1..20 /\ b = 0
      <3>1. pc \in 21..28
        BY <2>1, <2>3
      <3> QED
        BY <1>c, <2>3, <3>1
    <2>4. CASE pc \notin 1..20 /\ b = 1
      <3>1. pc \in 21..29
        BY <2>1, <2>4
      <3> QED
        BY <1>c, <2>4, <3>1
    <2> QED
      BY <2>1, <2>2, <2>3, <2>4
  <1> QED
    BY <1>1, <1>2, <1>3, <1>4, <1>5, <1>6, <1>7, <1>8, <1>9, <1>10, <1>11,
       <1>12, <1>13, <1>14, <1>15, <1>16, <1>17, <1>18, <1>19, <1>20, <1>21,
       <1>22, <1>23, <1>24, <1>25, <1>26, <1>27, <1>28, <1>29, <1>30

LEMMA LoopStep ==
    ASSUME LoopInv, [Next]_vars
    PROVE  LoopInv'
  <1>1. CASE UNCHANGED vars
    BY <1>1, SameLoop
  <1>2. CASE Next
    <2>1. Kept(loop) \in 0..1 /\ Left(loop) \in 0..1
      BY DEF Kept, Left
    <2>2. CASE Tested(loop)
      BY <1>2, <2>1, <2>2, TestedStep
    <2>3. CASE ~Tested(loop)
      BY <1>2, <2>1, <2>3, CountedStep
    <2> QED
      BY <2>2, <2>3
  <1> QED
    BY <1>1, <1>2

LEMMA LoopStart ==
    ASSUME Init
    PROVE  LoopInv
  <1>1. /\ loop \in Loops /\ loop \in Loop /\ pc = 1 /\ ran = <<>> /\ stack = <<>>
        /\ env = [i |-> 0, cond |-> loop.stop, iter |-> loop.step]
    BY LoopAssumption DEF Init
  <1>2. /\ Len(Code(loop)) \in Nat /\ Step(loop) \in 8..22
        /\ Tested(loop) => Step(loop) <= 10
    BY <1>1, Lengths
  <1>0. Step(loop) \in Int /\ Step(loop) >= 8
    BY <1>2
  <1>3. loop.stop \in Int /\ loop.step \in Int
    BY <1>1 DEF Loop
  <1>4. ~InBlock /\ Passed = 0 /\ Operands = 0
    <2>1. ~InBlock
      BY <1>1, <1>2 DEF InBlock
    <2>2. Passed = 0
      BY <1>1, <2>1 DEF Passed
    <2>3. Operands = 0
      <3>1. pc = 1 /\ pc # Step(loop) + 2 /\ pc # Step(loop) + 3 /\ pc # Step(loop) + 4
        BY <1>0, <1>1
      <3> QED
        BY <3>1 DEF Operands
    <2> QED
      BY <2>1, <2>2, <2>3
  <1>5. Types
    BY <1>1, <1>2, <1>3 DEF Types
  <1>6. Height /\ InSteps /\ Variables
    BY <1>1, <1>4 DEF Height, InSteps, Variables
  <1>7. Calculation
    <2>1. pc = 1 /\ pc # Step(loop) + 2 /\ pc # Step(loop) + 3 /\ pc # Step(loop) + 4
      BY <1>0, <1>1
    <2> QED
      BY <1>1, <2>1 DEF Calculation
  <1>8. Tested(loop) => TestedState
    BY <1>1, <1>2 DEF TestedState
  <1>9. CountedState
    BY <1>1, <1>2 DEF CountedState
  <1> QED
    BY <1>5, <1>6, <1>7, <1>8, <1>9 DEF LoopInv

\* Every reachable state satisfies the invariant, for all loops.
THEOREM LoopInvariant == Spec => []LoopInv
  <1>1. Init => LoopInv
    BY LoopStart
  <1>2. LoopInv /\ [Next]_vars => LoopInv'
    BY LoopStep
  <1> QED
    BY <1>1, <1>2, PTL DEF Spec

\* Where the loop is over, or tested once more
LEMMA Ends ==
    ASSUME LoopInv
    PROVE  /\ Halted <=> pc = IF Tested(loop) THEN Step(loop) + 3 ELSE Step(loop) + 7
           /\ Halted => Operands = 0
           /\ At({"label"}) /\ Arg = "start" =>
                 pc = (IF Tested(loop) THEN 3 ELSE 16) /\ Operands = 0
  <1>1. loop \in Loop /\ pc \in 1..Len(Code(loop)) + 1
    BY LoopAssumption DEF LoopInv, Types
  <1>2. /\ Tested(loop) => Step(loop) \in 8..10 /\ Len(Code(loop)) = Step(loop) + 2
        /\ ~Tested(loop) => Step(loop) \in 21..22 /\ Len(Code(loop)) = Step(loop) + 6
    BY <1>1, Lengths
  <1>3. Halted <=> pc = IF Tested(loop) THEN Step(loop) + 3 ELSE Step(loop) + 7
    BY <1>1, <1>2 DEF Halted
  <1>4. Halted => Operands = 0
    <2>1. CASE Tested(loop)
      <3>1. Halted => pc \in 11..13
        BY <1>2, <1>3, <2>1
      <3> QED
        BY <2>1, <3>1 DEF Operands
    <2>2. CASE ~Tested(loop)
      <3>1. Halted => (pc = 28 /\ Step(loop) = 21) \/ (pc = 29 /\ Step(loop) = 22)
        BY <1>2, <1>3, <2>2
      <3>2. ASSUME pc = 28, Step(loop) = 21
            PROVE  Operands = 0
        BY <2>2, <3>2 DEF Operands
      <3>3. ASSUME pc = 29, Step(loop) = 22
            PROVE  Operands = 0
        BY <2>2, <3>3 DEF Operands
      <3> QED
        BY <3>1, <3>2, <3>3
    <2> QED
      BY <2>1, <2>2
  <1>5. ASSUME At({"label"}), Arg = "start"
        PROVE  pc = IF Tested(loop) THEN 3 ELSE 16
    <2>1. pc \in 1..Len(Code(loop)) /\ Code(loop)[pc].op = "label"
      BY <1>1, <1>2, <1>5 DEF At, Halted
    <2>2. pc \in IF Tested(loop) THEN {3, Step(loop) + 2} ELSE {16, Step(loop) + 6}
      BY <1>1, <2>1, Places
    <2>3. Tested(loop) => Code(loop)[Step(loop) + 2].arg # "start"
      <3>1. Tested(loop) => Code(loop)[Step(loop) + 2] = I("label", "end")
        BY <1>1, TestedShape, Zenon
      <3> QED
        BY <3>1 DEF I
    <2>4. ~Tested(loop) => Code(loop)[Step(loop) + 6].arg # "start"
      <3>1. ~Tested(loop) => Code(loop)[Step(loop) + 6] = I("label", "end")
        BY <1>1, CountedShape, Zenon
      <3> QED
        BY <3>1 DEF I
    <2> QED
      BY <1>5, <2>2, <2>3, <2>4 DEF Arg
  <1>6. pc = (IF Tested(loop) THEN 3 ELSE 16) => Operands = 0
    BY <1>2 DEF Operands
  <1> QED
    BY <1>3, <1>4, <1>5, <1>6

\* Whatever the loop, nothing is left on the stack when an iteration begins or
\* the loop is over, but one operand for each time the body has run if the step
\* is an explicit 1 or -1 (CG_CGforloop).
THEOREM BalancedStack == Spec => []StackBalanced
  <1>1. ASSUME LoopInv, Halted \/ (At({"label"}) /\ Arg = "start"),
               Explicit(loop) => ~DropsBlock(loop)
        PROVE  Len(stack) = IF Explicit(loop) THEN Len(ran) ELSE 0
    <2>1. Operands = 0 /\ Len(ran) \in Nat
      BY <1>1, Ends DEF LoopInv, Types
    <2>2. CASE ~Explicit(loop)
      BY <1>1, <2>1, <2>2 DEF LoopInv, Height, Left
    <2>3. CASE Explicit(loop)
      <3>1. Tested(loop) /\ Left(loop) = 1 /\ Kept(loop) = 1
        BY <1>1, <2>3 DEF Explicit, Tested, Left, Kept
      <3>2. pc # 9
        <4>1. loop \in Loop
          BY <1>1, LoopAssumption DEF LoopInv, Types
        <4>2. Step(loop) = 10
          BY <3>1, <4>1, Lengths
        <4> QED
          BY <1>1, <3>1, <4>2, Ends
      <3>3. Len(stack) = 0 + Len(ran)
        BY <1>1, <2>1, <3>1, <3>2 DEF LoopInv, Height
      <3> QED
        BY <2>1, <2>3, <3>3
    <2> QED
      BY <2>2, <2>3
  <1>2. LoopInv => StackBalanced
    BY <1>1 DEF StackBalanced
  <1> QED
    BY <1>2, LoopInvariant, PTL

-----------------------------------------------------------------------------
(* The loop as the language means it                                       *)

\* A step of 1 or -1 in a variable is counted right.
LEMMA UnitsCount ==
    ASSUME NEW l \in Loop, l.step \in {1, -1}
    PROVE  CountsRight(l)
  <1>1. l.start \in Int /\ l.stop \in Int /\ Difference(l) = l.stop - l.start
    BY DEF Loop, Difference
  <1>2. \A n \in Int : n \div 1 = n
    OBVIOUS
  <1>3. CASE l.step = 1
    <2>1. \A n \in Int : Quotient(n, 1) = n
      BY <1>2 DEF Quotient, Abs
    <2>2. Rounded(l) = Difference(l) /\ Rest(l) = 0
      BY <1>1, <1>3, <2>1 DEF Rounded, Rest
    <2>3. Count(l) = l.stop - l.start
      BY <1>1, <2>2 DEF Count
    <2>4. \A k \in Nat : Nth(l, k) = l.start + k
      BY <1>1, <1>3 DEF Nth
    <2> QED
      BY <1>1, <1>3, <2>3, <2>4 DEF CountsRight, Continues
  <1>4. CASE l.step = -1
    <2>1. \A n \in Int : Quotient(n, -1) = -n
      BY <1>2 DEF Quotient, Abs
    <2>2. Rounded(l) = -Difference(l) /\ Rest(l) = 0
      BY <1>1, <1>4, <2>1 DEF Rounded, Rest
    <2>3. Count(l) = l.start - l.stop
      BY <1>1, <2>2 DEF Count
    <2>4. \A k \in Nat : Nth(l, k) = l.start - k
      BY <1>1, <1>4 DEF Nth
    <2> QED
      BY <1>1, <1>4, <2>3, <2>4 DEF CountsRight, Continues
  <1> QED
    BY <1>3, <1>4

\* The loops compiled as the language means: the optimiser drops the block
\* only of loops that never run, and a step in a variable is 1 or -1.
AsMeant(l) == /\ DropsBlock(l) => ~Continues(l, l.start)
              /\ l.stepForm = "variable" => l.step \in {1, -1}

\* At the end of the code the loop would not go on.
EndsRight == Good(loop) /\ Halted => ~Continues(loop, Nth(loop, Len(ran)))

LEMMA AtTheEnd ==
    ASSUME LoopInv
    PROVE  EndsRight
  <1> SUFFICES ASSUME Good(loop), Halted
               PROVE  ~Continues(loop, Nth(loop, Len(ran)))
    BY DEF EndsRight
  <1>1. loop \in Loop /\ Len(ran) \in Nat /\ env.cond \in Int
    BY LoopAssumption DEF LoopInv, Types
  <1>2. /\ Tested(loop) => Step(loop) \in 8..10
        /\ ~Tested(loop) => Step(loop) \in 21..22
    BY <1>1, Lengths
  <1>3. pc = IF Tested(loop) THEN Step(loop) + 3 ELSE Step(loop) + 7
    BY Ends
  <1>4. Passed = Len(ran)
    BY <1>2, <1>3 DEF Passed, InBlock
  <1>5. CASE Tested(loop)
    BY <1>2, <1>3, <1>4, <1>5 DEF LoopInv, TestedState, GoesOn
  <1>6. CASE ~Tested(loop)
    <2>1. env.cond <= 0 /\ env.cond = Count(loop) - Len(ran)
      BY <1>2, <1>3, <1>4, <1>6 DEF LoopInv, CountedState
    <2>2. Count(loop) \in Int
      BY <1>1, Numbers
    <2>3. ~(Len(ran) < Count(loop))
      BY <1>1, <2>1, <2>2
    <2> QED
      BY <1>1, <1>6, <2>3 DEF Good, CountsRight
  <1> QED
    BY <1>5, <1>6

\* When the body runs, the loop goes on with the value of the variable.
LEMMA BodyRight ==
    ASSUME LoopInv, Good(loop), RunBody
    PROVE  /\ env.i = Nth(loop, Len(ran)) /\ Continues(loop, Nth(loop, Len(ran)))
           /\ ~Halted /\ ~Halted'
  <1>1. /\ loop \in Loop /\ Len(ran) \in Nat /\ pc \in 1..Len(Code(loop)) + 1
    BY LoopAssumption DEF LoopInv, Types
  <1>2. /\ Kept(loop) = 1 /\ Tested(loop) => Step(loop) \in 9..10 /\ Len(Code(loop)) = Step(loop) + 2
        /\ Kept(loop) = 1 /\ ~Tested(loop) => Step(loop) = 22 /\ Len(Code(loop)) = Step(loop) + 6
    BY <1>1, Lengths
  <1>3. ~Halted /\ Code(loop)[pc].op = "body"
    BY DEF RunBody, At
  <1>4. pc \in 1..Len(Code(loop))
    BY <1>1, <1>3 DEF Halted
  <1>5. Kept(loop) = 1 /\ pc = IF Tested(loop) THEN 8 ELSE 21
    BY <1>1, <1>3, <1>4, Places
  <1>6. Passed = Len(ran)
    BY <1>2, <1>5 DEF Passed, InBlock
  <1>7. env.i = Nth(loop, Len(ran))
    BY <1>5, <1>6 DEF LoopInv, Variables
  <1>8. Continues(loop, Nth(loop, Len(ran)))
    <2>1. CASE Tested(loop)
      <3>1. TestedState /\ pc \in 8..Step(loop)
        BY <1>2, <1>5, <2>1 DEF LoopInv
      <3> QED
        BY <1>6, <3>1 DEF TestedState, GoesOn
    <2>2. CASE ~Tested(loop)
      <3>1. Len(ran) < Count(loop)
        BY <1>2, <1>5, <1>6, <2>2 DEF LoopInv, CountedState
      <3> QED
        BY <1>1, <2>2, <3>1 DEF Good, CountsRight
    <2> QED
      BY <2>1, <2>2
  <1>10. ~Halted'
    <2>1. loop' = loop /\ pc' = pc + 1
      BY DEF RunBody
    <2> QED
      BY <1>2, <1>5, <2>1 DEF Halted
  <1> QED
    BY <1>3, <1>7, <1>8, <1>10

\* The code of these loops runs the body with start, start + step and so on,
\* each once and in this order, and ends only where the language ends the loop.
THEOREM RunsAsMeant ==
    ASSUME \A l \in Loops : AsMeant(l)
    PROVE  Spec => Meant!LoopSafety
  <1>1. ASSUME Init
        PROVE  Meant!LoopInit
    <2>1. LoopInv
      BY <1>1, LoopStart
    <2>2. loop \in Loop /\ pc = 1
      BY <1>1, LoopAssumption DEF Init
    <2>3. Step(loop) \in 8..22
      BY <2>2, Lengths
    <2>4. Halted = FALSE
      BY <2>1, <2>2, <2>3, Ends DEF Halted
    <2> QED
      BY <1>1, <2>4 DEF Init, Meant!LoopInit
  <1>2. ASSUME LoopInv, EndsRight', [Next]_vars
        PROVE  [Meant!LoopNext]_(Meant!loopVars)
    <2>1. loop \in Loop /\ Good(loop)
      <3>1. loop \in Loops /\ loop \in Loop
        BY <1>2, LoopAssumption DEF LoopInv, Types
      <3> QED
        BY <3>1, UnitsCount DEF AsMeant, Good, Tested
    <2>2. Meant!Value = Nth(loop, Len(ran))
      BY DEF Meant!Value, Nth
    <2>2a. Meant!Continues(loop, Meant!Value) = Continues(loop, Nth(loop, Len(ran)))
      BY <2>2 DEF Meant!Continues, Continues
    <2>3. CASE RunBody
      <3>1. /\ env.i = Nth(loop, Len(ran)) /\ Continues(loop, Nth(loop, Len(ran)))
            /\ ~Halted /\ ~Halted'
        BY <1>2, <2>1, <2>3, BodyRight
      <3>2. Halted' = Halted /\ loop' = loop /\ ran' = Append(ran, env.i)
        BY <2>3, <3>1 DEF RunBody, Halted
      <3>3. Meant!Run
        BY <2>2, <2>2a, <3>1, <3>2 DEF Meant!Run
      <3> QED
        BY <3>3 DEF Meant!LoopNext
    <2>4. CASE ~RunBody
      <3>1. loop' = loop /\ ran' = ran
        BY <1>2, <2>4 DEF Next, vars, Load, Store, Operate, Increment, Branch, Jump, Terminated
      <3>2. CASE Halted
        <4>1. UNCHANGED vars
          BY <1>2, <3>2 DEF Next, Load, Store, Operate, Increment, Branch, Jump, RunBody,
                            Terminated, At
        <4> QED
          BY <4>1 DEF vars, Meant!loopVars, Halted
      <3>3. CASE ~Halted /\ ~Halted'
        <4>1. Halted' = Halted
          BY <3>3 DEF Halted
        <4> QED
          BY <3>1, <4>1 DEF Meant!loopVars
      <3>4. CASE ~Halted /\ Halted'
        <4>1. Good(loop')
          BY <2>1, <3>1
        <4>2. ~Continues(loop, Nth(loop, Len(ran)))
          BY <1>2, <3>1, <3>4, <4>1 DEF EndsRight
        <4>3. Halted' = TRUE
          BY <3>4 DEF Halted
        <4>4. Meant!End
          BY <2>2a, <3>1, <3>4, <4>2, <4>3 DEF Meant!End
        <4> QED
          BY <4>4 DEF Meant!LoopNext
      <3> QED
        BY <3>2, <3>3, <3>4
    <2> QED
      BY <2>3, <2>4
  <1>3. LoopInv => EndsRight
    BY AtTheEnd
  <1> QED
    BY <1>1, <1>2, <1>3, LoopInvariant, PTL DEF Spec, Meant!LoopSafety

=============================================================================
