------------------------ MODULE StackMachineProofs ------------------------
(***************************************************************************)
(* What one look at the code tells holds of every run: for all programs    *)
(* that pass Verified, however deep their calls are, the static links lead *)
(* to the functions around the called one, and every function returns with *)
(* a balanced stack.                                                       *)
(***************************************************************************)
EXTENDS StackMachine, SequenceTheorems, TLAPS

Frame ==
  [fun : DOMAIN prog.up, chain : Seq(Nat), locals : Seq(Int), stack : Seq(Int),
   marks : Seq(Seq(Nat)), ret : Nat]

Names == {prog.externs[j].name : j \in DOMAIN prog.externs} \cup {"main"}

Types ==
  /\ frames \in Seq(Frame)
  /\ globals \in Seq(Int) /\ heap \in Seq(Seq(Int))
  /\ out \in Seq([fun : Names, args : Seq(Int)])

\* Where the function of a frame goes on, and how many operands it will get
\* from the frame above first.
Place(k) == IF k = Depth THEN pc ELSE frames[k + 1].ret
Owed(k) == IF k = Depth THEN 0 ELSE prog.value[frames[k + 1].fun]

\* What is noted for a call is what the instruction that opened it notes.
MarkFits(f, k, j, opened) ==
  /\ prog.code[opened].op \in Opens
  /\ prog.owner[opened] = f.fun
  /\ f.marks[j] = Links(prog.code[opened], k, f.chain)

\* The k-th frame f is as the stack map says for the place at where it goes on.
Fits(f, k, at, owed) ==
  /\ at \in DOMAIN prog.code
  /\ prog.owner[at] = f.fun
  /\ Len(f.stack) + owed = prog.map[at].height
  /\ Len(f.marks) = Len(prog.map[at].calls)
  /\ \A j \in 1..Len(f.marks) : MarkFits(f, k, j, prog.map[at].calls[j])

FrameFits(k) == Fits(frames[k], k, Place(k), Owed(k))

Inv ==
  /\ IsProgram(prog) /\ Verified(prog)
  /\ Types
  /\ \A k \in 1..Depth : FrameFits(k)
  /\ FramesLinked

---------------------------------------------------------------------------
\* The first and the last elements of a sequence.
LEMMA Firsts ==
  ASSUME NEW S, NEW s \in Seq(S), NEW n \in Nat, n <= Len(s)
  PROVE  /\ SubSeq(s, 1, n) \in Seq(S) /\ Len(SubSeq(s, 1, n)) = n
         /\ \A i \in 1..n : SubSeq(s, 1, n)[i] = s[i]
<1>1. Len(s) \in Nat /\ \A i \in 1..n : s[i] \in S
  BY LenProperties, ElementOfSeq
<1> QED
  BY <1>1, SubSeqProperties

LEMMA Lasts ==
  ASSUME NEW S, NEW s \in Seq(S), NEW m \in 1..(Len(s) + 1)
  PROVE  /\ SubSeq(s, m, Len(s)) \in Seq(S)
         /\ Len(SubSeq(s, m, Len(s))) = Len(s) - m + 1
         /\ \A i \in 1..(Len(s) - m + 1) : SubSeq(s, m, Len(s))[i] = s[m + i - 1]
<1>1. Len(s) \in Nat /\ \A i \in m..Len(s) : s[i] \in S
  BY LenProperties, ElementOfSeq
<1> QED
  BY <1>1, SubSeqProperties

\* What is known of the current frame and of the instruction.
LEMMA Current ==
  ASSUME Inv, ~Halted
  PROVE  /\ Depth \in Nat \ {0} /\ DOMAIN frames = 1..Depth /\ Cur \in Frame
         /\ \A k \in 1..Depth : frames[k] \in Frame
         /\ pc \in DOMAIN prog.code /\ pc \in Nat
         /\ prog.owner[pc] = Cur.fun
         /\ Len(Cur.stack) = prog.map[pc].height
         /\ Len(Cur.marks) = Len(prog.map[pc].calls)
         /\ prog.map[pc].height \in Nat /\ prog.map[pc].calls \in Seq(DOMAIN prog.code)
         /\ Instr.n \in Int /\ Instr.i \in Nat
         /\ StepFits(prog, pc)
<1>1. /\ Depth \in Nat \ {0} /\ DOMAIN frames = 1..Depth
      /\ \A k \in 1..Depth : frames[k] \in Frame
  BY EmptySeq, LenProperties, ElementOfSeq DEF Inv, Types, Halted, Depth
<1>2. Cur \in Frame
  BY <1>1 DEF Cur
<1>3. FrameFits(Depth) /\ Place(Depth) = pc /\ Owed(Depth) = 0
  BY <1>1 DEF Inv, Place, Owed
<1>4. Len(Cur.stack) \in Nat
  BY <1>2, LenProperties DEF Frame
<1>5. /\ pc \in DOMAIN prog.code /\ prog.owner[pc] = Cur.fun
      /\ Len(Cur.stack) = prog.map[pc].height
      /\ Len(Cur.marks) = Len(prog.map[pc].calls)
  BY <1>3, <1>4 DEF FrameFits, Fits, Cur
<1>6. /\ prog.map[pc].height \in Nat /\ prog.map[pc].calls \in Seq(DOMAIN prog.code)
      /\ pc \in Nat /\ Instr.n \in Int /\ Instr.i \in Nat
  BY <1>5 DEF Inv, IsProgram, Instr
<1>7. StepFits(prog, pc)
  BY <1>5 DEF Inv, Verified
<1> QED
  BY <1>1, <1>2, <1>5, <1>6, <1>7

\* The operands of the current frame.
LEMMA Operands ==
  ASSUME Inv, ~Halted, NEW n \in Nat, Has(n)
  PROVE  /\ Without(n) \in Seq(Int) /\ Len(Without(n)) = Len(Cur.stack) - n
         /\ Arguments(n) \in Seq(Int) /\ Len(Arguments(n)) = n
         /\ \A d \in Nat : d < n => Operand(d) \in Int
<1> DEFINE s == Cur.stack
<1>1. s \in Seq(Int) /\ Len(s) \in Nat /\ \A i \in 1..Len(s) : s[i] \in Int
  BY Current, LenProperties, ElementOfSeq DEF Frame
<1>2. n <= Len(s) /\ Len(s) - n \in Nat /\ Len(s) - n <= Len(s) /\ Len(s) - n + 1 \in 1..(Len(s) + 1)
  BY <1>1 DEF Has
<1>3. Without(n) \in Seq(Int) /\ Len(Without(n)) = Len(s) - n
  <2> HIDE DEF s
  <2>1. SubSeq(s, 1, Len(s) - n) \in Seq(Int) /\ Len(SubSeq(s, 1, Len(s) - n)) = Len(s) - n
    BY <1>1, <1>2, Firsts
  <2> QED
    BY <2>1 DEF Without, s
<1>4. Arguments(n) \in Seq(Int) /\ Len(Arguments(n)) = n
  <2> HIDE DEF s
  <2>1. /\ SubSeq(s, Len(s) - n + 1, Len(s)) \in Seq(Int)
        /\ Len(SubSeq(s, Len(s) - n + 1, Len(s))) = Len(s) - (Len(s) - n + 1) + 1
    BY <1>1, <1>2, Lasts
  <2> QED
    BY <2>1, <1>1, <1>2, SMTT(30) DEF Arguments, s
<1>5. ASSUME NEW d \in Nat, d < n PROVE Operand(d) \in Int
  BY <1>1, <1>2, <1>5 DEF Operand
<1> QED
  BY <1>3, <1>4, <1>5

---------------------------------------------------------------------------
\* Leads for any frames.
LeadsIn(fs, chain, f, before) ==
  /\ Len(chain) = Len(prog.up[f])
  /\ \A j \in DOMAIN chain :
       /\ chain[j] \in 1..before
       /\ fs[chain[j]].fun = prog.up[f][j]
       /\ fs[chain[j]].chain = SubSeq(chain, j + 1, Len(chain))

LEMMA LinkedThen ==
  ASSUME prog' = prog, frames' \in Seq(Frame),
         \A k \in 1..Depth' : LeadsIn(frames', frames'[k].chain, frames'[k].fun, k - 1)
  PROVE  FramesLinked'
<1>1. DOMAIN frames' = 1..Depth'
  BY LenProperties DEF Depth
<1> SUFFICES ASSUME NEW k \in 1..Depth'
             PROVE  Leads(frames[k].chain, frames[k].fun, k - 1)'
  BY <1>1 DEF FramesLinked
<1>2. LeadsIn(frames', frames'[k].chain, frames'[k].fun, k - 1)
  OBVIOUS
<1> QED
  BY <1>2, Zenon DEF LeadsIn, Leads

\* Whom a frame leads to depends on the functions and static links of it and
\* of the frames below alone.
LEMMA LeadsKept ==
  ASSUME Inv, prog' = prog, NEW k \in 1..Depth,
         \A j \in 1..k : /\ frames'[j].fun = frames[j].fun
                        /\ frames'[j].chain = frames[j].chain
  PROVE  LeadsIn(frames', frames'[k].chain, frames'[k].fun, k - 1)
<1>1. Depth \in Nat /\ DOMAIN frames = 1..Depth
  BY LenProperties DEF Inv, Types, Depth
<1>2. Leads(frames[k].chain, frames[k].fun, k - 1)
  BY <1>1 DEF Inv, FramesLinked
<1>3. \A j \in DOMAIN frames[k].chain :
        /\ frames'[frames[k].chain[j]].fun = frames[frames[k].chain[j]].fun
        /\ frames'[frames[k].chain[j]].chain = frames[frames[k].chain[j]].chain
  <2> TAKE j \in DOMAIN frames[k].chain
  <2>1. frames[k].chain[j] \in 1..(k - 1)
    BY <1>2 DEF Leads
  <2>2. frames[k].chain[j] \in 1..k
    BY <1>1, <2>1
  <2> QED
    BY <2>2
<1>4. frames'[k].fun = frames[k].fun /\ frames'[k].chain = frames[k].chain
  BY <1>1
<1>5. \A j \in DOMAIN frames[k].chain :
        /\ frames[k].chain[j] \in 1..(k - 1)
        /\ frames'[frames[k].chain[j]].fun = prog.up[frames[k].fun][j]
        /\ frames'[frames[k].chain[j]].chain = SubSeq(frames[k].chain, j + 1, Len(frames[k].chain))
  BY <1>2, <1>3 DEF Leads
<1>6. Len(frames[k].chain) = Len(prog.up[frames[k].fun])
  BY <1>2 DEF Leads
<1> QED
  BY <1>4, <1>5, <1>6, Zenon DEF LeadsIn

LEMMA LinkedKept ==
  ASSUME Inv, prog' = prog, frames' \in Seq(Frame), Depth' <= Depth,
         \A k \in 1..Depth' : /\ frames'[k].fun = frames[k].fun
                              /\ frames'[k].chain = frames[k].chain
  PROVE  FramesLinked'
<1>1. Depth \in Nat /\ Depth' \in Nat
  BY LenProperties DEF Inv, Types, Depth
<1>2. \A k \in 1..Depth' : LeadsIn(frames', frames'[k].chain, frames'[k].fun, k - 1)
  BY <1>1, LeadsKept
<1> QED
  BY <1>2, LinkedThen

(***************************************************************************)
(* A step within a function: the static links, the noted calls and the     *)
(* frames below stay, and the stack is as the stack map says for the next  *)
(* instruction.                                                            *)
(***************************************************************************)
LEMMA InnerStep ==
  ASSUME Inv, ~Halted, prog' = prog, Types', Depth' = Depth,
         \A k \in 1..Depth : /\ frames'[k].fun = frames[k].fun
                             /\ frames'[k].chain = frames[k].chain
                             /\ frames'[k].marks = frames[k].marks
                             /\ frames'[k].ret = frames[k].ret,
         \A k \in 1..(Depth - 1) : frames'[k].stack = frames[k].stack,
         Goes(prog, pc, pc', Len(frames'[Depth].stack), prog.map[pc].calls)
  PROVE  Inv'
<1>1. Depth \in Nat \ {0}
  BY Current
<1>2. frames' \in Seq(Frame)
  <2>1. Frame' = Frame
    BY DEF Frame
  <2> QED
    BY <2>1 DEF Types
<1>3. FramesLinked'
  BY <1>1, <1>2, LinkedKept
<1>4. ASSUME NEW k \in 1..Depth PROVE FrameFits(k)'
  <2>1. FrameFits(k)
    BY DEF Inv
  <2>2. CASE k = Depth
    <3>1. Place(k)' = pc' /\ Owed(k)' = 0 /\ Place(k) = pc
      BY <2>2 DEF Place, Owed
    <3>2. frames'[Depth].stack \in Seq(Int)
      <4>1. frames'[Depth] \in Frame
        BY <1>1, <1>2, ElementOfSeq DEF Depth
      <4> QED
        BY <4>1 DEF Frame
    <3>3. Len(frames'[Depth].stack) \in Nat
      BY <3>2, LenProperties
    <3>4. /\ pc' \in DOMAIN prog.code /\ prog.owner[pc'] = prog.owner[pc]
          /\ prog.map[pc'].height = Len(frames'[Depth].stack)
          /\ prog.map[pc'].calls = prog.map[pc].calls
      BY DEF Goes
    <3> DEFINE F == frames[k]
               G == frames'[k]
    <3>5. /\ prog.owner[pc] = F.fun /\ Len(F.marks) = Len(prog.map[pc].calls)
          /\ \A j \in 1..Len(F.marks) : MarkFits(F, k, j, prog.map[pc].calls[j])
      BY <2>1, <3>1 DEF FrameFits, Fits
    <3>6. G.fun = F.fun /\ G.chain = F.chain /\ G.marks = F.marks
      OBVIOUS
    <3>7. prog.map[pc'].height = Len(G.stack) /\ Len(G.stack) \in Nat
      BY <2>2, <3>3, <3>4
    <3>8. FrameFits(k)' <=> Fits(G, k, pc', 0)
      BY <3>1 DEF FrameFits, Fits, MarkFits
    <3> HIDE DEF F, G
    <3>9. \A j \in 1..Len(G.marks) : MarkFits(G, k, j, prog.map[pc'].calls[j])
      BY <3>4, <3>5, <3>6 DEF MarkFits
    <3>10. Fits(G, k, pc', 0)
      BY <3>4, <3>5, <3>6, <3>7, <3>9 DEF Fits
    <3> QED
      BY <3>8, <3>10
  <2>3. CASE k # Depth
    <3>1. k \in 1..(Depth - 1) /\ k + 1 \in 1..Depth
      BY <1>1, <2>3
    <3>2. Place(k)' = Place(k) /\ Owed(k)' = Owed(k)
      BY <2>3, <3>1 DEF Place, Owed
    <3> QED
      BY <2>1, <3>1, <3>2 DEF FrameFits, Fits, MarkFits
  <2> QED
    BY <2>2, <2>3
<1> QED
  BY <1>3, <1>4 DEF Inv

---------------------------------------------------------------------------
\* Steps that change the stack of the current frame only.
LEMMA SameTypes ==
  ASSUME prog' = prog
  PROVE  Frame' = Frame /\ Names' = Names
BY DEF Frame, Names

LEMMA CurrentSet ==
  ASSUME Inv, ~Halted, NEW g \in Frame, frames' = [frames EXCEPT ![Depth] = g]
  PROVE  /\ frames' \in Seq(Frame) /\ Depth' = Depth
         /\ frames'[Depth] = g
         /\ \A k \in 1..(Depth - 1) : frames'[k] = frames[k]
<1>1. Depth \in 1..Len(frames) /\ frames \in Seq(Frame)
  BY Current DEF Depth, Inv, Types
<1>2. /\ frames' \in Seq(Frame) /\ Len(frames') = Len(frames)
      /\ \A k \in 1..Len(frames) : frames'[k] = IF k = Depth THEN g ELSE frames[k]
  BY <1>1, ExceptSeq
<1>3. Depth' = Depth
  BY <1>2 DEF Depth
<1>4. frames'[Depth] = g
  BY <1>1, <1>2
<1>5. ASSUME NEW k \in 1..(Depth - 1) PROVE frames'[k] = frames[k]
  <2>1. Depth \in Nat /\ Depth = Len(frames)
    BY Current DEF Depth
  <2>2. k \in 1..Len(frames) /\ k # Depth
    BY <2>1
  <2> QED
    BY <1>2, <2>2
<1> QED
  BY <1>2, <1>3, <1>4, <1>5

LEMMA StackStep ==
  ASSUME Inv, ~Halted, NEW s \in Seq(Int), Stack(s), prog' = prog,
         globals' \in Seq(Int), heap' \in Seq(Seq(Int)), out' = out,
         Goes(prog, pc, pc', Len(s), prog.map[pc].calls)
  PROVE  Inv'
<1> DEFINE g == [Cur EXCEPT !.stack = s]
<1>1. /\ g \in Frame /\ g.stack = s
      /\ g.fun = Cur.fun /\ g.chain = Cur.chain /\ g.marks = Cur.marks /\ g.ret = Cur.ret
  BY Current DEF Frame
<1>2. frames' = [frames EXCEPT ![Depth] = g]
  BY DEF Stack, Cur
<1>3. /\ frames' \in Seq(Frame) /\ Depth' = Depth /\ frames'[Depth] = g
      /\ \A k \in 1..(Depth - 1) : frames'[k] = frames[k]
  <2> HIDE DEF g
  <2> QED
    BY <1>1, <1>2, CurrentSet
<1>4. Types'
  BY <1>3, SameTypes DEF Types, Inv
<1>5. Depth \in Nat
  BY Current
<1>6. \A k \in 1..Depth : /\ frames'[k].fun = frames[k].fun
                         /\ frames'[k].chain = frames[k].chain
                         /\ frames'[k].marks = frames[k].marks
                         /\ frames'[k].ret = frames[k].ret
  <2> HIDE DEF g
  <2> TAKE k \in 1..Depth
  <2>1. CASE k = Depth
    BY <1>1, <1>3, <2>1 DEF Cur
  <2>2. CASE k # Depth
    <3>1. k \in 1..(Depth - 1)
      BY <1>5, <2>2
    <3> QED
      BY <1>3, <3>1
  <2> QED
    BY <2>1, <2>2
<1>7. \A k \in 1..(Depth - 1) : frames'[k].stack = frames[k].stack
  BY <1>3
<1>8. Goes(prog, pc, pc', Len(frames'[Depth].stack), prog.map[pc].calls)
  BY <1>1, <1>3
<1> QED
  BY <1>3, <1>4, <1>6, <1>7, <1>8, InnerStep

\* Instructions that go on with the next one, no call being opened or made.
Straight == Instr.op \notin Ends \cup Opens \cup {"jsr", "jsre"}

LEMMA NextFits ==
  ASSUME Inv, ~Halted, Straight, pc' = pc + 1
  PROVE  /\ Len(Cur.stack) >= Taken(Instr)
         /\ Goes(prog, pc, pc', Len(Cur.stack) - Taken(Instr) + Given(Instr), prog.map[pc].calls)
BY Current DEF StepFits, Straight, Instr

LEMMA ReplaceStep ==
  ASSUME Inv, ~Halted, Straight, NEW n \in Nat, NEW v \in Int, Replace(n, v),
         n = Taken(Instr), Given(Instr) = 1
  PROVE  Inv'
<1>1. Without(n) \in Seq(Int) /\ Len(Without(n)) = Len(Cur.stack) - n
  BY Operands DEF Replace
<1>2. /\ Append(Without(n), v) \in Seq(Int)
      /\ Len(Append(Without(n), v)) = Len(Cur.stack) - n + 1
  BY <1>1, AppendProperties
<1>3. Goes(prog, pc, pc', Len(Append(Without(n), v)), prog.map[pc].calls)
  BY <1>2, NextFits DEF Replace, Next1
<1> QED
  BY <1>2, <1>3, StackStep DEF Replace, Keep, Inv, Types

\* Instructions that take n operands and leave nothing.
LEMMA TakeStep ==
  ASSUME Inv, ~Halted, Straight, NEW n \in Nat, Has(n), Stack(Without(n)), Next1,
         prog' = prog, globals' \in Seq(Int), heap' \in Seq(Seq(Int)), out' = out,
         n = Taken(Instr), Given(Instr) = 0
  PROVE  Inv'
<1>1. Without(n) \in Seq(Int) /\ Len(Without(n)) = Len(Cur.stack) - n /\ Len(Without(n)) \in Nat
  BY Operands, LenProperties
<1>2. Goes(prog, pc, pc', Len(Without(n)), prog.map[pc].calls)
  <2>1. Len(Cur.stack) - n + 0 = Len(Without(n))
    BY <1>1
  <2> QED
    BY <2>1, NextFits DEF Next1
<1> QED
  BY <1>1, <1>2, StackStep

---------------------------------------------------------------------------
(* The instructions that go on with the next one.                          *)

LEMMA ConstantStep ==
  ASSUME Inv, Constant
  PROVE  Inv'
<1>1. CASE Is({"loadc"}) /\ Slot \in DOMAIN prog.consts /\ Replace(0, prog.consts[Slot])
  <2>1. ~Halted /\ Straight /\ Taken(Instr) = 0 /\ Given(Instr) = 1
    BY <1>1 DEF Is, Straight, Taken, Given, Ends, Opens, Binary, Unary
  <2>2. prog.consts[Slot] \in Int
    BY <1>1, LenProperties, ElementOfSeq DEF Inv, IsProgram
  <2> QED
    BY <1>1, <2>1, <2>2, ReplaceStep
<1>2. CASE Is({"loadc_v"}) /\ Replace(0, Instr.n)
  <2>1. ~Halted /\ Straight /\ Taken(Instr) = 0 /\ Given(Instr) = 1
    BY <1>2 DEF Is, Straight, Taken, Given, Ends, Opens, Binary, Unary
  <2>2. Instr.n \in Int
    BY <2>1, Current
  <2> QED
    BY <1>2, <2>1, <2>2, ReplaceStep
<1> QED
  BY <1>1, <1>2 DEF Constant

LEMMA BinaryInt ==
  ASSUME NEW op \in Binary, NEW a \in Int, NEW b \in Int
  PROVE  BinaryValue(op, a, b) \in Int
BY DEF Binary, BinaryValue, Truth

LEMMA ArithmeticStep ==
  ASSUME Inv, Arithmetic
  PROVE  Inv'
<1>1. CASE Is(Binary) /\ Has(2) /\ Replace(2, BinaryValue(Instr.op, Operand(1), Operand(0)))
  <2>1. ~Halted /\ Straight /\ Taken(Instr) = 2 /\ Given(Instr) = 1
    BY <1>1 DEF Is, Straight, Taken, Given, Ends, Opens, Binary, Unary
  <2>2. BinaryValue(Instr.op, Operand(1), Operand(0)) \in Int
    BY <1>1, <2>1, Operands, BinaryInt DEF Is
  <2> QED
    BY <1>1, <2>1, <2>2, ReplaceStep
<1>2. CASE Is(Unary) /\ Has(1) /\ Replace(1, UnaryValue(Instr.op, Operand(0)))
  <2>1. ~Halted /\ Straight /\ Taken(Instr) = 1 /\ Given(Instr) = 1
    BY <1>2 DEF Is, Straight, Taken, Given, Ends, Opens, Binary, Unary
  <2>2. UnaryValue(Instr.op, Operand(0)) \in Int
    BY <1>2, <2>1, Operands DEF UnaryValue
  <2> QED
    BY <1>2, <2>1, <2>2, ReplaceStep
<1> QED
  BY <1>1, <1>2 DEF Arithmetic

\* The frame that a load or store reaches is an active one.
LEMMA ReachedFrame ==
  ASSUME Inv, ~Halted, InReach
  PROVE  /\ Reached \in 1..Depth
         /\ frames[Reached] \in Frame
         /\ Slot \in 1..Len(frames[Reached].locals)
<1>1. Reached \in 1..Depth
  <2>1. CASE Instr.op \in {"loadn", "storen"}
    <3>1. Leads(Cur.chain, Cur.fun, Depth - 1) /\ Depth \in Nat \ {0}
      BY Current DEF Inv, FramesLinked, Cur
    <3> QED
      BY <2>1, <3>1 DEF InReach, Leads, Reached
  <2>2. CASE Instr.op \notin {"loadn", "storen"}
    BY <2>2, Current DEF Reached
  <2> QED
    BY <2>1, <2>2
<1>2. frames[Reached] \in Frame
  BY <1>1, Current
<1>3. frames[Reached].locals \in Seq(Int)
  BY <1>2 DEF Frame
<1> QED
  BY <1>1, <1>2, <1>3, LenProperties DEF InReach

LEMMA LoadStep ==
  ASSUME Inv, Load
  PROVE  Inv'
<1>1. ~Halted /\ Straight /\ Taken(Instr) = 0 /\ Given(Instr) = 1
  BY DEF Load, Is, Straight, Taken, Given, Ends, Opens, Binary, Unary
<1>2. frames[Reached].locals \in Seq(Int) /\ Slot \in 1..Len(frames[Reached].locals)
  BY <1>1, ReachedFrame DEF Load, Frame
<1>3. frames[Reached].locals[Slot] \in Int
  BY <1>2, ElementOfSeq
<1> QED
  BY <1>1, <1>3, ReplaceStep DEF Load

LEMMA LoadGlobalStep ==
  ASSUME Inv, LoadGlobal
  PROVE  Inv'
<1>1. ~Halted /\ Straight /\ Taken(Instr) = 0 /\ Given(Instr) = 1
  BY DEF LoadGlobal, Is, Straight, Taken, Given, Ends, Opens, Binary, Unary
<1>2. globals[Slot] \in Int
  BY LenProperties, ElementOfSeq DEF LoadGlobal, Inv, Types
<1> QED
  BY <1>1, <1>2, ReplaceStep DEF LoadGlobal

LEMMA LoadElementStep ==
  ASSUME Inv, LoadElement
  PROVE  Inv'
<1>1. ~Halted /\ Straight /\ Taken(Instr) = 2 /\ Given(Instr) = 1
  BY DEF LoadElement, Is, Straight, Taken, Given, Ends, Opens, Binary, Unary
<1>2. heap[Operand(0)] \in Seq(Int) /\ Operand(1) + 1 \in DOMAIN heap[Operand(0)]
  BY LenProperties, ElementOfSeq DEF LoadElement, InArray, Inv, Types
<1>3. heap[Operand(0)][Operand(1) + 1] \in Int
  BY <1>2, LenProperties, ElementOfSeq
<1> QED
  BY <1>1, <1>3, ReplaceStep DEF LoadElement

LEMMA StoreGlobalStep ==
  ASSUME Inv, StoreGlobal
  PROVE  Inv'
<1>1. ~Halted /\ Straight /\ Taken(Instr) = 1 /\ Given(Instr) = 0 /\ Has(1)
  BY DEF StoreGlobal, Is, Straight, Taken, Given, Ends, Opens, Binary, Unary
<1>2. Operand(0) \in Int
  BY <1>1, Operands
<1>3. globals \in Seq(Int) /\ Slot \in 1..Len(globals)
  BY LenProperties DEF StoreGlobal, Inv, Types
<1>4. globals' \in Seq(Int)
  BY <1>2, <1>3, ExceptSeq DEF StoreGlobal
<1> QED
  BY <1>1, <1>4, TakeStep DEF StoreGlobal, Inv, Types

LEMMA StoreElementStep ==
  ASSUME Inv, StoreElement
  PROVE  Inv'
<1>1. ~Halted /\ Straight /\ Taken(Instr) = 3 /\ Given(Instr) = 0 /\ Has(3)
  BY DEF StoreElement, Is, Straight, Taken, Given, Ends, Opens, Binary, Unary
<1>2. Operand(2) \in Int
  BY <1>1, Operands
<1>3. heap \in Seq(Seq(Int)) /\ Operand(0) \in 1..Len(heap)
  BY LenProperties DEF StoreElement, InArray, Inv, Types
<1>4. heap[Operand(0)] \in Seq(Int) /\ Operand(1) + 1 \in 1..Len(heap[Operand(0)])
  BY <1>3, LenProperties, ElementOfSeq DEF StoreElement, InArray
<1>5. [heap[Operand(0)] EXCEPT ![Operand(1) + 1] = Operand(2)] \in Seq(Int)
  BY <1>2, <1>4, ExceptSeq
<1>6. heap' \in Seq(Seq(Int))
  BY <1>3, <1>5, ExceptSeq DEF StoreElement
<1> QED
  BY <1>1, <1>6, TakeStep DEF StoreElement, Inv, Types

LEMMA PopStep ==
  ASSUME Inv, Pop
  PROVE  Inv'
<1>1. ~Halted /\ Straight /\ Taken(Instr) = 1 /\ Given(Instr) = 0
  BY DEF Pop, Is, Straight, Taken, Given, Ends, Opens, Binary, Unary
<1> QED
  BY <1>1, TakeStep DEF Pop, Keep, Inv, Types

\* An array of zeros.
LEMMA Zeros ==
  ASSUME NEW n \in Nat
  PROVE  [i \in 1..n |-> 0] \in Seq(Int)
OBVIOUS

LEMMA NewArrayStep ==
  ASSUME Inv, NewArray
  PROVE  Inv'
<1>1. ~Halted /\ Straight /\ Taken(Instr) = 1 /\ Given(Instr) = 1 /\ Has(1)
  BY DEF NewArray, Is, Straight, Taken, Given, Ends, Opens, Binary, Unary
<1>2. Operand(0) \in Nat /\ Without(1) \in Seq(Int) /\ Len(Without(1)) = Len(Cur.stack) - 1
  BY <1>1, Operands DEF NewArray
<1>3. heap' \in Seq(Seq(Int)) /\ Len(heap) + 1 \in Int
  <2>1. heap \in Seq(Seq(Int)) /\ heap' = Append(heap, [i \in 1..Operand(0) |-> 0])
    BY DEF NewArray, Inv, Types
  <2>2. [i \in 1..Operand(0) |-> 0] \in Seq(Int)
    BY <1>2, Zeros
  <2> HIDE DEF NewArray
  <2> QED
    BY <2>1, <2>2, AppendProperties, LenProperties
<1>4. /\ Append(Without(1), Len(heap) + 1) \in Seq(Int)
      /\ Len(Append(Without(1), Len(heap) + 1)) = Len(Cur.stack) - 1 + 1
  BY <1>2, <1>3, AppendProperties
<1>5. Goes(prog, pc, pc', Len(Append(Without(1), Len(heap) + 1)), prog.map[pc].calls)
  BY <1>1, <1>4, NextFits DEF NewArray, Next1
<1> QED
  BY <1>1, <1>3, <1>4, <1>5, StackStep DEF NewArray, Inv, Types

\* Steps that change the variables of one active function.
LEMMA LocalsSet ==
  ASSUME Inv, ~Halted, NEW r \in 1..Depth, NEW ls \in Seq(Int)
  PROVE  LET fs == [frames EXCEPT ![r] = [frames[r] EXCEPT !.locals = ls]]
         IN /\ fs \in Seq(Frame) /\ Len(fs) = Depth
            /\ \A k \in 1..Depth :
                 /\ fs[k] \in Frame
                 /\ fs[k].fun = frames[k].fun /\ fs[k].chain = frames[k].chain
                 /\ fs[k].marks = frames[k].marks /\ fs[k].ret = frames[k].ret
                 /\ fs[k].stack = frames[k].stack
<1> DEFINE g == [frames[r] EXCEPT !.locals = ls]
           fs == [frames EXCEPT ![r] = g]
<1>1. /\ g \in Frame /\ g.fun = frames[r].fun /\ g.chain = frames[r].chain
      /\ g.marks = frames[r].marks /\ g.ret = frames[r].ret /\ g.stack = frames[r].stack
  BY Current DEF Frame
<1>2. /\ fs \in Seq(Frame) /\ Len(fs) = Depth
      /\ \A k \in 1..Depth : fs[k] = IF k = r THEN g ELSE frames[k]
  <2>1. frames \in Seq(Frame) /\ Depth = Len(frames)
    BY DEF Inv, Types, Depth
  <2> HIDE DEF g
  <2> QED
    BY <1>1, <2>1, ExceptSeq
<1>3. ASSUME NEW k \in 1..Depth
      PROVE  /\ fs[k] \in Frame
             /\ fs[k].fun = frames[k].fun /\ fs[k].chain = frames[k].chain
             /\ fs[k].marks = frames[k].marks /\ fs[k].ret = frames[k].ret
             /\ fs[k].stack = frames[k].stack
  <2> HIDE DEF g, fs
  <2>1. CASE k = r
    BY <1>1, <1>2, <2>1
  <2>2. CASE k # r
    BY <1>2, <2>2, Current
  <2> QED
    BY <2>1, <2>2
<1> QED
  BY <1>2, <1>3

LEMMA LocalsStep ==
  ASSUME Inv, ~Halted, Straight, Taken(Instr) = 0, Given(Instr) = 0, Next1, Keep,
         NEW r \in 1..Depth, NEW ls \in Seq(Int),
         frames' = [frames EXCEPT ![r] = [frames[r] EXCEPT !.locals = ls]]
  PROVE  Inv'
<1>1. /\ frames' \in Seq(Frame) /\ Len(frames') = Depth
      /\ \A k \in 1..Depth :
           /\ frames'[k].fun = frames[k].fun /\ frames'[k].chain = frames[k].chain
           /\ frames'[k].marks = frames[k].marks /\ frames'[k].ret = frames[k].ret
           /\ frames'[k].stack = frames[k].stack
  BY LocalsSet
<1>2. Depth' = Depth /\ Depth \in Nat \ {0}
  BY <1>1, Current DEF Depth
<1>3. Types' /\ prog' = prog
  BY <1>1, SameTypes DEF Keep, Inv, Types
<1>4. frames'[Depth].stack = Cur.stack
  BY <1>1, <1>2 DEF Cur
<1>5. Len(Cur.stack) \in Nat
  BY Current
<1>6. Goes(prog, pc, pc', Len(frames'[Depth].stack), prog.map[pc].calls)
  <2>1. Len(Cur.stack) - 0 + 0 = Len(Cur.stack)
    BY <1>5
  <2> QED
    BY <1>4, <2>1, NextFits DEF Next1
<1>7. \A k \in 1..(Depth - 1) : frames'[k].stack = frames[k].stack
  BY <1>1, <1>2
<1> QED
  BY <1>1, <1>2, <1>3, <1>6, <1>7, InnerStep

LEMMA IncrementStep ==
  ASSUME Inv, Increment
  PROVE  Inv'
<1>1. ~Halted /\ Straight /\ Taken(Instr) = 0 /\ Given(Instr) = 0
  BY DEF Increment, Is, Straight, Taken, Given, Ends, Opens, Binary, Unary
<1>2. Depth \in 1..Depth /\ Cur.locals \in Seq(Int) /\ Slot \in 1..Len(Cur.locals)
  BY <1>1, Current, LenProperties, SMTT(30) DEF Increment, Frame
<1> DEFINE by == IF Instr.op \in {"inc", "dec"} THEN prog.consts[Instr.n + 1] ELSE 1
           v == IF Instr.op \in {"inc", "inc_1"} THEN Cur.locals[Slot] + by ELSE Cur.locals[Slot] - by
           ls == [Cur.locals EXCEPT ![Slot] = v]
<1>3. by \in Int
  BY LenProperties, ElementOfSeq DEF Increment, Inv, IsProgram
<1>4. Cur.locals[Slot] \in Int
  BY <1>2, ElementOfSeq
<1>5. v \in Int
  <2> HIDE DEF by
  <2> QED
    BY <1>3, <1>4
<1>6. ls \in Seq(Int)
  <2> HIDE DEF v
  <2> QED
    BY <1>2, <1>5, ExceptSeq
<1>7. frames' = [frames EXCEPT ![Depth] = [frames[Depth] EXCEPT !.locals = ls]]
  BY DEF Increment, Cur
<1> HIDE DEF ls
<1> QED
  BY <1>1, <1>2, <1>6, <1>7, LocalsStep DEF Increment

LEMMA EsrStep ==
  ASSUME Inv, Esr
  PROVE  Inv'
<1>1. ~Halted /\ Straight /\ Taken(Instr) = 0 /\ Given(Instr) = 0
  BY DEF Esr, Is, Straight, Taken, Given, Ends, Opens, Binary, Unary
<1>2. Depth \in 1..Depth /\ Cur.locals \in Seq(Int) /\ Instr.i \in Nat
  BY <1>1, Current DEF Frame
<1> DEFINE ls == Cur.locals \o [i \in 1..Instr.i |-> 0]
<1>3. ls \in Seq(Int)
  BY <1>2, Zeros, ConcatProperties
<1>4. frames' = [frames EXCEPT ![Depth] = [frames[Depth] EXCEPT !.locals = ls]]
  BY DEF Esr, Cur
<1> HIDE DEF ls
<1> QED
  BY <1>1, <1>2, <1>3, <1>4, LocalsStep DEF Esr

LEMMA StoreStep ==
  ASSUME Inv, Store
  PROVE  Inv'
<1>1. ~Halted /\ Straight /\ Taken(Instr) = 1 /\ Given(Instr) = 0 /\ Has(1) /\ prog' = prog
  BY DEF Store, Is, Straight, Taken, Given, Ends, Opens, Binary, Unary, Keep
<1>2. /\ Reached \in 1..Depth /\ frames[Reached].locals \in Seq(Int)
      /\ Slot \in 1..Len(frames[Reached].locals)
  BY <1>1, ReachedFrame DEF Store, Frame
<1>3. Operand(0) \in Int /\ Without(1) \in Seq(Int) /\ Len(Without(1)) = Len(Cur.stack) - 1
  BY <1>1, Operands
<1> DEFINE ls == [frames[Reached].locals EXCEPT ![Slot] = Operand(0)]
           fs == [frames EXCEPT ![Reached] = [frames[Reached] EXCEPT !.locals = ls]]
           g == [fs[Depth] EXCEPT !.stack = Without(1)]
<1>4. ls \in Seq(Int)
  BY <1>2, <1>3, ExceptSeq
<1>5. /\ fs \in Seq(Frame) /\ Len(fs) = Depth
      /\ \A k \in 1..Depth :
           /\ fs[k] \in Frame
           /\ fs[k].fun = frames[k].fun /\ fs[k].chain = frames[k].chain
           /\ fs[k].marks = frames[k].marks /\ fs[k].ret = frames[k].ret
           /\ fs[k].stack = frames[k].stack
  <2> HIDE DEF ls
  <2> QED
    BY <1>1, <1>2, <1>4, LocalsSet
<1>6. Depth \in 1..Depth /\ Depth \in Nat \ {0}
  BY <1>1, Current
<1>7. /\ g \in Frame /\ g.stack = Without(1) /\ g.fun = frames[Depth].fun
      /\ g.chain = frames[Depth].chain /\ g.marks = frames[Depth].marks /\ g.ret = frames[Depth].ret
  <2> HIDE DEF fs
  <2>1. fs[Depth] \in Frame
    BY <1>5, <1>6
  <2> QED
    BY <1>3, <1>5, <1>6, <2>1 DEF Frame
<1>8. frames' = [fs EXCEPT ![Depth] = g]
  BY DEF Store
<1> HIDE DEF fs, g
<1>9. /\ frames' \in Seq(Frame) /\ Len(frames') = Depth
      /\ \A k \in 1..Depth : frames'[k] = IF k = Depth THEN g ELSE fs[k]
  BY <1>5, <1>6, <1>7, <1>8, ExceptSeq
<1>10. Types' /\ Depth' = Depth
  BY <1>1, <1>9, SameTypes DEF Store, Keep, Inv, Types, Depth
<1>11. \A k \in 1..Depth :
        /\ frames'[k].fun = frames[k].fun /\ frames'[k].chain = frames[k].chain
        /\ frames'[k].marks = frames[k].marks /\ frames'[k].ret = frames[k].ret
  BY <1>5, <1>7, <1>9
<1>12. \A k \in 1..(Depth - 1) : frames'[k].stack = frames[k].stack
  BY <1>5, <1>6, <1>9
<1>13. frames'[Depth].stack = Without(1)
  BY <1>6, <1>7, <1>9
<1>14. Goes(prog, pc, pc', Len(frames'[Depth].stack), prog.map[pc].calls)
  <2>1. Len(Without(1)) = Len(Cur.stack) - 1 + 0 /\ Next1
    BY <1>1, <1>3, Current, LenProperties DEF Store
  <2> QED
    BY <1>1, <1>13, <2>1, NextFits DEF Next1
<1> QED
  BY <1>1, <1>10, <1>11, <1>12, <1>14, InnerStep

---------------------------------------------------------------------------
(* Labels and jumps.                                                       *)

LEMMA JumpStep ==
  ASSUME Inv, ~Halted, UNCHANGED frames, Keep,
         Goes(prog, pc, pc', Len(Cur.stack), prog.map[pc].calls)
  PROVE  Inv'
<1>1. Depth' = Depth /\ frames'[Depth].stack = Cur.stack
  BY DEF Depth, Cur
<1>2. Types' /\ prog' = prog
  BY SameTypes DEF Keep, Inv, Types
<1> QED
  BY <1>1, <1>2, InnerStep

LEMMA MarkStep ==
  ASSUME Inv, Mark
  PROVE  Inv'
<1>1. ~Halted /\ Straight /\ Taken(Instr) = 0 /\ Given(Instr) = 0
  BY DEF Mark, Is, Straight, Taken, Given, Ends, Opens, Binary, Unary
<1>2. Len(Cur.stack) \in Nat /\ Len(Cur.stack) - 0 + 0 = Len(Cur.stack)
  BY <1>1, Current
<1>3. Goes(prog, pc, pc', Len(Cur.stack), prog.map[pc].calls)
  BY <1>1, <1>2, NextFits DEF Mark, Next1
<1> QED
  BY <1>1, <1>3, JumpStep DEF Mark

LEMMA GotoStep ==
  ASSUME Inv, Jump
  PROVE  Inv'
<1>1. ~Halted /\ Instr.op = "jump" /\ Taken(Instr) = 0 /\ Given(Instr) = 0
  BY DEF Jump, Is, Taken, Given, Binary, Unary
<1>2. Len(Cur.stack) \in Nat /\ Len(Cur.stack) - 0 + 0 = Len(Cur.stack)
  BY <1>1, Current
<1>3. Goes(prog, pc, prog.at[Instr.to], Len(Cur.stack) - Taken(Instr) + Given(Instr), prog.map[pc].calls)
  BY <1>1, Current DEF StepFits, Instr
<1>4. Goes(prog, pc, pc', Len(Cur.stack), prog.map[pc].calls)
  BY <1>1, <1>2, <1>3 DEF Jump
<1> QED
  BY <1>1, <1>4, JumpStep DEF Jump

LEMMA BranchStep ==
  ASSUME Inv, Branch
  PROVE  Inv'
<1>1. /\ ~Halted /\ Instr.op \in {"branch_t", "branch_f"} /\ Has(1)
      /\ Taken(Instr) = 1 /\ Given(Instr) = 0 /\ Straight
  BY DEF Branch, Is, Taken, Given, Straight, Ends, Opens, Binary, Unary
<1>2. Without(1) \in Seq(Int) /\ Len(Without(1)) = Len(Cur.stack) - 1 /\ Len(Cur.stack) \in Nat
  BY <1>1, Operands, Current
<1>3. Len(Without(1)) = Len(Cur.stack) - 1 + 0
  BY <1>2
<1>4. /\ Goes(prog, pc, prog.at[Instr.to], Len(Cur.stack) - 1 + 0, prog.map[pc].calls)
      /\ Goes(prog, pc, pc + 1, Len(Cur.stack) - 1 + 0, prog.map[pc].calls)
  BY <1>1, Current DEF StepFits, Instr, Straight
<1>5. Goes(prog, pc, pc', Len(Without(1)), prog.map[pc].calls)
  BY <1>3, <1>4 DEF Branch
<1> QED
  BY <1>1, <1>2, <1>5, StackStep DEF Branch, Keep, Inv, Types

---------------------------------------------------------------------------
(* Calls.                                                                  *)

\* A frame of the next state fits if it does in the same program.
LEMMA FitsThen ==
  ASSUME prog' = prog, NEW k, Fits(frames'[k], k, Place(k)', Owed(k)')
  PROVE  FrameFits(k)'
BY DEF FrameFits, Fits, MarkFits

\* The frames below the current one, where nothing happens to them.
LEMMA FrameKept ==
  ASSUME Inv, NEW k \in 1..Depth, prog' = prog,
         frames'[k].fun = frames[k].fun, frames'[k].chain = frames[k].chain,
         frames'[k].marks = frames[k].marks, Place(k)' = Place(k),
         Len(frames'[k].stack) + Owed(k)' = Len(frames[k].stack) + Owed(k)
  PROVE  FrameFits(k)'
<1>1. FrameFits(k)
  BY DEF Inv
<1> QED
  BY <1>1 DEF FrameFits, Fits, MarkFits

\* What opening a call notes.
LEMMA LinksNoted ==
  ASSUME Inv, ~Halted, Instr.op \in Opens
  PROVE  Links(Instr, Depth, Cur.chain) \in Seq(Nat)
<1>1. Cur.chain \in Seq(Nat) /\ Depth \in Nat /\ Len(Cur.chain) \in Nat
  BY Current, LenProperties DEF Frame
<1>2. CASE Instr.op = "isrl"
  BY <1>1, <1>2, ConcatProperties DEF Links
<1>3. CASE Instr.op = "isr"
  BY <1>1, <1>3 DEF Links
<1>4. CASE Instr.op = "isrn"
  <2>1. Instr.n \in Nat
    BY <1>4, Current DEF Inv, IsProgram, Instr
  <2>2. \A i \in (Instr.n + 1)..Len(Cur.chain) : Cur.chain[i] \in Nat
    BY <1>1, <2>1, ElementOfSeq
  <2>3. SubSeq(Cur.chain, Instr.n + 1, Len(Cur.chain)) \in Seq(Nat)
    BY <1>1, <2>1, <2>2, SubSeqProperties
  <2> QED
    BY <1>4, <2>3 DEF Links
<1>5. CASE Instr.op = "isrg"
  BY <1>5 DEF Links
<1> QED
  BY <1>2, <1>3, <1>4, <1>5 DEF Opens

LEMMA OpenStep ==
  ASSUME Inv, Open
  PROVE  Inv'
<1> DEFINE c == prog.map[pc].calls
           noted == Links(Instr, Depth, Cur.chain)
           g == [Cur EXCEPT !.marks = Append(Cur.marks, noted)]
<1>1. ~Halted /\ Instr.op \in Opens /\ prog' = prog /\ pc' = pc + 1
  BY DEF Open, Is, Opens, Keep, Next1
<1>2. /\ Cur \in Frame /\ Cur.marks \in Seq(Seq(Nat)) /\ noted \in Seq(Nat)
      /\ Depth \in 1..Depth /\ Depth \in Nat \ {0} /\ Len(Cur.stack) \in Nat
      /\ c \in Seq(DOMAIN prog.code) /\ pc \in DOMAIN prog.code
  BY <1>1, LinksNoted, Current, SMTT(30) DEF Frame
<1>3. /\ g \in Frame /\ g.fun = Cur.fun /\ g.chain = Cur.chain /\ g.stack = Cur.stack
      /\ g.marks = Append(Cur.marks, noted)
  <2> HIDE DEF noted
  <2>1. Append(Cur.marks, noted) \in Seq(Seq(Nat))
    BY <1>2, AppendProperties
  <2> QED
    BY <1>2, <2>1 DEF Frame
<1>4. frames' = [frames EXCEPT ![Depth] = g]
  BY DEF Open, Cur
<1>5. /\ frames' \in Seq(Frame) /\ Depth' = Depth /\ frames'[Depth] = g
      /\ \A k \in 1..(Depth - 1) : frames'[k] = frames[k]
  <2> HIDE DEF g
  <2> QED
    BY <1>1, <1>3, <1>4, CurrentSet
<1>6. Types'
  BY <1>1, <1>5, SameTypes DEF Open, Keep, Types, Inv
<1>7. Goes(prog, pc, pc', Len(Cur.stack), Append(c, pc))
  <2>1. prog.map[pc].height = Len(Cur.stack)
    BY <1>1, Current
  <2> QED
    BY <1>1, <2>1, Current DEF StepFits, Instr
<1> HIDE DEF g
<1>8. FramesLinked'
  <2> \A k \in 1..Depth : frames'[k].fun = frames[k].fun /\ frames'[k].chain = frames[k].chain
    BY <1>2, <1>3, <1>5 DEF Cur
  <2> QED
    BY <1>1, <1>2, <1>5, LinkedKept
<1>9. ASSUME NEW k \in 1..Depth PROVE FrameFits(k)'
  <2>1. CASE k # Depth
    <3>1. k \in 1..(Depth - 1) /\ k + 1 \in 1..Depth
      BY <1>2, <2>1
    <3>2. frames'[k + 1].ret = frames[k + 1].ret /\ frames'[k + 1].fun = frames[k + 1].fun
      <4>1. CASE k + 1 = Depth
        <5>1. frames[k + 1] = Cur /\ frames'[k + 1] = g /\ g.ret = Cur.ret
          BY <1>2, <1>5, <4>1 DEF Cur, g, Frame
        <5> QED
          BY <1>3, <5>1
      <4>2. CASE k + 1 # Depth
        BY <1>2, <1>5, <3>1, <4>2
      <4> QED
        BY <4>1, <4>2
    <3>3. Place(k)' = Place(k) /\ Owed(k)' = Owed(k)
      BY <1>1, <1>5, <2>1, <3>2 DEF Place, Owed
    <3> QED
      BY <1>1, <1>5, <3>1, <3>3, FrameKept
  <2>2. CASE k = Depth
    <3>1. Place(k)' = pc' /\ Owed(k)' = 0 /\ Place(k) = pc
      BY <1>5, <2>2 DEF Place, Owed
    <3>2. /\ pc' \in DOMAIN prog.code /\ prog.owner[pc'] = prog.owner[pc]
          /\ prog.map[pc'].height = Len(Cur.stack) /\ prog.map[pc'].calls = Append(c, pc)
      BY <1>7 DEF Goes
    <3>3. frames'[k] = g /\ frames[k] = Cur
      BY <1>5, <2>2 DEF Cur
    <3>4. /\ Len(g.marks) = Len(Cur.marks) + 1 /\ Len(Append(c, pc)) = Len(c) + 1
          /\ Len(c) = Len(Cur.marks) /\ Len(c) \in Nat
          /\ \A j \in 1..Len(c) : g.marks[j] = Cur.marks[j] /\ Append(c, pc)[j] = c[j]
          /\ g.marks[Len(c) + 1] = noted /\ Append(c, pc)[Len(c) + 1] = pc
      <4>1. Len(c) = Len(Cur.marks)
        BY <1>1, Current
      <4> HIDE DEF noted, c
      <4> QED
        BY <1>2, <1>3, <4>1, AppendProperties, LenProperties
    <3>5. ASSUME NEW j \in 1..(Len(c) + 1) PROVE MarkFits(g, k, j, Append(c, pc)[j])
      <4>1. CASE j = Len(c) + 1
        <5>1. prog.code[pc].op \in Opens /\ prog.owner[pc] = Cur.fun
          BY <1>1, Current DEF Instr
        <5> QED
          BY <1>3, <2>2, <3>4, <4>1, <5>1 DEF MarkFits, Instr
      <4>2. CASE j # Len(c) + 1
        <5>1. j \in 1..Len(c) /\ j \in 1..Len(frames[k].marks)
          BY <3>3, <3>4, <4>2
        <5>2. MarkFits(Cur, k, j, c[j])
          BY <3>1, <3>3, <5>1 DEF Inv, FrameFits, Fits
        <5> QED
          BY <1>3, <3>4, <5>1, <5>2 DEF MarkFits
      <4> QED
        BY <4>1, <4>2
    <3>6. /\ prog.owner[pc] = Cur.fun
          /\ Len(g.stack) + 0 = Len(Cur.stack)
      BY <1>1, <1>2, <1>3, Current
    <3>7. Fits(g, k, pc', 0)
      <4> HIDE DEF c
      <4> QED
        BY <1>3, <3>2, <3>4, <3>5, <3>6 DEF Fits
    <3> QED
      BY <1>1, <3>1, <3>3, <3>7, FitsThen
  <2> QED
    BY <2>1, <2>2
<1> QED
  BY <1>1, <1>5, <1>6, <1>8, <1>9 DEF Inv

\* The calls that are open but for the last.
LEMMA LastCall ==
  ASSUME Inv, ~Halted, Cur.marks # <<>>
  PROVE  LET c == prog.map[pc].calls
         IN /\ Len(Cur.marks) \in Nat \ {0} /\ Len(c) = Len(Cur.marks)
            /\ Unmarked \in Seq(Seq(Nat)) /\ Len(Unmarked) = Len(c) - 1
            /\ LastMark \in Seq(Nat) /\ c[Len(c)] \in DOMAIN prog.code
            /\ Len(SubSeq(c, 1, Len(c) - 1)) = Len(c) - 1
            /\ \A j \in 1..(Len(c) - 1) : /\ Unmarked[j] = Cur.marks[j]
                                         /\ SubSeq(c, 1, Len(c) - 1)[j] = c[j]
            /\ \A j \in 1..Len(c) : MarkFits(Cur, Depth, j, c[j])
<1> DEFINE c == prog.map[pc].calls
<1>1. /\ Cur.marks \in Seq(Seq(Nat)) /\ c \in Seq(DOMAIN prog.code)
      /\ Len(c) = Len(Cur.marks) /\ Depth \in 1..Depth
  <2>1. /\ c \in Seq(DOMAIN prog.code) /\ Len(c) = Len(Cur.marks)
        /\ Depth \in Nat \ {0} /\ Cur \in Frame
    BY Current
  <2> HIDE DEF c
  <2>2. Cur.marks \in Seq(Seq(Nat))
    BY <2>1 DEF Frame
  <2> QED
    BY <2>1, <2>2
<1>2. \A j \in 1..Len(c) : MarkFits(Cur, Depth, j, c[j])
  <2>1. FrameFits(Depth) /\ Place(Depth) = pc
    BY <1>1 DEF Inv, Place
  <2> QED
    BY <1>1, <2>1 DEF FrameFits, Fits, Cur
<1> HIDE DEF c
<1>3. Len(c) \in Nat \ {0}
  BY <1>1, EmptySeq
<1>4. Len(c) - 1 \in Nat /\ Len(c) - 1 <= Len(c) /\ Len(c) - 1 <= Len(Cur.marks)
  BY <1>1, <1>3
<1>5. /\ Unmarked \in Seq(Seq(Nat)) /\ Len(Unmarked) = Len(c) - 1
      /\ \A j \in 1..(Len(c) - 1) : Unmarked[j] = Cur.marks[j]
  BY <1>1, <1>4, Firsts DEF Unmarked
<1>6. /\ Len(SubSeq(c, 1, Len(c) - 1)) = Len(c) - 1
      /\ \A j \in 1..(Len(c) - 1) : SubSeq(c, 1, Len(c) - 1)[j] = c[j]
  BY <1>1, <1>4, Firsts
<1>7. LastMark \in Seq(Nat) /\ c[Len(c)] \in DOMAIN prog.code
  BY <1>1, <1>3, ElementOfSeq DEF LastMark
<1> QED
  BY <1>1, <1>2, <1>3, <1>5, <1>6, <1>7 DEF c

LEMMA CallMade ==
  ASSUME Inv, ~Halted, Cur.marks # <<>>, NEW g \in Frame, NEW owed \in Nat,
         g.fun = Cur.fun, g.chain = Cur.chain, g.marks = Unmarked,
         NEW n \in Int, NEW result \in Int, Finishes(prog, pc, n, result),
         Len(g.stack) + owed = Len(Cur.stack) - n + result
  PROVE  Fits(g, Depth, pc + 1, owed)
<1> DEFINE c == prog.map[pc].calls
<1>1. prog.owner[pc] = Cur.fun /\ Len(Cur.stack) = prog.map[pc].height
  BY Current
<1>2. /\ pc + 1 \in DOMAIN prog.code /\ prog.owner[pc + 1] = Cur.fun
      /\ prog.map[pc + 1].height = Len(Cur.stack) - n + result
      /\ prog.map[pc + 1].calls = SubSeq(c, 1, Len(c) - 1)
  BY <1>1 DEF Finishes, Goes
<1>3. ASSUME NEW j \in 1..(Len(c) - 1)
      PROVE  MarkFits(g, Depth, j, SubSeq(c, 1, Len(c) - 1)[j])
  <2>1. MarkFits(Cur, Depth, j, c[j]) /\ Unmarked[j] = Cur.marks[j]
        /\ SubSeq(c, 1, Len(c) - 1)[j] = c[j]
    BY LastCall
  <2> QED
    BY <2>1 DEF MarkFits
<1>4. Len(Unmarked) = Len(c) - 1 /\ Len(SubSeq(c, 1, Len(c) - 1)) = Len(c) - 1
  BY LastCall
<1> HIDE DEF c
<1> QED
  BY <1>2, <1>3, <1>4 DEF Fits

\* The frames below one that is not removed.
LEMMA BelowKept ==
  ASSUME Inv, ~Halted, prog' = prog, NEW g \in Frame,
         g.fun = Cur.fun, g.ret = Cur.ret, Depth' >= Depth,
         Depth' \in Nat, frames'[Depth] = g,
         \A k \in 1..(Depth - 1) : frames'[k] = frames[k],
         NEW k \in 1..(Depth - 1)
  PROVE  FrameFits(k)'
<1>1. Depth \in Nat \ {0} /\ k \in 1..Depth /\ k + 1 \in 1..Depth /\ k # Depth /\ k # Depth'
  BY Current
<1>2. frames'[k + 1].ret = frames[k + 1].ret /\ frames'[k + 1].fun = frames[k + 1].fun
  <2>1. CASE k + 1 = Depth
    BY <2>1 DEF Cur
  <2>2. CASE k + 1 # Depth
    <3>1. k + 1 \in 1..(Depth - 1)
      BY <1>1, <2>2
    <3> QED
      BY <3>1
  <2> QED
    BY <2>1, <2>2
<1>3. Place(k)' = Place(k) /\ Owed(k)' = Owed(k)
  BY <1>1, <1>2 DEF Place, Owed
<1> QED
  BY <1>1, <1>3, FrameKept

LEMMA JsreStep ==
  ASSUME Inv, Jsre
  PROVE  Inv'
<1> DEFINE e == prog.externs[Slot]
           answer == IF e.result = 1 THEN <<Len(out)>> ELSE <<>>
           s == Without(e.args) \o answer
           g == [Cur EXCEPT !.stack = s, !.marks = Unmarked]
<1>1. /\ ~Halted /\ Instr.op = "jsre" /\ Cur.marks # <<>> /\ Has(e.args)
      /\ prog' = prog /\ pc' = pc + 1
  BY DEF Jsre, Is, Next1
<1>2. Finishes(prog, pc, e.args, e.result) /\ Slot \in DOMAIN prog.externs
  BY <1>1, Current DEF StepFits, Instr, Slot
<1>3. e.args \in Nat /\ e.result \in {0, 1}
  BY <1>2 DEF Inv, IsProgram
<1>4. /\ Without(e.args) \in Seq(Int) /\ Len(Without(e.args)) = Len(Cur.stack) - e.args
      /\ Arguments(e.args) \in Seq(Int)
  <2> HIDE DEF e
  <2> QED
    BY <1>1, <1>3, Operands
<1>5. answer \in Seq(Int) /\ Len(answer) = e.result
  <2>1. Len(out) \in Int
    BY LenProperties DEF Inv, Types
  <2> HIDE DEF e
  <2> QED
    BY <1>3, <2>1
<1>6. s \in Seq(Int) /\ Len(s) = Len(Cur.stack) - e.args + e.result
  <2> HIDE DEF e, answer
  <2>1. s \in Seq(Int) /\ Len(s) = Len(Without(e.args)) + Len(answer)
    BY <1>4, <1>5, ConcatProperties
  <2> QED
    BY <1>4, <1>5, <2>1
<1>7. /\ Cur \in Frame /\ Depth \in Nat \ {0} /\ Len(Cur.stack) \in Nat
      /\ Unmarked \in Seq(Seq(Nat))
  BY <1>1, Current, LastCall
<1>8. /\ g \in Frame /\ g.fun = Cur.fun /\ g.chain = Cur.chain /\ g.ret = Cur.ret
      /\ g.stack = s /\ g.marks = Unmarked
  <2> HIDE DEF s
  <2> QED
    BY <1>6, <1>7 DEF Frame
<1>9. frames' = [frames EXCEPT ![Depth] = g]
  BY DEF Jsre, Cur
<1>10. /\ frames' \in Seq(Frame) /\ Depth' = Depth /\ frames'[Depth] = g
       /\ \A k \in 1..(Depth - 1) : frames'[k] = frames[k]
  <2> HIDE DEF g
  <2> QED
    BY <1>1, <1>8, <1>9, CurrentSet
<1>11. Types'
  <2>1. [fun |-> e.name, args |-> Arguments(e.args)] \in [fun : Names, args : Seq(Int)]
    BY <1>2, <1>4 DEF Names
  <2>2. out' \in Seq([fun : Names, args : Seq(Int)])
    BY <2>1, AppendProperties DEF Jsre, Inv, Types
  <2> QED
    BY <1>1, <1>10, <2>2, SameTypes DEF Jsre, Inv, Types
<1> HIDE DEF g, s, answer
<1>12. FramesLinked'
  <2> \A k \in 1..Depth : frames'[k].fun = frames[k].fun /\ frames'[k].chain = frames[k].chain
    BY <1>7, <1>8, <1>10 DEF Cur
  <2> QED
    BY <1>1, <1>7, <1>10, LinkedKept
<1>13. Fits(g, Depth, pc + 1, 0)
  <2>1. Len(g.stack) + 0 = Len(Cur.stack) - e.args + e.result /\ e.result \in Int /\ e.args \in Int
    BY <1>3, <1>6, <1>7, <1>8
  <2> HIDE DEF e
  <2> QED
    BY <1>1, <1>2, <1>8, <2>1, CallMade
<1>14. FrameFits(Depth)'
  <2>1. Place(Depth)' = pc + 1 /\ Owed(Depth)' = 0
    BY <1>1, <1>10 DEF Place, Owed
  <2> QED
    BY <1>1, <1>10, <1>13, <2>1, FitsThen
<1>15. \A k \in 1..(Depth - 1) : FrameFits(k)'
  BY <1>1, <1>7, <1>8, <1>10, BelowKept
<1>16. \A k \in 1..Depth : k = Depth \/ k \in 1..(Depth - 1)
  BY <1>7
<1> QED
  BY <1>1, <1>10, <1>11, <1>12, <1>14, <1>15, <1>16 DEF Inv

---------------------------------------------------------------------------
(* A call of a function of the program: its static links.                  *)

LEMMA Single ==
  ASSUME NEW S, NEW d \in S
  PROVE  <<d>> \in Seq(S) /\ Len(<<d>>) = 1
OBVIOUS

\* The rest of a sequence with one more element in front, and the rest of a
\* rest.
LEMMA RestOfLonger ==
  ASSUME NEW S, NEW s \in Seq(S), NEW d \in S, NEW m \in 1..(Len(s) + 1)
  PROVE  SubSeq(<<d>> \o s, m + 1, Len(s) + 1) = SubSeq(s, m, Len(s))
<1> DEFINE l == <<d>> \o s
<1>1. /\ Len(s) \in Nat /\ l \in Seq(S) /\ Len(l) = Len(s) + 1
      /\ \A i \in 1..Len(s) : l[i + 1] = s[i]
  <2>1. <<d>> \in Seq(S) /\ Len(<<d>>) = 1 /\ Len(s) \in Nat
    BY LenProperties
  <2>2. /\ l \in Seq(S) /\ Len(l) = 1 + Len(s)
        /\ \A i \in 1..(1 + Len(s)) : l[i] = IF i <= 1 THEN <<d>>[i] ELSE s[i - 1]
    BY <2>1, ConcatProperties
  <2> HIDE DEF l
  <2> QED
    BY <2>1, <2>2
<1> HIDE DEF l
<1>2. /\ SubSeq(l, m + 1, Len(l)) \in Seq(S) /\ Len(SubSeq(l, m + 1, Len(l))) = Len(l) - (m + 1) + 1
      /\ \A i \in 1..(Len(l) - (m + 1) + 1) : SubSeq(l, m + 1, Len(l))[i] = l[m + 1 + i - 1]
  <2>1. m + 1 \in 1..(Len(l) + 1)
    BY <1>1
  <2> QED
    BY <1>1, <2>1, Lasts
<1>3. /\ SubSeq(s, m, Len(s)) \in Seq(S) /\ Len(SubSeq(s, m, Len(s))) = Len(s) - m + 1
      /\ \A i \in 1..(Len(s) - m + 1) : SubSeq(s, m, Len(s))[i] = s[m + i - 1]
  BY Lasts
<1>4. ASSUME NEW i \in 1..(Len(s) - m + 1) PROVE l[m + 1 + i - 1] = s[m + i - 1]
  <2>1. m + i - 1 \in 1..Len(s) /\ m + 1 + i - 1 = (m + i - 1) + 1
    BY <1>1
  <2> QED
    BY <1>1, <2>1
<1>5. Len(l) - (m + 1) + 1 = Len(s) - m + 1
  BY <1>1
<1>6. SubSeq(l, m + 1, Len(l)) = SubSeq(s, m, Len(s))
  BY <1>2, <1>3, <1>4, <1>5, SeqEqual
<1> QED
  BY <1>1, <1>6 DEF l

LEMMA RestOfRest ==
  ASSUME NEW S, NEW s \in Seq(S), NEW n \in 0..Len(s), NEW m \in 1..(Len(s) - n + 1)
  PROVE  SubSeq(SubSeq(s, n + 1, Len(s)), m, Len(s) - n) = SubSeq(s, n + m, Len(s))
<1> DEFINE l == SubSeq(s, n + 1, Len(s))
<1>1. /\ Len(s) \in Nat /\ l \in Seq(S) /\ Len(l) = Len(s) - n
      /\ \A i \in 1..(Len(s) - n) : l[i] = s[n + i]
  <2>1. Len(s) \in Nat /\ n + 1 \in 1..(Len(s) + 1)
    BY LenProperties
  <2>2. /\ l \in Seq(S) /\ Len(l) = Len(s) - (n + 1) + 1
        /\ \A i \in 1..(Len(s) - (n + 1) + 1) : l[i] = s[n + 1 + i - 1]
    BY <2>1, Lasts
  <2> HIDE DEF l
  <2>3. Len(s) - (n + 1) + 1 = Len(s) - n /\ \A i \in 1..(Len(s) - n) : n + 1 + i - 1 = n + i
    BY <2>1
  <2> QED
    BY <2>1, <2>2, <2>3
<1> HIDE DEF l
<1>2. /\ SubSeq(l, m, Len(l)) \in Seq(S) /\ Len(SubSeq(l, m, Len(l))) = Len(l) - m + 1
      /\ \A i \in 1..(Len(l) - m + 1) : SubSeq(l, m, Len(l))[i] = l[m + i - 1]
  BY <1>1, Lasts
<1>3. /\ SubSeq(s, n + m, Len(s)) \in Seq(S)
      /\ Len(SubSeq(s, n + m, Len(s))) = Len(s) - (n + m) + 1
      /\ \A i \in 1..(Len(s) - (n + m) + 1) : SubSeq(s, n + m, Len(s))[i] = s[n + m + i - 1]
  <2>1. n + m \in 1..(Len(s) + 1)
    BY <1>1
  <2> QED
    BY <2>1, Lasts
<1>4. Len(l) - m + 1 = Len(s) - (n + m) + 1
  BY <1>1
<1>5. ASSUME NEW i \in 1..(Len(l) - m + 1) PROVE l[m + i - 1] = s[n + m + i - 1]
  <2>1. m + i - 1 \in 1..(Len(s) - n) /\ n + (m + i - 1) = n + m + i - 1
    BY <1>1
  <2> QED
    BY <1>1, <2>1
<1>6. SubSeq(l, m, Len(l)) = SubSeq(s, n + m, Len(s))
  BY <1>2, <1>3, <1>4, <1>5, SeqEqual
<1> QED
  BY <1>1, <1>6 DEF l

\* The links an opened call notes lead to the functions around the callee, if
\* the instruction gives it the links of its place.
LEMMA NewLinks ==
  ASSUME Inv, ~Halted, NEW o \in DOMAIN prog.code, NEW g \in DOMAIN prog.up,
         prog.code[o].op \in Opens, prog.owner[o] = Cur.fun, LevelFits(prog, o, g)
  PROVE  Leads(Links(prog.code[o], Depth, Cur.chain), g, Depth)
<1> DEFINE C == Cur.chain
           around == prog.up[Cur.fun]
           i == prog.code[o]
<1>1. /\ C \in Seq(Nat) /\ Depth \in Nat \ {0} /\ Cur.fun \in DOMAIN prog.up
      /\ around \in Seq(DOMAIN prog.up)
  <2>1. Cur \in Frame /\ Depth \in Nat \ {0}
    BY Current
  <2>2. C \in Seq(Nat) /\ Cur.fun \in DOMAIN prog.up
    BY <2>1 DEF Frame
  <2> QED
    BY <2>1, <2>2 DEF Inv, IsProgram
<1>2. /\ Len(C) = Len(around) /\ Len(C) \in Nat /\ DOMAIN C = 1..Len(C)
      /\ \A j \in 1..Len(C) : /\ C[j] \in 1..Depth
                             /\ frames[C[j]].fun = around[j]
                             /\ frames[C[j]].chain = SubSeq(C, j + 1, Len(C))
  <2>1. Leads(C, Cur.fun, Depth - 1)
    BY Current DEF Inv, FramesLinked, Cur
  <2>2. Len(C) \in Nat /\ DOMAIN C = 1..Len(C)
    BY <1>1, LenProperties
  <2> HIDE DEF C
  <2>3. /\ Len(C) = Len(around)
        /\ \A j \in DOMAIN C : /\ C[j] \in 1..(Depth - 1)
                              /\ frames[C[j]].fun = around[j]
                              /\ frames[C[j]].chain = SubSeq(C, j + 1, Len(C))
    BY <2>1 DEF Leads
  <2>4. \A j \in DOMAIN C : C[j] \in 1..Depth
    BY <1>1, <2>3
  <2> QED
    BY <2>2, <2>3, <2>4
<1> HIDE DEF C, around
<1>3. CASE i.op = "isr"
  <2>1. Links(i, Depth, C) = C /\ prog.up[g] = around
    BY <1>3 DEF Links, LevelFits, around
  <2> QED
    BY <1>2, <2>1 DEF Leads, C
<1>4. CASE i.op = "isrg"
  <2>1. Links(i, Depth, C) = <<>> /\ prog.up[g] = <<>>
    BY <1>4 DEF Links, LevelFits
  <2> QED
    BY <2>1 DEF Leads, C
<1>5. CASE i.op = "isrl"
  <2> DEFINE L == <<Depth>> \o C
  <2>1. Links(i, Depth, C) = L /\ prog.up[g] = <<Cur.fun>> \o around
    BY <1>5 DEF Links, LevelFits, around
  <2>2. /\ L \in Seq(Nat) /\ Len(L) = Len(C) + 1 /\ DOMAIN L = 1..(Len(C) + 1)
        /\ L[1] = Depth /\ \A j \in 2..(Len(C) + 1) : L[j] = C[j - 1]
    <3>1. <<Depth>> \in Seq(Nat) /\ Len(<<Depth>>) = 1
      BY <1>1
    <3>2. /\ L \in Seq(Nat) /\ Len(L) = 1 + Len(C)
          /\ \A j \in 1..(1 + Len(C)) : L[j] = IF j <= 1 THEN <<Depth>>[j] ELSE C[j - 1]
      BY <1>1, <3>1, ConcatProperties
    <3> HIDE DEF L
    <3> QED
      BY <1>1, <1>2, <3>2, LenProperties
  <2>3. /\ Len(prog.up[g]) = Len(C) + 1 /\ prog.up[g][1] = Cur.fun
        /\ \A j \in 2..(Len(C) + 1) : prog.up[g][j] = around[j - 1]
    <3>1. <<Cur.fun>> \in Seq(DOMAIN prog.up) /\ Len(<<Cur.fun>>) = 1
      BY <1>1, Single
    <3>2. /\ Len(prog.up[g]) = 1 + Len(around)
          /\ \A j \in 1..(1 + Len(around)) :
               prog.up[g][j] = IF j <= 1 THEN <<Cur.fun>>[j] ELSE around[j - 1]
      BY <1>1, <2>1, <3>1, ConcatProperties
    <3> QED
      BY <1>2, <3>2
  <2>4. ASSUME NEW j \in 1..(Len(C) + 1)
        PROVE  /\ L[j] \in 1..Depth /\ frames[L[j]].fun = prog.up[g][j]
               /\ frames[L[j]].chain = SubSeq(C, j, Len(C))
    <3>1. CASE j = 1
      <4>1. SubSeq(C, 1, Len(C)) = C
        BY <1>1, SubSeqFull
      <4> HIDE DEF L
      <4> QED
        BY <1>1, <2>2, <2>3, <3>1, <4>1 DEF Cur, C
    <3>2. CASE j # 1
      <4>1. j \in 2..(Len(C) + 1) /\ j - 1 \in 1..Len(C) /\ (j - 1) + 1 = j
        BY <1>2, <3>2
      <4>2. L[j] = C[j - 1] /\ prog.up[g][j] = around[j - 1]
        BY <2>2, <2>3, <4>1
      <4> HIDE DEF L
      <4> QED
        BY <1>2, <4>1, <4>2
    <3> QED
      BY <3>1, <3>2
  <2>5. \A j \in 1..(Len(C) + 1) : SubSeq(L, j + 1, Len(C) + 1) = SubSeq(C, j, Len(C))
    BY <1>1, RestOfLonger
  <2> HIDE DEF L
  <2>6. Leads(L, g, Depth)
    BY <2>2, <2>3, <2>4, <2>5 DEF Leads
  <2> QED
    BY <2>1, <2>6 DEF C
<1>6. CASE i.op = "isrn"
  <2> DEFINE n == i.n
             L == SubSeq(C, n + 1, Len(C))
  <2>1. /\ Links(i, Depth, C) = L /\ n \in 0..Len(around)
        /\ prog.up[g] = SubSeq(around, n + 1, Len(around))
    BY <1>6 DEF Links, LevelFits, around
  <2>2. n \in 0..Len(C) /\ n + 1 \in 1..(Len(C) + 1)
    BY <1>2, <2>1
  <2> HIDE DEF n
  <2>3. /\ L \in Seq(Nat) /\ Len(L) = Len(C) - n
        /\ \A j \in 1..(Len(C) - n) : L[j] = C[n + j]
    <3>1. /\ L \in Seq(Nat) /\ Len(L) = Len(C) - (n + 1) + 1
          /\ \A j \in 1..(Len(C) - (n + 1) + 1) : L[j] = C[n + 1 + j - 1]
      BY <1>1, <2>2, Lasts
    <3>2. Len(C) - (n + 1) + 1 = Len(C) - n /\ \A j \in Nat : n + 1 + j - 1 = n + j
      BY <1>2, <2>2
    <3> HIDE DEF L
    <3> QED
      BY <3>1, <3>2, SMTT(30)
  <2>4. DOMAIN L = 1..(Len(C) - n)
    <3> HIDE DEF L
    <3> QED
      BY <2>3, LenProperties
  <2>5. /\ Len(prog.up[g]) = Len(C) - n
        /\ \A j \in 1..(Len(C) - n) : prog.up[g][j] = around[n + j]
    <3>1. /\ Len(prog.up[g]) = Len(around) - (n + 1) + 1
          /\ \A j \in 1..(Len(around) - (n + 1) + 1) : prog.up[g][j] = around[n + 1 + j - 1]
      <4>1. n + 1 \in 1..(Len(around) + 1)
        BY <1>2, <2>2
      <4>2. LET r == SubSeq(around, n + 1, Len(around))
            IN /\ Len(r) = Len(around) - (n + 1) + 1
               /\ \A j \in 1..(Len(around) - (n + 1) + 1) : r[j] = around[n + 1 + j - 1]
        BY <1>1, <4>1, Lasts
      <4> QED
        BY <2>1, <4>2
    <3>2. Len(around) - (n + 1) + 1 = Len(C) - n /\ \A j \in Nat : n + 1 + j - 1 = n + j
      BY <1>2, <2>2
    <3> QED
      BY <3>1, <3>2
  <2>6. ASSUME NEW j \in 1..(Len(C) - n)
        PROVE  /\ L[j] \in 1..Depth /\ frames[L[j]].fun = prog.up[g][j]
               /\ frames[L[j]].chain = SubSeq(L, j + 1, Len(L))
    <3>1. n + j \in 1..Len(C) /\ j + 1 \in 1..(Len(C) - n + 1) /\ n + j + 1 = n + (j + 1)
      BY <1>2, <2>2
    <3>2. SubSeq(L, j + 1, Len(C) - n) = SubSeq(C, n + (j + 1), Len(C))
      BY <1>1, <2>2, <3>1, RestOfRest
    <3> HIDE DEF L
    <3> QED
      BY <1>2, <2>3, <2>5, <3>1, <3>2
  <2> HIDE DEF L
  <2>7. Leads(L, g, Depth)
    BY <2>3, <2>4, <2>5, <2>6 DEF Leads
  <2> QED
    BY <2>1, <2>7 DEF C
<1> QED
  BY <1>3, <1>4, <1>5, <1>6 DEF Opens

LEMMA JsrStep ==
  ASSUME Inv, Jsr
  PROVE  Inv'
<1> DEFINE n == Instr.n
           t == prog.at[Instr.to]
           callee == prog.owner[t]
           c == prog.map[pc].calls
           o == c[Len(c)]
           g == [Cur EXCEPT !.stack = Without(n), !.marks = Unmarked]
           fs == [frames EXCEPT ![Depth] = g]
           new == Called(callee, LastMark, Arguments(n), pc + 1)
<1>1. ~Halted /\ Instr.op = "jsr" /\ Has(n) /\ Cur.marks # <<>> /\ prog' = prog /\ pc' = t
  BY DEF Jsr, Is, Keep
<1>2. /\ t \in DOMAIN prog.code /\ prog.map[t] = [height |-> 0, calls |-> <<>>]
      /\ n = prog.nargs[callee] /\ Finishes(prog, pc, n, prog.value[callee])
      /\ LevelFits(prog, o, callee)
  BY <1>1, Current DEF StepFits, Instr
<1>3. /\ callee \in DOMAIN prog.up /\ n \in Nat /\ prog.value[callee] \in {0, 1}
  <2>1. callee \in DOMAIN prog.up
    BY <1>2 DEF Inv, IsProgram
  <2> QED
    BY <1>2, <2>1 DEF Inv, IsProgram
<1>4. /\ Cur \in Frame /\ Depth \in Nat \ {0} /\ pc \in Nat /\ Len(Cur.stack) \in Nat
      /\ Unmarked \in Seq(Seq(Nat)) /\ LastMark \in Seq(Nat) /\ o \in DOMAIN prog.code
      /\ MarkFits(Cur, Depth, Len(c), o)
  <2>1. /\ Cur \in Frame /\ Depth \in Nat \ {0} /\ pc \in Nat /\ Len(Cur.stack) \in Nat
    BY <1>1, Current
  <2>2. /\ Unmarked \in Seq(Seq(Nat)) /\ LastMark \in Seq(Nat) /\ o \in DOMAIN prog.code
        /\ Len(c) \in Nat \ {0} /\ \A j \in 1..Len(c) : MarkFits(Cur, Depth, j, c[j])
    BY <1>1, LastCall
  <2> HIDE DEF c
  <2> QED
    BY <2>1, <2>2
<1>5. /\ Without(n) \in Seq(Int) /\ Len(Without(n)) = Len(Cur.stack) - n
      /\ Arguments(n) \in Seq(Int)
  <2> HIDE DEF n
  <2> QED
    BY <1>1, <1>3, Operands
<1>6. /\ g \in Frame /\ g.fun = Cur.fun /\ g.chain = Cur.chain /\ g.ret = Cur.ret
      /\ g.stack = Without(n) /\ g.marks = Unmarked
  BY <1>4, <1>5 DEF Frame
<1>7. /\ new \in Frame /\ new.fun = callee /\ new.chain = LastMark /\ new.ret = pc + 1
      /\ new.stack = <<>> /\ new.marks = <<>>
  <2> HIDE DEF callee
  <2> QED
    BY <1>3, <1>4, <1>5 DEF Frame, Called
<1>8. frames' = Append(fs, new)
  BY DEF Jsr, Cur
<1> HIDE DEF g, new
<1>9. /\ fs \in Seq(Frame) /\ Len(fs) = Depth
      /\ \A k \in 1..Depth : fs[k] = IF k = Depth THEN g ELSE frames[k]
  <2>1. frames \in Seq(Frame) /\ Depth = Len(frames) /\ Depth \in 1..Len(frames)
    BY <1>4 DEF Inv, Types, Depth
  <2> QED
    BY <1>6, <2>1, ExceptSeq
<1> HIDE DEF fs
<1>10. /\ frames' \in Seq(Frame) /\ Depth' = Depth + 1
       /\ frames'[Depth + 1] = new /\ \A k \in 1..Depth : frames'[k] = fs[k]
  <2>1. /\ Append(fs, new) \in Seq(Frame) /\ Len(Append(fs, new)) = Len(fs) + 1
        /\ \A k \in 1..Len(fs) : Append(fs, new)[k] = fs[k]
        /\ Append(fs, new)[Len(fs) + 1] = new
    BY <1>7, <1>9, AppendProperties
  <2> QED
    BY <1>8, <1>9, <2>1 DEF Depth
<1>11. frames'[Depth] = g /\ \A k \in 1..(Depth - 1) : frames'[k] = frames[k]
  BY <1>4, <1>9, <1>10
<1>12. Types'
  BY <1>1, <1>10, SameTypes DEF Jsr, Keep, Inv, Types
<1>13. FramesLinked'
  <2>1. \A k \in 1..Depth : frames'[k].fun = frames[k].fun /\ frames'[k].chain = frames[k].chain
    <3> TAKE k \in 1..Depth
    <3>1. CASE k = Depth
      BY <1>6, <1>11, <3>1 DEF Cur
    <3>2. CASE k # Depth
      <4>1. k \in 1..(Depth - 1)
        BY <1>4, <3>2
      <4> QED
        BY <1>11, <4>1
    <3> QED
      BY <3>1, <3>2
  <2>2. ASSUME NEW k \in 1..Depth
        PROVE  LeadsIn(frames', frames'[k].chain, frames'[k].fun, k - 1)
    <3>1. \A j \in 1..k : frames'[j].fun = frames[j].fun /\ frames'[j].chain = frames[j].chain
      BY <1>4, <2>1
    <3> QED
      BY <1>1, <3>1, LeadsKept
  <2>3. Leads(LastMark, callee, Depth)
    <3>1. LastMark = Links(prog.code[o], Depth, Cur.chain)
      <4>1. Len(c) = Len(Cur.marks)
        BY <1>1, LastCall
      <4> QED
        BY <1>4, <4>1 DEF MarkFits, LastMark
    <3>2. prog.code[o].op \in Opens /\ prog.owner[o] = Cur.fun
      BY <1>4 DEF MarkFits
    <3> HIDE DEF o, callee
    <3>3. Leads(Links(prog.code[o], Depth, Cur.chain), callee, Depth)
      BY <1>1, <1>2, <1>3, <1>4, <3>2, NewLinks
    <3> QED
      BY <3>1, <3>3
  <2> HIDE DEF callee
  <2>4. /\ Len(LastMark) = Len(prog.up[callee])
        /\ \A j \in DOMAIN LastMark :
             /\ LastMark[j] \in 1..Depth
             /\ frames'[LastMark[j]].fun = prog.up[callee][j]
             /\ frames'[LastMark[j]].chain = SubSeq(LastMark, j + 1, Len(LastMark))
    BY <2>1, <2>3 DEF Leads
  <2>5. LeadsIn(frames', new.chain, new.fun, Depth)
    BY <1>7, <2>4 DEF LeadsIn
  <2>6. ASSUME NEW k \in 1..Depth'
        PROVE  LeadsIn(frames', frames'[k].chain, frames'[k].fun, k - 1)
    <3>1. CASE k = Depth + 1
      <4>1. k - 1 = Depth
        BY <1>4, <3>1
      <4> QED
        BY <1>10, <2>5, <3>1, <4>1
    <3>2. CASE k # Depth + 1
      <4>1. k \in 1..Depth
        BY <1>4, <1>10, <3>2
      <4> QED
        BY <2>2, <4>1
    <3> QED
      BY <3>1, <3>2
  <2> QED
    BY <1>1, <1>10, <2>6, LinkedThen
<1>14. Fits(new, Depth + 1, t, 0)
  <2>1. prog.owner[t] = new.fun
    BY <1>7
  <2>2. prog.map[t].height = 0 /\ prog.map[t].calls = <<>>
    <3> HIDE DEF t
    <3> QED
      BY <1>2
  <2>3. Len(new.stack) + 0 = 0 /\ 1..Len(new.marks) = {}
    BY <1>7
  <2>4. Len(new.marks) = Len(prog.map[t].calls)
    BY <1>7, <2>2
  <2> QED
    BY <1>2, <2>1, <2>2, <2>3, <2>4 DEF Fits
<1>15. Fits(g, Depth, pc + 1, prog.value[callee])
  <2>1. /\ Len(g.stack) + prog.value[callee] = Len(Cur.stack) - n + prog.value[callee]
        /\ prog.value[callee] \in Nat /\ prog.value[callee] \in Int /\ n \in Int
    BY <1>3, <1>5, <1>6
  <2> HIDE DEF callee, n
  <2> QED
    BY <1>1, <1>2, <1>6, <2>1, CallMade
<1>16. ASSUME NEW k \in 1..Depth' PROVE FrameFits(k)'
  <2>1. CASE k = Depth + 1
    <3>1. Place(k)' = t /\ Owed(k)' = 0
      BY <1>1, <1>10, <2>1 DEF Place, Owed
    <3> QED
      BY <1>1, <1>10, <1>14, <2>1, <3>1, FitsThen
  <2>2. CASE k = Depth
    <3>1. k # Depth' /\ frames'[k + 1] = new
      BY <1>4, <1>10, <2>2
    <3>2. Place(k)' = pc + 1 /\ Owed(k)' = prog.value[callee]
      BY <1>1, <1>7, <3>1 DEF Place, Owed
    <3> QED
      BY <1>1, <1>11, <1>15, <2>2, <3>2, FitsThen
  <2>3. CASE k \notin {Depth, Depth + 1}
    <3>1. k \in 1..(Depth - 1) /\ Depth' >= Depth /\ Depth' \in Nat
      BY <1>4, <1>10, <2>3
    <3> QED
      BY <1>1, <1>6, <1>11, <3>1, BelowKept
  <2> QED
    BY <2>1, <2>2, <2>3
<1> QED
  BY <1>1, <1>12, <1>13, <1>16 DEF Inv

---------------------------------------------------------------------------
(* Returns.                                                                *)

LEMMA ReturnStep ==
  ASSUME Inv, Return
  PROVE  Inv'
<1> DEFINE result == IF Instr.op = "return_v" THEN <<Operand(0)>> ELSE <<>>
           rest == SubSeq(frames, 1, Depth - 1)
<1>1. /\ ~Halted /\ Instr.op \in {"return", "return_v"} /\ prog' = prog /\ pc' = Cur.ret
      /\ Instr.op = "return_v" => Has(1)
  BY DEF Return, Is
<1>2. Depth \in Nat \ {0} /\ frames \in Seq(Frame) /\ Depth = Len(frames) /\ Cur = frames[Depth]
  BY <1>1, Current DEF Inv, Types, Depth, Cur
<1>3. result \in Seq(Int) /\ Len(result) = prog.value[Cur.fun]
  <2>1. prog.owner[pc] = Cur.fun
    BY <1>1, Current
  <2>2. CASE Instr.op = "return"
    <3>1. prog.value[prog.owner[pc]] = 0
      BY <1>1, <2>2, Current DEF StepFits, Instr
    <3> QED
      BY <2>1, <2>2, <3>1
  <2>3. CASE Instr.op = "return_v"
    <3>1. prog.value[prog.owner[pc]] = 1
      BY <1>1, <2>3, Current DEF StepFits, Instr
    <3>2. Operand(0) \in Int
      BY <1>1, <2>3, Operands
    <3> QED
      BY <2>1, <2>3, <3>1, <3>2
  <2> QED
    BY <1>1, <2>2, <2>3
<1>4. /\ rest \in Seq(Frame) /\ Len(rest) = Depth - 1
      /\ \A k \in 1..(Depth - 1) : rest[k] = frames[k]
  BY <1>2, Firsts
<1>5. out' \in Seq([fun : Names, args : Seq(Int)])
  <2>1. [fun |-> "main", args |-> result] \in [fun : Names, args : Seq(Int)]
    <3> HIDE DEF result
    <3> QED
      BY <1>3 DEF Names
  <2>2. out \in Seq([fun : Names, args : Seq(Int)])
    BY DEF Inv, Types
  <2>3. out' = out \/ out' = Append(out, [fun |-> "main", args |-> result])
    BY DEF Return
  <2> DEFINE R == [fun : Names, args : Seq(Int)]
             r == [fun |-> "main", args |-> result]
  <2> HIDE DEF result, R, r
  <2>4. out \in Seq(R) /\ r \in R
    BY <2>1, <2>2 DEF R, r
  <2>5. Append(out, r) \in Seq(R)
    BY <2>4, AppendProperties
  <2>6. out' \in Seq(R)
    BY <2>3, <2>4, <2>5 DEF r
  <2> QED
    BY <2>6 DEF R
<1>6. frames' = IF rest = <<>> THEN <<>>
                ELSE [rest EXCEPT ![Depth - 1].stack = @ \o result]
  BY DEF Return
<1>7. UNCHANGED <<prog, globals, heap>>
  BY DEF Return
<1> HIDE DEF result, rest
<1>8. CASE rest = <<>>
  <2>1. frames' = <<>> /\ Depth' = 0
    BY <1>6, <1>8 DEF Depth
  <2>2. Types'
    BY <1>5, <1>7, <2>1, SameTypes DEF Inv, Types
  <2>3. frames' \in Seq(Frame) /\ 1..Depth' = {}
    BY <2>1
  <2>4. FramesLinked'
    BY <1>1, <2>3, LinkedThen
  <2> QED
    BY <1>1, <2>2, <2>3, <2>4 DEF Inv
<1>9. CASE rest # <<>>
  <2> DEFINE d == Depth - 1
             g == [rest[d] EXCEPT !.stack = rest[d].stack \o result]
  <2>1. d \in Nat \ {0} /\ d \in 1..Len(rest) /\ d \in 1..Depth /\ d + 1 = Depth
    BY <1>2, <1>4, <1>9, EmptySeq
  <2>2. rest[d] \in Frame /\ rest[d] = frames[d] /\ rest[d].stack \in Seq(Int)
    <3>1. rest[d] \in Frame /\ rest[d] = frames[d]
      BY <1>4, <2>1, ElementOfSeq
    <3> QED
      BY <3>1 DEF Frame
  <2>3. /\ rest[d].stack \o result \in Seq(Int)
        /\ Len(rest[d].stack \o result) = Len(frames[d].stack) + prog.value[Cur.fun]
    <3> HIDE DEF d
    <3>1. /\ rest[d].stack \o result \in Seq(Int)
          /\ Len(rest[d].stack \o result) = Len(rest[d].stack) + Len(result)
      BY <1>3, <2>2, ConcatProperties
    <3> QED
      BY <1>3, <2>2, <3>1
  <2>4. /\ g \in Frame /\ g.fun = frames[d].fun /\ g.chain = frames[d].chain
        /\ g.marks = frames[d].marks /\ g.ret = frames[d].ret
        /\ Len(g.stack) = Len(frames[d].stack) + prog.value[Cur.fun]
    BY <2>2, <2>3 DEF Frame
  <2>5. frames' = [rest EXCEPT ![d] = g]
    BY <1>6, <1>9
  <2> HIDE DEF g, d
  <2>6. /\ frames' \in Seq(Frame) /\ Len(frames') = Len(rest)
        /\ \A k \in 1..Len(rest) : frames'[k] = IF k = d THEN g ELSE rest[k]
    BY <1>4, <2>1, <2>4, <2>5, ExceptSeq
  <2>7. Depth' = d /\ Len(rest) = d
    BY <1>4, <2>6 DEF Depth, d
  <2>8. /\ frames'[d] = g
        /\ \A k \in 1..(d - 1) : frames'[k] = frames[k]
    <3>1. ASSUME NEW k \in 1..(d - 1) PROVE frames'[k] = frames[k]
      <4>1. k \in 1..Len(rest) /\ k # d /\ k \in 1..(Depth - 1)
        BY <2>1, <2>7
      <4> QED
        BY <1>4, <2>6, <4>1
    <3> QED
      BY <2>1, <2>6, <3>1
  <2>9. Types'
    BY <1>5, <1>7, <2>6, SameTypes DEF Inv, Types
  <2>10. FramesLinked'
    <3>1. \A k \in 1..d : frames'[k].fun = frames[k].fun /\ frames'[k].chain = frames[k].chain
      <4> TAKE k \in 1..d
      <4>1. k = d \/ k \in 1..(d - 1)
        BY <2>1
      <4> QED
        BY <2>4, <2>8, <4>1
    <3>2. Depth' <= Depth
      BY <2>1, <2>7
    <3> QED
      BY <1>1, <2>6, <2>7, <3>1, <3>2, LinkedKept
  <2>11. ASSUME NEW k \in 1..d PROVE FrameFits(k)'
    <3>1. CASE k = d
      <4>1. Place(k)' = Cur.ret /\ Owed(k)' = 0
        BY <1>1, <2>7, <3>1 DEF Place, Owed
      <4>2. Place(k) = Cur.ret /\ Owed(k) = prog.value[Cur.fun]
        <5>1. k # Depth /\ frames[k + 1] = Cur
          BY <1>2, <2>1, <3>1
        <5> QED
          BY <5>1 DEF Place, Owed
      <4>3. Len(frames'[k].stack) + Owed(k)' = Len(frames[k].stack) + Owed(k)
        <5>1. Len(frames[d].stack) \in Nat
          BY <2>2, LenProperties
        <5>2. prog.value[Cur.fun] \in Nat
          BY <1>3, LenProperties
        <5> QED
          BY <2>4, <2>8, <3>1, <4>1, <4>2, <5>1, <5>2
      <4> QED
        BY <1>1, <2>1, <2>4, <2>8, <3>1, <4>1, <4>2, <4>3, FrameKept
    <3>2. CASE k # d
      <4>1. k \in 1..(d - 1) /\ k \in 1..Depth /\ k # Depth /\ k + 1 \in 1..d
        BY <2>1, <3>2
      <4>2. frames'[k + 1].ret = frames[k + 1].ret /\ frames'[k + 1].fun = frames[k + 1].fun
        <5>1. k + 1 = d \/ k + 1 \in 1..(d - 1)
          BY <2>1, <4>1
        <5> QED
          BY <2>4, <2>8, <5>1
      <4>3. Place(k)' = Place(k) /\ Owed(k)' = Owed(k)
        BY <1>1, <2>7, <3>2, <4>1, <4>2 DEF Place, Owed
      <4> QED
        BY <1>1, <2>8, <4>1, <4>3, FrameKept
    <3> QED
      BY <3>1, <3>2
  <2> QED
    BY <1>1, <2>7, <2>9, <2>10, <2>11 DEF Inv
<1> QED
  BY <1>8, <1>9

---------------------------------------------------------------------------
\* The start of a program.
LEMMA Started ==
  ASSUME IsProgram(prog), Verified(prog), Start
  PROVE  Inv
<1> DEFINE f == Called(prog.owner[Entry(prog)], <<>>, <<>>, 1)
<1>1. frames = <<f>> /\ Depth = 1 /\ frames[1] = f
  BY DEF Start, FirstFrames, Depth
<1>2. /\ Entry(prog) \in DOMAIN prog.code /\ pc = Entry(prog)
      /\ prog.map[Entry(prog)] = [height |-> 0, calls |-> <<>>]
      /\ prog.up[prog.owner[Entry(prog)]] = <<>>
  BY DEF Start, Verified
<1>3. /\ f \in Frame /\ f.fun = prog.owner[pc] /\ f.chain = <<>>
      /\ f.stack = <<>> /\ f.marks = <<>>
  <2>1. prog.owner[Entry(prog)] \in DOMAIN prog.up
    BY <1>2 DEF IsProgram
  <2> QED
    BY <1>2, <2>1 DEF Called, Frame
<1> HIDE DEF f
<1>4. Types
  <2>1. globals \in Seq(Int)
    BY Zeros DEF Start, FirstGlobals, IsProgram
  <2> QED
    BY <1>1, <1>3, <2>1, Single DEF Types, Start
<1>5. FramesLinked
  <2>1. Leads(f.chain, f.fun, 0)
    BY <1>2, <1>3 DEF Leads
  <2> QED
    BY <1>1, <2>1 DEF FramesLinked
<1>6. FrameFits(1)
  <2>1. Place(1) = pc /\ Owed(1) = 0
    BY <1>1 DEF Place, Owed
  <2>2. prog.map[pc].height = 0 /\ prog.map[pc].calls = <<>>
    BY <1>2
  <2>3. Len(f.stack) + 0 = 0 /\ 1..Len(f.marks) = {} /\ Len(f.marks) = Len(prog.map[pc].calls)
    BY <1>3, <2>2
  <2> QED
    BY <1>1, <1>2, <1>3, <2>1, <2>2, <2>3 DEF FrameFits, Fits
<1> QED
  BY <1>1, <1>4, <1>5, <1>6 DEF Inv

LEMMA Steps ==
  ASSUME Inv, [Next]_vars
  PROVE  Inv'
<1>1. CASE UNCHANGED vars
  <2>1. prog' = prog /\ pc' = pc /\ frames' = frames /\ Depth' = Depth
    BY <1>1 DEF vars, Depth
  <2>2. Types'
    BY <1>1, SameTypes DEF vars, Inv, Types
  <2>3. FramesLinked'
    BY <2>1 DEF Inv, FramesLinked, Leads
  <2>4. ASSUME NEW k \in 1..Depth PROVE FrameFits(k)'
    <3>1. Place(k)' = Place(k) /\ Owed(k)' = Owed(k)
      BY <2>1 DEF Place, Owed
    <3> QED
      BY <2>1, <3>1, FrameKept
  <2> QED
    BY <2>1, <2>2, <2>3, <2>4 DEF Inv
<1>2. CASE Next
  BY <1>2, ConstantStep, ArithmeticStep, LoadStep, LoadGlobalStep, StoreStep, StoreGlobalStep,
     IncrementStep, NewArrayStep, LoadElementStep, StoreElementStep, PopStep, MarkStep, GotoStep,
     BranchStep, OpenStep, JsrStep, JsreStep, EsrStep, ReturnStep DEF Next
<1> QED
  BY <1>1, <1>2

\* The invariant gives the properties.
LEMMA Balanced ==
  ASSUME Inv
  PROVE  StackBalanced
<1>1. ASSUME Is({"return"}) PROVE Cur.stack = <<>> /\ Cur.marks = <<>>
  <2>1. ~Halted /\ Instr.op = "return"
    BY <1>1 DEF Is
  <2>2. Len(Cur.stack) = 0 /\ Len(Cur.marks) = 0
    BY <2>1, Current DEF StepFits, Instr
  <2>3. Cur.stack \in Seq(Int) /\ Cur.marks \in Seq(Seq(Nat))
    BY <2>1, Current DEF Frame
  <2> QED
    BY <2>2, <2>3, EmptySeq
<1>2. ASSUME Is({"return_v"}) PROVE Len(Cur.stack) = 1 /\ Cur.marks = <<>>
  <2>1. ~Halted /\ Instr.op = "return_v"
    BY <1>2 DEF Is
  <2>2. Len(Cur.stack) = 1 /\ Len(Cur.marks) = 0
    BY <2>1, Current DEF StepFits, Instr
  <2>3. Cur.marks \in Seq(Seq(Nat))
    BY <2>1, Current DEF Frame
  <2> QED
    BY <2>2, <2>3, EmptySeq
<1> QED
  BY <1>1, <1>2 DEF StackBalanced

LEMMA Typed ==
  ASSUME Inv
  PROVE  TypeOK
<1>1. ~Halted => pc \in DOMAIN prog.code
  BY Current
<1>2. ASSUME NEW k \in DOMAIN frames
      PROVE  /\ frames[k].fun \in DOMAIN prog.up
             /\ \A s \in {frames[k].chain, frames[k].locals, frames[k].stack} :
                  \A j \in DOMAIN s : s[j] \in Int
  <2>1. frames[k] \in Frame
    BY LenProperties, ElementOfSeq DEF Inv, Types
  <2>2. /\ frames[k].fun \in DOMAIN prog.up /\ frames[k].chain \in Seq(Nat)
        /\ frames[k].locals \in Seq(Int) /\ frames[k].stack \in Seq(Int)
    BY <2>1 DEF Frame
  <2>3. \A s \in Seq(Int) : \A j \in DOMAIN s : s[j] \in Int
    BY LenProperties, ElementOfSeq
  <2>4. frames[k].chain \in Seq(Int)
    BY <2>2, SeqMonotonic
  <2> QED
    BY <2>2, <2>3, <2>4
<1>3. \A j \in DOMAIN globals : globals[j] \in Int
  BY LenProperties, ElementOfSeq DEF Inv, Types
<1> QED
  BY <1>1, <1>2, <1>3 DEF TypeOK

LEMMA InvAlways == IsProgram(prog) /\ Verified(prog) /\ Spec => []Inv
<1>1. IsProgram(prog) /\ Verified(prog) /\ Start => Inv
  BY Started
<1>2. Inv /\ [Next]_vars => Inv'
  BY Steps
<1> QED
  BY <1>1, <1>2, PTL DEF Spec

(***************************************************************************)
(* The machine never leaves its code, and its frames and variables hold    *)
(* numbers (what code_gen.c emits for a program that passes Verified).     *)
(***************************************************************************)
THEOREM CodeStaysTyped == IsProgram(prog) /\ Verified(prog) /\ Spec => []TypeOK
BY InvAlways, Typed, PTL

(***************************************************************************)
(* However calls are nested and recurse, the static links of every active  *)
(* call lead to active calls of the functions around it (the levels that   *)
(* CG_CGproccall gives isr, isrl, isrn and isrg).                          *)
(***************************************************************************)
THEOREM LinksSound == IsProgram(prog) /\ Verified(prog) /\ Spec => []FramesLinked
<1>1. Inv => FramesLinked
  BY DEF Inv
<1> QED
  BY <1>1, InvAlways, PTL

(***************************************************************************)
(* Every return finds exactly the result of its function on the stack, and *)
(* no call that has been opened and not made (what the statements that     *)
(* code_gen.c emits leave behind).                                         *)
(***************************************************************************)
THEOREM ReturnsSound == IsProgram(prog) /\ Verified(prog) /\ Spec => []StackBalanced
BY InvAlways, Balanced, PTL
=============================================================================
