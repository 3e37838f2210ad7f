---------------------------- MODULE StackMachine ----------------------------
(***************************************************************************)
(* The stack machine that runs what code_gen.c emits.  The machine is not  *)
(* part of the repository; it is modelled from how the code generator uses *)
(* its instructions.  A program is its code together with what a static    *)
(* look at the code gives:                                                 *)
(*   code    the instructions                                              *)
(*   at      where each label stands                                       *)
(*   consts  the table of constants                                        *)
(*   externs the imported functions: how many arguments, 0 or 1 results    *)
(*   owner   the function an instruction belongs to                        *)
(*   up      the functions around a function, innermost first              *)
(*   value   0 for functions without, 1 for functions with a result        *)
(*   nargs   the number of parameters of a function                        *)
(*   map     for every instruction, how many operands lie on the stack     *)
(*           when it is reached and which calls are open (the instructions *)
(*           that opened them)                                             *)
(* The letters that tell types apart, as in iload and bload, are left out. *)
(***************************************************************************)
EXTENDS Sequences, Operators

CONSTANT NoLabel     \* stands in instructions without a label

VARIABLES
  prog,       \* the program that is run
  pc,         \* the next instruction
  frames,     \* the calls that have not returned, the current one last
  globals,    \* the values of the global variables
  heap,       \* the arrays that have been made
  out         \* the calls of imported functions so far, in order

vars == <<prog, pc, frames, globals, heap, out>>

\* Instructions with no operand, an index, a level and an index, a label.
Op0(op) == [op |-> op, n |-> 0, i |-> 0, to |-> NoLabel]
Op1(op, i) == [op |-> op, n |-> 0, i |-> i, to |-> NoLabel]
Op2(op, n, i) == [op |-> op, n |-> n, i |-> i, to |-> NoLabel]
OpL(op, n, l) == [op |-> op, n |-> n, i |-> 0, to |-> l]

---------------------------------------------------------------------------
Halted == frames = <<>>
Depth == Len(frames)
Cur == frames[Depth]
Instr == prog.code[pc]
Slot == Instr.i + 1    \* the indices of the machine start at 0
Is(ops) == ~Halted /\ Instr.op \in ops

\* The operand at distance d from the top of the stack.
Operand(d) == Cur.stack[Len(Cur.stack) - d]
Has(n) == Len(Cur.stack) >= n
Without(n) == SubSeq(Cur.stack, 1, Len(Cur.stack) - n)

\* The current frame goes on with another stack.
Stack(s) == frames' = [frames EXCEPT ![Depth].stack = s]
Next1 == pc' = pc + 1
Keep == UNCHANGED <<prog, globals, heap, out>>

\* Instructions that replace the n topmost operands by v.
Replace(n, v) == Has(n) /\ Stack(Append(Without(n), v)) /\ Next1 /\ Keep

Constant ==
  \/ Is({"loadc"}) /\ Slot \in DOMAIN prog.consts /\ Replace(0, prog.consts[Slot])
  \/ Is({"loadc_v"}) /\ Replace(0, Instr.n)

Arithmetic ==
  \/ Is(Binary) /\ Has(2) /\ Replace(2, BinaryValue(Instr.op, Operand(1), Operand(0)))
  \/ Is(Unary) /\ Has(1) /\ Replace(1, UnaryValue(Instr.op, Operand(0)))

\* The frame that a load or store with a level reaches.
Reached ==
  IF Instr.op \in {"loadn", "storen"} THEN Cur.chain[Instr.n] ELSE Depth

InReach ==
  /\ Instr.op \in {"loadn", "storen"} => Instr.n \in DOMAIN Cur.chain
  /\ Slot \in DOMAIN frames[Reached].locals

Load == Is({"load", "loadn"}) /\ InReach /\ Replace(0, frames[Reached].locals[Slot])

LoadGlobal ==
  Is({"loadg"}) /\ Slot \in DOMAIN globals /\ Replace(0, globals[Slot])

Store ==
  /\ Is({"store", "storen"}) /\ InReach /\ Has(1)
  /\ frames' = [frames EXCEPT ![Reached].locals[Slot] = Operand(0),
                              ![Depth].stack = Without(1)]
  /\ Next1 /\ Keep

StoreGlobal ==
  /\ Is({"storeg"}) /\ Has(1) /\ Slot \in DOMAIN globals
  /\ globals' = [globals EXCEPT ![Slot] = Operand(0)]
  /\ Stack(Without(1)) /\ Next1
  /\ UNCHANGED <<prog, heap, out>>

\* iinc and idec with a constant of the table, or with 1.
Increment ==
  /\ Is({"inc", "dec", "inc_1", "dec_1"})
  /\ Slot \in DOMAIN Cur.locals
  /\ Instr.op \in {"inc", "dec"} => Instr.n + 1 \in DOMAIN prog.consts
  /\ LET by == IF Instr.op \in {"inc", "dec"} THEN prog.consts[Instr.n + 1] ELSE 1
     IN frames' = [frames EXCEPT ![Depth].locals[Slot] =
                     IF Instr.op \in {"inc", "inc_1"} THEN @ + by ELSE @ - by]
  /\ Next1 /\ Keep

\* A new array; the reference that stands for it is its place in the heap.
NewArray ==
  /\ Is({"newa"}) /\ Has(1) /\ Operand(0) >= 0
  /\ heap' = Append(heap, [i \in 1..Operand(0) |-> 0])
  /\ Stack(Append(Without(1), Len(heap) + 1)) /\ Next1
  /\ UNCHANGED <<prog, globals, out>>

InArray(ref, i) == ref \in DOMAIN heap /\ i + 1 \in DOMAIN heap[ref]

\* The index lies under the reference.
LoadElement ==
  /\ Is({"loada"}) /\ Has(2) /\ InArray(Operand(0), Operand(1))
  /\ Replace(2, heap[Operand(0)][Operand(1) + 1])

StoreElement ==
  /\ Is({"storea"}) /\ Has(3) /\ InArray(Operand(0), Operand(1))
  /\ heap' = [heap EXCEPT ![Operand(0)][Operand(1) + 1] = Operand(2)]
  /\ Stack(Without(3)) /\ Next1
  /\ UNCHANGED <<prog, globals, out>>

Pop == Is({"pop"}) /\ Has(1) /\ Stack(Without(1)) /\ Next1 /\ Keep

Mark == Is({"label"}) /\ Next1 /\ UNCHANGED frames /\ Keep

Jump == Is({"jump"}) /\ pc' = prog.at[Instr.to] /\ UNCHANGED frames /\ Keep

Branch ==
  /\ Is({"branch_t", "branch_f"}) /\ Has(1) /\ Stack(Without(1))
  /\ pc' = IF Operand(0) = Truth(Instr.op = "branch_t") THEN prog.at[Instr.to] ELSE pc + 1
  /\ Keep

(***************************************************************************)
(* A call is opened before its arguments are computed.  What is noted for  *)
(* it are the frames that the new function will reach by its static links, *)
(* innermost first: for a function within the current one, the current     *)
(* frame and all it reaches; for a function n + 1 levels further out, what *)
(* the current frame reaches without the first n.                          *)
(***************************************************************************)
Links(i, k, chain) ==
  CASE i.op = "isrl" -> <<k>> \o chain
    [] i.op = "isr" -> chain
    [] i.op = "isrn" -> SubSeq(chain, i.n + 1, Len(chain))
    [] i.op = "isrg" -> <<>>

Open ==
  /\ Is({"isrl", "isr", "isrn", "isrg"})
  /\ frames' = [frames EXCEPT ![Depth].marks = Append(@, Links(Instr, Depth, Cur.chain))]
  /\ Next1 /\ Keep

Called(f, chain, args, ret) ==
  [fun |-> f, chain |-> chain, locals |-> args,
   stack |-> <<>>, marks |-> <<>>, ret |-> ret]

Arguments(n) == SubSeq(Cur.stack, Len(Cur.stack) - n + 1, Len(Cur.stack))
LastMark == Cur.marks[Len(Cur.marks)]
Unmarked == SubSeq(Cur.marks, 1, Len(Cur.marks) - 1)

Jsr ==
  /\ Is({"jsr"}) /\ Has(Instr.n) /\ Cur.marks # <<>>
  /\ frames' = Append([frames EXCEPT ![Depth].stack = Without(Instr.n),
                                     ![Depth].marks = Unmarked],
                      Called(prog.owner[prog.at[Instr.to]], LastMark,
                             Arguments(Instr.n), pc + 1))
  /\ pc' = prog.at[Instr.to]
  /\ Keep

\* An imported function is seen from outside; one with a result gives the
\* number of such calls before.
Jsre ==
  /\ Is({"jsre"}) /\ Cur.marks # <<>>
  /\ LET e == prog.externs[Slot]
         answer == IF e.result = 1 THEN <<Len(out)>> ELSE <<>>
     IN /\ Has(e.args)
        /\ frames' = [frames EXCEPT ![Depth].stack = Without(e.args) \o answer,
                                    ![Depth].marks = Unmarked]
        /\ out' = Append(out, [fun |-> e.name, args |-> Arguments(e.args)])
  /\ Next1
  /\ UNCHANGED <<prog, globals, heap>>

\* Room for the variables of the function, 0 at first.
Esr ==
  /\ Is({"esr"})
  /\ frames' = [frames EXCEPT ![Depth].locals = @ \o [i \in 1..Instr.i |-> 0]]
  /\ Next1 /\ Keep

Return ==
  /\ Is({"return", "return_v"})
  /\ Instr.op = "return_v" => Has(1)
  /\ LET rest == SubSeq(frames, 1, Depth - 1)
         result == IF Instr.op = "return_v" THEN <<Operand(0)>> ELSE <<>>
     IN /\ frames' = IF rest = <<>> THEN <<>>
                     ELSE [rest EXCEPT ![Depth - 1].stack = @ \o result]
        /\ out' = IF rest = <<>> THEN Append(out, [fun |-> "main", args |-> result]) ELSE out
  /\ pc' = Cur.ret
  /\ UNCHANGED <<prog, globals, heap>>

---------------------------------------------------------------------------
\* The function main is called, whatever the program.
Entry(p) == p.at[p.main]
FirstFrames(p) == <<Called(p.owner[Entry(p)], <<>>, <<>>, 1)>>
FirstGlobals(p) == [i \in 1..p.globals |-> 0]

Start ==
  /\ pc = Entry(prog)
  /\ frames = FirstFrames(prog)
  /\ globals = FirstGlobals(prog)
  /\ heap = <<>>
  /\ out = <<>>

Next ==
  \/ Constant \/ Arithmetic \/ Load \/ LoadGlobal \/ Store \/ StoreGlobal
  \/ Increment \/ NewArray \/ LoadElement \/ StoreElement \/ Pop
  \/ Mark \/ Jump \/ Branch
  \/ Open \/ Jsr \/ Jsre \/ Esr \/ Return

Spec == Start /\ [][Next]_vars

---------------------------------------------------------------------------
(***************************************************************************)
(* What one look at the code can tell (code_gen.c never looks back).       *)
(***************************************************************************)
\* The types of the parts of a program.
IsProgram(p) ==
  /\ DOMAIN p.code \subseteq Nat
  /\ \A k \in DOMAIN p.code :
       /\ p.code[k].n \in Int /\ p.code[k].i \in Nat
       /\ p.code[k].op = "isrn" => p.code[k].n \in Nat
  /\ p.owner \in [DOMAIN p.code -> DOMAIN p.up]
  /\ p.map \in [DOMAIN p.code -> [height : Nat, calls : Seq(DOMAIN p.code)]]
  /\ \A f \in DOMAIN p.up :
       /\ p.up[f] \in Seq(DOMAIN p.up)
       /\ p.value[f] \in {0, 1} /\ p.nargs[f] \in Nat
  /\ p.consts \in Seq(Int) /\ p.globals \in Nat
  /\ \A j \in DOMAIN p.externs : p.externs[j].args \in Nat /\ p.externs[j].result \in {0, 1}

\* The instruction at k gives the function g the static links of its place.
LevelFits(p, k, g) ==
  LET i == p.code[k]
      around == p.up[p.owner[k]]
  IN \/ i.op = "isrl" /\ p.up[g] = <<p.owner[k]>> \o around
     \/ i.op = "isr" /\ p.up[g] = around
     \/ /\ i.op = "isrn" /\ i.n \in 0..Len(around)
        /\ p.up[g] = SubSeq(around, i.n + 1, Len(around))
     \/ i.op = "isrg" /\ p.up[g] = <<>>

\* How many operands an instruction takes and leaves, calls and returns aside.
Taken(i) ==
  CASE i.op = "storea" -> 3
    [] i.op \in Binary \cup {"loada"} -> 2
    [] i.op \in Unary \cup {"store", "storen", "storeg", "newa", "pop"} -> 1
    [] i.op \in {"branch_t", "branch_f"} -> 1
    [] OTHER -> 0

Given(i) ==
  IF i.op \in Binary \cup Unary \cup {"loada", "newa", "loadc", "loadc_v",
                                     "load", "loadn", "loadg"} THEN 1 ELSE 0

Opens == {"isrl", "isr", "isrn", "isrg"}
Ends == {"jump", "return", "return_v"}

Goes(p, k, t, h, c) ==
  t \in DOMAIN p.code /\ p.owner[t] = p.owner[k] /\ p.map[t] = [height |-> h, calls |-> c]

\* The call opened last is made: n arguments make place for the result.
Finishes(p, k, n, result) ==
  LET h == p.map[k].height
      c == p.map[k].calls
  IN c # <<>> /\ h >= n /\ Goes(p, k, k + 1, h - n + result, SubSeq(c, 1, Len(c) - 1))

StepFits(p, k) ==
  LET i == p.code[k]
      h == p.map[k].height
      c == p.map[k].calls
      left == h - Taken(i) + Given(i)
  IN
  /\ h >= Taken(i)
  /\ i.op \notin Ends \cup Opens \cup {"jsr", "jsre"} => Goes(p, k, k + 1, left, c)
  /\ i.op \in {"jump", "branch_t", "branch_f"} => Goes(p, k, p.at[i.to], left, c)
  /\ i.op \in Opens => Goes(p, k, k + 1, h, Append(c, k))
  /\ i.op = "jsr" =>
       LET t == p.at[i.to]
           g == p.owner[t]
       IN /\ t \in DOMAIN p.code /\ p.map[t] = [height |-> 0, calls |-> <<>>]
          /\ i.n = p.nargs[g]
          /\ Finishes(p, k, i.n, p.value[g])
          /\ LevelFits(p, c[Len(c)], g)
  /\ i.op = "jsre" =>
       /\ i.i + 1 \in DOMAIN p.externs
       /\ Finishes(p, k, p.externs[i.i + 1].args, p.externs[i.i + 1].result)
  /\ i.op = "return" => h = 0 /\ c = <<>> /\ p.value[p.owner[k]] = 0
  /\ i.op = "return_v" => h = 1 /\ c = <<>> /\ p.value[p.owner[k]] = 1

Verified(p) ==
  /\ Entry(p) \in DOMAIN p.code
  /\ p.map[Entry(p)] = [height |-> 0, calls |-> <<>>]
  /\ p.up[p.owner[Entry(p)]] = <<>>
  /\ \A k \in DOMAIN p.code : StepFits(p, k)

---------------------------------------------------------------------------
\* The types of the variables.
TypeOK ==
  /\ ~Halted => pc \in DOMAIN prog.code
  /\ \A k \in DOMAIN frames :
       LET f == frames[k]
       IN /\ f.fun \in DOMAIN prog.up
          /\ \A s \in {f.chain, f.locals, f.stack} : \A j \in DOMAIN s : s[j] \in Int
  /\ \A j \in DOMAIN globals : globals[j] \in Int

\* The frames a chain names are those of the functions around f, from the
\* inside out, and each of them reaches the rest of the chain itself.
Leads(chain, f, before) ==
  /\ Len(chain) = Len(prog.up[f])
  /\ \A j \in DOMAIN chain :
       /\ chain[j] \in 1..before
       /\ frames[chain[j]].fun = prog.up[f][j]
       /\ frames[chain[j]].chain = SubSeq(chain, j + 1, Len(chain))

(***************************************************************************)
(* The static links of every active call, and those put down for calls     *)
(* that have been opened, lead to active calls of the functions around the *)
(* called one: the levels of CG_CGproccall are right.                      *)
(***************************************************************************)
FramesLinked ==
  \A k \in DOMAIN frames : Leads(frames[k].chain, frames[k].fun, k - 1)

(***************************************************************************)
(* A function returns with its result, or nothing, as the only operand,    *)
(* and with no call open: what an expression leaves on the stack is        *)
(* exactly what the statement around it takes.                             *)
(***************************************************************************)
StackBalanced ==
  /\ Is({"return"}) => Cur.stack = <<>> /\ Cur.marks = <<>>
  /\ Is({"return_v"}) => Len(Cur.stack) = 1 /\ Cur.marks = <<>>
=============================================================================
