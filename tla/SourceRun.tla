----------------------------- MODULE SourceRun -----------------------------
(***************************************************************************)
(* A program is compiled (CodeGen), its code is assembled and run          *)
(* (StackMachine), and what it does is compared with what the source means.*)
(***************************************************************************)
EXTENDS CodeGen, SourceMeaning

CONSTANT NotYet     \* stands for the code before it is assembled

---------------------------------------------------------------------------
(***************************************************************************)
(* The stack map of the code, found by one look from its start to its end: *)
(* next is what lies on the stack behind the instructions seen so far, at  *)
(* what lay there when a label was first jumped to.  Behind a jump or a    *)
(* return, a label no jump has led to begins an empty stack.               *)
(***************************************************************************)
Shape(h, c) == [height |-> h, calls |-> c]

Effect(i, k, s) ==
  LET h == s.height - Taken(i) + Given(i)
      closed == SubSeq(s.calls, 1, Len(s.calls) - 1)
      callee == source.funs[CHOOSE f \in DOMAIN source.funs : label[f] = i.to]
      extern == source.externs[i.i + 1]
  IN CASE i.op \in Opens -> Shape(h, Append(s.calls, k))
       [] i.op = "jsr" -> Shape(h - i.n + callee.value, closed)
       [] i.op = "jsre" -> Shape(h - extern.args + extern.result, closed)
       [] i.op \in Ends -> Shape(0, <<>>)
       [] OTHER -> Shape(h, s.calls)

StackMap ==
  LET look[k \in 0..Len(code)] ==
        IF k = 0 THEN [map |-> <<>>, next |-> Shape(0, <<>>), at |-> <<>>]
        ELSE LET seen == look[k - 1]
                 i == code[k]
                 here == IF i.op = "label" /\ i.to \in DOMAIN seen.at
                         THEN seen.at[i.to] ELSE seen.next
                 left == Effect(i, k, here)
                 jumps == IF i.op \in {"jump", "branch_t", "branch_f"}
                          THEN i.to :> IF i.op = "jump" THEN here ELSE left ELSE <<>>
             IN [map |-> Append(seen.map, here), next |-> left, at |-> seen.at @@ jumps]
  IN look[Len(code)].map

Labels == {code[k].to : k \in {j \in DOMAIN code : code[j].op = "label"}}

\* The assembler finds the labels; the rest is what code_gen.c has put down.
Assembled ==
  [source |-> source, code |-> code, owner |-> owner, consts |-> consts,
   externs |-> source.externs, globals |-> Len(source.globals), main |-> label["main"],
   at |-> [l \in Labels |-> SelectInSeq(code, LAMBDA i : i.op = "label" /\ i.to = l)],
   map |-> StackMap, up |-> Around(source),
   value |-> [f \in DOMAIN source.funs |-> source.funs[f].value],
   nargs |-> [f \in DOMAIN source.funs |-> Len(source.funs[f].params)]]

Assemble ==
  /\ prog = NotYet /\ HandOver
  /\ \E p \in {Assembled} :
       prog' = p /\ pc' = Entry(p) /\ frames' = FirstFrames(p) /\ globals' = FirstGlobals(p)
  /\ UNCHANGED <<heap, out>>

Init ==
  /\ \E i \in DOMAIN Sources : CGprogram(Sources[i])
  /\ prog = NotYet /\ pc = 0
  /\ frames = <<>> /\ globals = <<>> /\ heap = <<>> /\ out = <<>>

RunStep == prog # NotYet /\ Next /\ UNCHANGED gen

\* The code has come to its end, or the compiler has given up.
Done == (failed \/ (prog # NotYet /\ Halted)) /\ UNCHANGED <<vars, gen>>

Steps == Traverse \/ Assemble \/ RunStep \/ Done

\* The machine executes one instruction after the other.
FairSpec == Init /\ [][Steps]_<<vars, gen>> /\ WF_vars(Next)

---------------------------------------------------------------------------
(***************************************************************************)
(* The code does what the source says: the same calls of imported          *)
(* functions with the same arguments in the same order, and the same       *)
(* result (code_gen.c as a whole).                                         *)
(***************************************************************************)
CallsAsInSource == prog # NotYet /\ Halted => out = Meaning(source)

(***************************************************************************)
(* Whatever way the code takes, the operands an instruction needs are on   *)
(* the stack, each opened call is made once with as many arguments as its  *)
(* function has parameters, its static links are those of the place of the *)
(* function, and no label leads out of a function (the labels, the levels  *)
(* and the pops of code_gen.c).                                            *)
(***************************************************************************)
CodeVerified == prog # NotYet /\ pc = Entry(prog) => IsProgram(prog) /\ Verified(prog)

(***************************************************************************)
(* No assertion of the code generator fails for a program it is given      *)
(* (release_assert(val > 1) at code_gen.c:738).                            *)
(***************************************************************************)
AssertsHold == ~failed

(***************************************************************************)
(* The code of every program comes to its end: no loop that ends in the    *)
(* source runs for ever in the code, and no instruction lacks an operand,  *)
(* a frame, a variable or a label (the labels of code_gen.c and the        *)
(* returns it adds).                                                       *)
(***************************************************************************)
Halts == [](prog # NotYet => <>Halted)
=============================================================================
