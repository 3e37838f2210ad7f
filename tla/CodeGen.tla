------------------------------ MODULE CodeGen ------------------------------
(***************************************************************************)
(* code_gen.c: the traversal of a prepared program that emits its code.    *)
(* The program is as in SourceProgram; names are those DeclarationCheck     *)
(* leaves, which tell scopes apart.  Nodes are records with a kind k; what *)
(* is emitted is a node of kind "inst".                                    *)
(* The traversal is a sequence todo of nodes, with the type that is        *)
(* expected of them (the static variable type; it matters where it is      *)
(* void): a handler emits and puts the children of its node, and what it   *)
(* emits between and behind them, in front.  For loops are in ForLoopCode. *)
(***************************************************************************)
EXTENDS StackMachine, SourceProgram

CONSTANTS
  Sources,          \* the programs that are compiled and run, as a sequence
  NodesOf(_, _)     \* all nodes in the body of a function of a program

\* A function that can be seen: it is in a function around the caller, which
\* any set has that has the caller and goes outwards.
Visible(p, f, g) ==
  \/ p.funs[g].parent = Global
  \/ \A A \in SUBSET DOMAIN p.funs :
       f \in A /\ (\A h \in A : p.funs[h].parent \in A \cup {Global}) => p.funs[g].parent \in A

\* What the grammar and the passes before leave.
NodeFits(p, f, n) ==
  LET sub == NodesOf(p, f)
      subs == Seq(sub)
  IN \/ n.k = "num" /\ n.v \in Int
     \/ n.k = "var"
     \/ n.k = "elem" /\ n.is \in subs \ {<<>>}
     \/ n.k = "bin" /\ n.op \in Binary /\ {n.l, n.r} \subseteq sub
     \/ n.k = "mon" /\ n.op \in Unary /\ n.e \in sub
     \/ n.k = "call" /\ n.args \in subs /\ (n.f \in DOMAIN p.funs => Visible(p, f, n.f))
     \/ n.k = "cond" /\ {n.c, n.t, n.e} \subseteq sub
     \/ n.k = "pop" /\ {n.e, n.by} \subseteq sub
     \/ n.k = "assign" /\ n.e \in sub
     \/ n.k = "alloc" /\ n.ds \in subs \ {<<>>}
     \/ n.k = "store" /\ n.e \in sub /\ n.is \in subs \ {<<>>}
     \/ n.k = "return" /\ n.e \in sub
     \/ n.k = "if" /\ n.c \in sub /\ {n.then, n.else} \subseteq subs
     \/ n.k \in {"while", "dowhile"} /\ n.c \in sub /\ n.body \in subs

\* Each function is declared once, in the function around it.
FunsFit(p) ==
  LET Declares(fs, parent) ==
        /\ fs \in Seq(DOMAIN p.funs)
        /\ \A j, k \in DOMAIN fs : fs[j] = fs[k] => j = k
        /\ \A g \in DOMAIN p.funs : p.funs[g].parent = parent <=> Contains(fs, g)
  IN /\ Global \notin DOMAIN p.funs
     /\ Declares(p.decls, Global)
     /\ \A f \in DOMAIN p.funs : Declares(p.funs[f].locals, f)

ASSUME SourcesAssumption ==
  \A i \in DOMAIN Sources :
    LET p == Sources[i]
    IN /\ FunsFit(p)
       /\ \A f \in DOMAIN p.funs :
            /\ p.funs[f].body \in Seq(NodesOf(p, f))
            /\ \A n \in NodesOf(p, f) : NodeFits(p, f, n)

VARIABLES
  source,    \* the program
  todo,      \* the rest of the traversal
  code,      \* what has been emitted
  owner,     \* the function each instruction was emitted for
  consts,    \* constant_table
  counts,    \* if_counter, loop_counter, lfun_counter: ifs, loops, lfs
  label,     \* the labels of functions
  fundef,    \* the function that is traversed
  failed     \* an assertion of the compiler has failed

gen == <<source, todo, code, owner, consts, counts, label, fundef, failed>>

---------------------------------------------------------------------------
\* How many scopes further out a declaration is found, and -1 - that in the
\* outermost scope.
LevelIn(scopes, declaring) ==
  LET n == SelectInSeq(scopes, LAMBDA s : s \in declaring) - 1
  IN IF n + 1 = Len(scopes) THEN -n - 1 ELSE n

VarLevel(p, f, x) ==
  LevelIn(Scopes(p, f), {s \in ToSet(Scopes(p, f)) : Contains(Table(p, s), x)})
FunLevel(p, f, x) ==
  LevelIn(Scopes(p, f), {s \in ToSet(Scopes(p, f)) : Contains(Functions(p, s), x)})

\* mutant: the variables of a function are counted from 0 again
SlotOfVars(p, s, x) ==
  SelectInSeq(IF s # Global /\ Contains(p.funs[s].vars, x)
              THEN p.funs[s].vars ELSE Table(p, s), LAMBDA y : y = x) - 1

\* The parameters come first in a frame, then the variables.
SlotOf(p, s, x) == SelectInSeq(Table(p, s), LAMBDA y : y = x) - 1

Access(x, near, far, top) ==
  LET l == VarLevel(source, fundef, x)
      scope == IF l < 0 THEN Global ELSE Scopes(source, fundef)[l + 1]
      i == SlotOf(source, scope, x)
  IN IF l = 0 THEN Op1(near, i) ELSE IF l > 0 THEN Op2(far, l, i) ELSE Op1(top, i)

LoadVar(x) == Access(x, "load", "loadn", "loadg")
StoreVar(x) == Access(x, "store", "storen", "storeg")

\* mutant: isrn is given the level itself
OpenCallAt(callee) ==
  LET l == FunLevel(source, fundef, callee)
  IN IF l = 0 THEN Op0("isrl") ELSE IF l > 0 THEN Op2("isrn", l, 0) ELSE Op0("isrg")

OpenCall(callee) ==
  LET l == FunLevel(source, fundef, callee)
  IN IF l = 0 THEN Op0("isrl")
     ELSE IF l > 0 THEN IF l = 1 THEN Op0("isr") ELSE Op2("isrn", l - 1, 0)
     ELSE Op0("isrg")

Import(callee) == SelectInSeq(source.externs, LAMBDA e : e.name = callee)

Result(callee) ==
  IF callee \in DOMAIN source.funs THEN source.funs[callee].value
  ELSE source.externs[Import(callee)].result

GoTo(callee, n) ==
  IF callee \in DOMAIN source.funs THEN OpL("jsr", n, label[callee])
  ELSE Op1("jsre", Import(callee) - 1)

---------------------------------------------------------------------------
Sub(node, t) == [node |-> node, t |-> t]
Inst(i) == Sub([k |-> "inst", i |-> i], "void")
LabelHere(l) == Inst(OpL("label", 0, l))
Stmts(ss) == [j \in DOMAIN ss |-> Sub(ss[j], "void")]

Node == Head(todo).node
Type == Head(todo).t
At(k) == ~failed /\ todo # <<>> /\ Node.k = k

\* Handling the node means to handle these.
Then(items) == todo' = items \o Tail(todo)

Emit(is) ==
  /\ code' = code \o is
  /\ owner' = owner \o [j \in DOMAIN is |-> fundef]

Used(what) == counts' = [counts EXCEPT ![what] = @ + 1]

ConstSlot(v) == SelectInSeq(consts', LAMBDA w : w = v) - 1

\* A constant gets a place in the table when it is first used.
WithConst(v) == consts' = IF Contains(consts, v) THEN consts ELSE Append(consts, v)

\* The handlers change the rest of the traversal and, at most, what they name.
Only(others) == UNCHANGED <<vars, source, label, fundef, failed>> /\ UNCHANGED others

CGinst == At("inst") /\ Emit(<<Node.i>>) /\ Then(<<>>) /\ Only(<<consts, counts>>)

\* The assembler knows no negative numbers: they are negated when loaded.
CGint ==
  /\ At("num")
  /\ LET v == Node.v
         a == IF v < 0 THEN -v ELSE v
     IN IF v \in {-1, 0, 1}
        THEN Emit(<<Op2("loadc_v", v, 0)>>) /\ UNCHANGED consts
        ELSE /\ WithConst(a)
             /\ Emit(<<Op1("loadc", ConstSlot(a))>> \o IF v < 0 THEN <<Op0("neg")>> ELSE <<>>)
  /\ Then(<<>>) /\ Only(counts)

CGvar == At("var") /\ Emit(<<LoadVar(Node.x)>>) /\ Then(<<>>) /\ Only(<<consts, counts>>)

\* The index comes first, then the array.
CGarrayexpr ==
  /\ At("elem")
  /\ Then(<<Sub(Node.is[1], "int"), Inst(LoadVar(Node.a)), Inst(Op0("loada"))>>)
  /\ Only(<<code, owner, consts, counts>>)

CGbinop ==
  /\ At("bin")
  /\ Then(<<Sub(Node.l, "int"), Sub(Node.r, "int"), Inst(Op0(Node.op))>>)
  /\ Only(<<code, owner, consts, counts>>)

CGmonop ==
  /\ At("mon")
  /\ Then(<<Sub(Node.e, Type), Inst(Op0(Node.op))>>)
  /\ Only(<<code, owner, consts, counts>>)

\* mutant: the result of a call that is a statement stays on the stack
DropsNever(t, callee) == FALSE

\* Where no value is wanted, the one that comes back is dropped.
Drops(t, callee) == t = "void" /\ Result(callee) = 1

CGproccall ==
  /\ At("call")
  /\ Emit(<<OpenCall(Node.f)>>)
  /\ Then([j \in DOMAIN Node.args |-> Sub(Node.args[j], "int")]
          \o <<Inst(GoTo(Node.f, Len(Node.args)))>>
          \o IF Drops(Type, Node.f) THEN <<Inst(Op0("pop"))>> ELSE <<>>)
  /\ Only(<<consts, counts>>)

CGternary ==
  /\ At("cond")
  /\ LET n == counts.ifs
     IN Then(<<Sub(Node.c, "bool"), Inst(OpL("branch_f", 0, <<"pfalse", n>>)),
               Sub(Node.t, Type), Inst(OpL("jump", 0, <<"pend", n>>)),
               LabelHere(<<"pfalse", n>>), Sub(Node.e, Type), LabelHere(<<"pend", n>>)>>)
  /\ Used("ifs") /\ Only(<<code, owner, consts>>)

\* A value that is not needed, and what stands in its place.
CGpop ==
  /\ At("pop")
  /\ LET dropped == <<Sub(Node.e, "int"), Inst(Op0("pop"))>>
         by == <<Sub(Node.by, Type)>>
     IN Then(IF Node.before THEN by \o dropped ELSE dropped \o by)
  /\ Only(<<code, owner, consts, counts>>)

---------------------------------------------------------------------------
\* x = x + c, c + x, x - c or c - x for a variable of the function itself.
Counts ==
  /\ VarLevel(source, fundef, Node.x) = 0
  /\ Node.e.k = "bin" /\ Node.e.op \in {"add", "sub"}
  /\ \/ Node.e.l = [k |-> "var", x |-> Node.x] /\ Node.e.r.k = "num"
     \/ Node.e.r = [k |-> "var", x |-> Node.x] /\ Node.e.l.k = "num"

Counted == IF Node.e.r.k = "num" THEN Node.e.r.v ELSE Node.e.l.v

CGassign ==
  /\ At("assign") /\ ~Counts
  /\ Then(<<Sub(Node.e, "int"), Inst(StoreVar(Node.x))>>)
  /\ Only(<<code, owner, consts, counts>>)

\* mutant: nothing is emitted for -1 either
SkippedUnlessPositive(v) == v <= 0

\* No instruction is needed to add 0.
Skipped(v) == v = 0

\* iinc_1, idec_1, iinc and idec.
CGassignCounts ==
  /\ At("assign") /\ Counts /\ Counted >= -1
  /\ LET v == Counted
         i == SlotOf(source, fundef, Node.x)
         up == (Node.e.op = "add") = (v > 0)
     IN CASE Skipped(v) -> UNCHANGED <<code, owner, consts>>
          [] v \in {1, -1} -> /\ Emit(<<Op1(IF up THEN "inc_1" ELSE "dec_1", i)>>)
                              /\ UNCHANGED consts
          [] v > 1 -> /\ WithConst(v)
                      /\ Emit(<<Op2(IF up THEN "inc" ELSE "dec", ConstSlot(v), i)>>)
  /\ Then(<<>>) /\ Only(counts)

\* Numbers below -1 are not expected (assert).
CGassignFails ==
  /\ At("assign") /\ Counts /\ Counted < -1
  /\ failed' = TRUE
  /\ UNCHANGED <<vars, source, todo, code, owner, consts, counts, label, fundef>>

CGassignAlloc ==
  /\ At("alloc")
  /\ Then(<<Sub(Node.ds[1], "int"), Inst(Op0("newa")), Inst(StoreVar(Node.a))>>)
  /\ Only(<<code, owner, consts, counts>>)

\* The value lies under the index, the index under the array.
CGarrayassign ==
  /\ At("store")
  /\ Then(<<Sub(Node.e, "int"), Sub(Node.is[1], "int"), Inst(LoadVar(Node.a)), Inst(Op0("storea"))>>)
  /\ Only(<<code, owner, consts, counts>>)

\* mutant: the value is computed and nothing returns
CGretstatementStays ==
  /\ At("return")
  /\ Then(IF source.funs[fundef].value = 0 THEN <<Inst(Op0("return"))>>
          ELSE <<Sub(Node.e, "int")>>)
  /\ Only(<<code, owner, consts, counts>>)

CGretstatement ==
  /\ At("return")
  /\ Then(IF source.funs[fundef].value = 0 THEN <<Inst(Op0("return"))>>
          ELSE <<Sub(Node.e, "int"), Inst(Op0("return_v"))>>)
  /\ Only(<<code, owner, consts, counts>>)

CGifstatement ==
  /\ At("if")
  /\ LET n == counts.ifs
         c == <<Sub(Node.c, "bool")>>
         To(op, l) == <<Inst(OpL(op, 0, <<l, n>>))>>
         then == Stmts(Node.then)
         else == Stmts(Node.else)
     IN Then(CASE then # <<>> /\ else # <<>> ->
                    c \o To("branch_f", "else") \o then \o To("jump", "ifend")
                      \o To("label", "else") \o else \o To("label", "ifend")
               [] then = <<>> /\ else # <<>> ->
                    c \o To("branch_t", "ifend") \o else \o To("label", "ifend")
               [] then # <<>> /\ else = <<>> ->
                    c \o To("branch_f", "ifend") \o then \o To("label", "ifend")
               [] OTHER -> Append(c, Inst(Op0("pop"))))
  /\ Used("ifs") /\ Only(<<code, owner, consts>>)

\* mutant: the label behind a loop is made when the loop has been counted
CGwhileloopLate ==
  /\ At("while")
  /\ LET n == counts.loops
     IN Then(<<LabelHere(<<"while", n>>), Sub(Node.c, "bool"),
               Inst(OpL("branch_f", 0, <<"whileend", n>>))>> \o Stmts(Node.body)
             \o <<Inst(OpL("jump", 0, <<"while", n>>)), LabelHere(<<"whileend", n + 1>>)>>)
  /\ Used("loops") /\ Only(<<code, owner, consts>>)

CGwhileloop ==
  /\ At("while")
  /\ LET n == counts.loops
     IN Then(<<LabelHere(<<"while", n>>), Sub(Node.c, "bool"),
               Inst(OpL("branch_f", 0, <<"whileend", n>>))>> \o Stmts(Node.body)
             \o <<Inst(OpL("jump", 0, <<"while", n>>)), LabelHere(<<"whileend", n>>)>>)
  /\ Used("loops") /\ Only(<<code, owner, consts>>)

\* mutant: the label of a do-while loop is not counted
CGdowhileloopUncounted ==
  /\ At("dowhile")
  /\ LET l == <<"while", counts.loops>>
     IN Then(<<LabelHere(l)>> \o Stmts(Node.body)
             \o <<Sub(Node.c, "bool"), Inst(OpL("branch_t", 0, l))>>)
  /\ Only(<<code, owner, consts, counts>>)

CGdowhileloop ==
  /\ At("dowhile")
  /\ LET l == <<"while", counts.loops>>
     IN Then(<<LabelHere(l)>> \o Stmts(Node.body)
             \o <<Sub(Node.c, "bool"), Inst(OpL("branch_t", 0, l))>>)
  /\ Used("loops") /\ Only(<<code, owner, consts>>)

---------------------------------------------------------------------------
\* mutant: a procedure whose last statement is compound gets no return
EndsOpenIfSimple(body, value) ==
  value = 0 /\ (body = <<>> \/ body[Len(body)].k \in {"assign", "call"})

\* A procedure returns at its end unless its last statement does.
EndsOpen(body, value) == value = 0 /\ (body = <<>> \/ body[Len(body)].k # "return")

\* The local functions get labels of their own before anything is emitted
\* that could call them; they come after the function itself.
CGfundef ==
  /\ At("fundef")
  /\ LET f == Node.f
         def == source.funs[f]
         room == Len(def.vars)
         end == IF EndsOpen(def.body, def.value) THEN <<Inst(Op0("return"))>> ELSE <<>>
     IN /\ fundef' = f
        /\ code' = code \o <<OpL("label", 0, label[f])>>
                        \o IF room = 0 THEN <<>> ELSE <<Op1("esr", room)>>
        /\ owner' = owner \o IF room = 0 THEN <<f>> ELSE <<f, f>>
        /\ label' = [g \in DOMAIN label |->
                       IF Contains(def.locals, g)
                       THEN <<"lf", counts.lfs + SelectInSeq(def.locals, LAMBDA h : h = g) - 1, g>>
                       ELSE label[g]]
        /\ counts' = [counts EXCEPT !.lfs = @ + Len(def.locals)]
        /\ Then(Stmts(def.body) \o end
                \o [j \in DOMAIN def.locals |-> Sub([k |-> "fundef", f |-> def.locals[j]], "void")])
  /\ UNCHANGED <<vars, source, consts, failed>>

\* Functions of the outermost level keep their names.
CGprogram(p) ==
  /\ source = p
  /\ todo = [j \in DOMAIN p.decls |-> Sub([k |-> "fundef", f |-> p.decls[j]], "void")]
  /\ code = <<>> /\ owner = <<>> /\ consts = <<>>
  /\ counts = [ifs |-> 0, loops |-> 0, lfs |-> 0]
  /\ label = [f \in DOMAIN p.funs |-> <<"f", f>>]
  /\ fundef = Global /\ failed = FALSE

Traverse ==
  \/ CGinst \/ CGint \/ CGvar \/ CGarrayexpr \/ CGbinop \/ CGmonop \/ CGproccall
  \/ CGternary \/ CGpop \/ CGassign \/ CGassignCounts \/ CGassignFails
  \/ CGassignAlloc \/ CGarrayassign \/ CGretstatement \/ CGifstatement
  \/ CGwhileloop \/ CGdowhileloop \/ CGfundef

\* The code is handed to the assembler.
HandOver ==
  /\ todo = <<>> /\ ~failed
  /\ code' = <<>> /\ owner' = <<>>
  /\ UNCHANGED <<source, todo, consts, counts, label, fundef, failed>>

GenSpec ==
  (\E i \in DOMAIN Sources : CGprogram(Sources[i])) /\ [][Traverse \/ HandOver]_gen

(***************************************************************************)
(* No label is ever emitted twice, whatever is nested in what and however  *)
(* many functions there are (if_counter, loop_counter, lfun_counter).      *)
(***************************************************************************)
LabelsOnce ==
  [][\A k \in (Len(code) + 1)..Len(code') :
       code'[k].op = "label" => \A j \in 1..(k - 1) : code'[j] # code'[k]]_code

(***************************************************************************)
(* When all has been emitted, every label that is jumped to is in the code *)
(* of the same function, and the label of every function that is called is *)
(* there: calls are emitted before most of the functions they lead to.     *)
(***************************************************************************)
JumpsLand ==
  todo = <<>> =>
    \A k \in DOMAIN code : code[k].op \in {"jump", "branch_t", "branch_f", "jsr"} =>
      \E j \in DOMAIN code :
        /\ code[j].op = "label" /\ code[j].to = code[k].to
        /\ code[k].op # "jsr" => owner[j] = owner[k]
=============================================================================
