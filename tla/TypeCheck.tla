----------------------------- MODULE TypeCheck -----------------------------
(***************************************************************************)
(* TypeChecking: one traversal with four static variables.  type is the    *)
(* type that is expected of an expression; where any is expected (anytype) *)
(* the expression sets type to its own.  What is left of the traversal is  *)
(* a sequence todo of nodes and of what the handlers do when their         *)
(* children have been visited.                                             *)
(*                                                                         *)
(* A program [decls, fun] is one function with the functions within it,    *)
(* whose names have been resolved: decls has an entry for every name that  *)
(* is declared, with its type, dims (0 for a scalar), what it is (var,     *)
(* loop or fun) and, for a function, its params.  Expressions:             *)
(*   lit t, var x, elem a is, cast to e, not e, neg e, bin op l r,         *)
(*   call f args, list es (of an array)                                    *)
(* and statements:                                                         *)
(*   assign x e, store a is e, call f args, return es (<<>> or <<e>>),     *)
(*   if c then else, while c body, dowhile c body, for from to by body     *)
(***************************************************************************)
EXTENDS Naturals, Sequences, TLC

CONSTANTS
  Programs,
  Nodes,      \* the nodes of their trees
  Null        \* DT_NULL

Number == {"int", "float"}
Types == Number \cup {"bool"}

Arithmetic == {"add", "mul", "sub", "div", "mod"}
Comparison == {"lt", "le", "gt", "ge", "eq", "ne"}
Logic == {"and", "or"}

\* The types an operator is defined on.
Operands(op) ==
  CASE op \in {"sub", "div", "lt", "le", "gt", "ge", "neg"} -> Number
    [] op \in {"add", "mul", "eq", "ne"} -> Types
    [] op = "mod" -> {"int"}
    [] op \in Logic \cup {"not"} -> {"bool"}

---------------------------------------------------------------------------
Expr == {n \in Nodes : n.k \in {"lit", "var", "elem", "cast", "not", "neg", "bin", "call"}}
Initialiser == Expr \cup {n \in Nodes : n.k = "list"}
Stmt == {n \in Nodes : n.k \in {"assign", "store", "call", "return", "if", "while", "dowhile", "for"}}
OfKind(k) == {n \in Nodes : n.k = k}

\* The grammar.
WellFormed(n) ==
  \/ n.k = "lit" /\ n.t \in Types
  \/ n.k = "var"
  \/ n.k = "elem" /\ n.is \in Seq(Expr)
  \/ n.k = "cast" /\ n.to \in Types /\ n.e \in Expr
  \/ n.k \in {"not", "neg"} /\ n.e \in Expr
  \/ n.k = "bin" /\ n.op \in Arithmetic \cup Comparison \cup Logic /\ n.l \in Expr /\ n.r \in Expr
  \/ n.k = "call" /\ n.args \in Seq(Expr)
  \/ n.k = "list" /\ n.es \in Seq(Initialiser)
  \/ n.k = "assign" /\ n.e \in Expr
  \/ n.k = "store" /\ n.is \in Seq(Expr) /\ n.e \in Expr
  \/ n.k = "return" /\ n.es \in Seq(Expr)
  \/ n.k = "if" /\ n.c \in Expr /\ n.then \in Seq(Stmt) /\ n.else \in Seq(Stmt)
  \/ n.k \in {"while", "dowhile"} /\ n.c \in Expr /\ n.body \in Seq(Stmt)
  \/ n.k = "for" /\ {n.from, n.to, n.by} \subseteq Expr /\ n.body \in Seq(Stmt)
  \/ n.k = "vardec" /\ n.type \in Types /\ n.sizes \in Seq(Expr) /\ n.init \in Seq(Initialiser)
  \/ /\ n.k = "fundef" /\ n.result \in Types \cup {"void"}
     /\ n.vars \in Seq(OfKind("vardec")) /\ n.locals \in Seq(OfKind("fundef")) /\ n.body \in Seq(Stmt)

Resolved(p) ==
  /\ p.fun \in OfKind("fundef") /\ p.unresolved \in BOOLEAN
  /\ \A x \in DOMAIN p.decls :
       LET d == p.decls[x]
       IN /\ d.type \in Types \cup {"void"} /\ d.dims \in Nat
          /\ d.params \in Seq([type : Types, dims : Nat])

ASSUME NullAssumption == Null \notin Types \cup {"void"}
ASSUME NodesAssumption == \A n \in Nodes : WellFormed(n)
ASSUME ProgramsAssumption == \A p \in Programs : Resolved(p)

VARIABLES
  source,     \* the program
  todo,       \* the rest of the traversal
  st,         \* type, any (anytype), ret (rettype), returned (has_return)
  wrong,      \* an error has been reported
  notes       \* BINOP_ARGTYPE and CAST_FROMTYPE

vars == <<source, todo, st, wrong, notes>>

---------------------------------------------------------------------------
Node == Head(todo)
At(k) == todo # <<>> /\ Node.k = k
Then(items) == todo' = items \o Tail(todo)
Decl(x) == source.decls[x]
Known(x) == x \in DOMAIN source.decls

\* What is left to do when children have been visited.
Restore(t) == [k |-> "restore", type |-> t]
Expect(t) == [k |-> "expect", type |-> t]
SetReturned(b) == [k |-> "setreturned", b |-> b]
Later(k, node, t) == [k |-> k, node |-> node, type |-> t]

\* An expression has type t (type_check).
Takes(s, t) == IF s.any THEN [s EXCEPT !.type = t, !.any = FALSE] ELSE s
Differs(s, t) == ~s.any /\ s.type # t

Report(b) == wrong' = (wrong \/ b)
Note(node, t) == notes' = [n \in {node} |-> t] @@ notes

\* mutant: any type is still expected behind it.
SkipLeaving == Then(<<>>) /\ UNCHANGED <<source, st, wrong, notes>>

\* A name without a declaration has been reported before.
Skip ==
  /\ st' = IF st.any THEN [st EXCEPT !.type = Null, !.any = FALSE] ELSE st
  /\ Then(<<>>) /\ UNCHANGED <<source, wrong, notes>>

CA_TClit ==
  /\ At("lit")
  /\ st' = Takes(st, Node.t) /\ Report(Differs(st, Node.t))
  /\ Then(<<>>) /\ UNCHANGED <<source, notes>>

CA_TCvar ==
  /\ At("var") /\ Known(Node.x)
  /\ LET d == Decl(Node.x)
     IN st' = Takes(st, d.type) /\ Report(d.dims > 0 \/ Differs(st, d.type))
  /\ Then(<<>>) /\ UNCHANGED <<source, notes>>

VarSkipped == At("var") /\ ~Known(Node.x) /\ Skip

CA_TCarrayexpr ==
  /\ At("elem") /\ Known(Node.a)
  /\ LET d == Decl(Node.a)
         s == Takes(st, d.type)
     IN /\ Report(d.dims # Len(Node.is) \/ Differs(st, d.type))
        /\ st' = [s EXCEPT !.type = "int"]
        /\ Then(Append(Node.is, Restore(s.type)))
  /\ UNCHANGED <<source, notes>>

ArrayexprSkipped == At("elem") /\ ~Known(Node.a) /\ Skip

CA_TCcast ==
  /\ At("cast")
  /\ Report(Differs(st, Node.to))
  /\ st' = [st EXCEPT !.type = Null, !.any = TRUE]
  /\ Then(<<Node.e, Later("castend", Node, Takes(st, Node.to).type)>>)
  /\ UNCHANGED <<source, notes>>

CastEnd ==
  /\ At("castend")
  /\ Report(st.type = "void")
  /\ Note(Node.node, st.type)
  /\ st' = [st EXCEPT !.any = FALSE, !.type = Node.type]
  /\ Then(<<>>) /\ UNCHANGED source

\* Where any type is expected, the operand tells it first.
CA_TCmonop ==
  /\ At("not") \/ At("neg")
  /\ IF st.any THEN Then(<<Node.e, Later("monopend", Node, Null)>>) /\ UNCHANGED wrong
     ELSE Then(<<Node.e, Restore(st.type)>>) /\ Report(st.type \notin Operands(Node.k))
  /\ UNCHANGED <<source, st, notes>>

MonopEnd ==
  /\ At("monopend")
  /\ Report(st.type # Null /\ st.type \notin Operands(Node.node.k))
  /\ Then(<<>>) /\ UNCHANGED <<source, st, notes>>

\* The operands of an operator are known to be of the type.
WithOperands(node, operands, t, parent) ==
  Note(node, t) /\ Then(Append(operands, Restore(parent)))

\* A result of type bool, whose operands say of what type they are.
BoolResult == IF st.any THEN "bool" ELSE st.type

CA_TCbinopVoid ==
  /\ At("bin") /\ st.type = "void"
  /\ Report(TRUE)
  /\ WithOperands(Node, <<Node.l, Node.r>>, st.type, st.type)
  /\ UNCHANGED <<source, st>>

CA_TCbinopArithmetic ==
  /\ At("bin") /\ st.type # "void" /\ Node.op \in Arithmetic
  /\ IF st.any THEN /\ Then(<<Node.l, Later("binopend", Node, Null)>>)
                    /\ UNCHANGED <<wrong, notes>>
     ELSE /\ Report(st.type \notin Operands(Node.op))
          /\ WithOperands(Node, <<Node.l, Node.r>>, st.type, st.type)
  /\ UNCHANGED <<source, st>>

CA_TCbinopComparison ==
  /\ At("bin") /\ st.type # "void" /\ Node.op \in Comparison
  /\ Report(BoolResult # "bool")
  /\ st' = [st EXCEPT !.type = Null, !.any = TRUE]
  /\ Then(<<Node.l, Later("binopend", Node, BoolResult)>>)
  /\ UNCHANGED <<source, notes>>

CA_TCbinopLogic ==
  /\ At("bin") /\ st.type # "void" /\ Node.op \in Logic
  /\ Report(BoolResult # "bool")
  /\ st' = [st EXCEPT !.type = "bool", !.any = FALSE]
  /\ WithOperands(Node, <<Node.l, Node.r>>, "bool", BoolResult)
  /\ UNCHANGED source

\* mutant: a comparison has the type of what it compares.
OutcomeOfOperand(item) == st.type

\* The type of the result, once that of the left operand is known.
Outcome(item) == IF item.node.op \in Arithmetic THEN st.type ELSE item.type

BinopEnd ==
  /\ At("binopend")
  /\ IF st.type = Null
     THEN /\ st' = [st EXCEPT !.type = Outcome(Node)] /\ Then(<<>>)
          /\ UNCHANGED <<wrong, notes>>
     ELSE /\ Report(st.type \notin Operands(Node.node.op))
          /\ WithOperands(Node.node, <<Node.node.r>>, st.type, Outcome(Node))
          /\ UNCHANGED st
  /\ UNCHANGED source

RestoreType ==
  /\ At("restore") \/ At("expect")
  /\ st' = [st EXCEPT !.type = Node.type]
  /\ Then(<<>>) /\ UNCHANGED <<source, wrong, notes>>

\* An array is expected for an array; what else is passed is an expression.
ArrayFits(arg, param) ==
  /\ arg.k = "var"
  /\ Known(arg.x) => Decl(arg.x).type = param.type /\ Decl(arg.x).dims = param.dims

Arg(arg, param, t) == [k |-> "arg", arg |-> arg, param |-> param, type |-> t]

\* A call that is a statement may have any result.
CA_TCproccall ==
  /\ At("call") /\ Known(Node.f)
  /\ LET ps == Decl(Node.f).params
         as == Node.args
         both == IF Len(ps) < Len(as) THEN Len(ps) ELSE Len(as)
         s == Takes(st, Decl(Node.f).type)
     IN /\ st' = s
        /\ Report(\/ st.type # "void" /\ Differs(st, Decl(Node.f).type)
                  \/ Len(ps) # Len(as))
        /\ Then([j \in 1..both |-> Arg(as[j], ps[j], s.type)])
  /\ UNCHANGED <<source, notes>>

ArrayArg ==
  /\ At("arg") /\ Node.param.dims > 0
  /\ Report(~ArrayFits(Node.arg, Node.param))
  /\ Then(<<>>) /\ UNCHANGED <<source, st, notes>>

ScalarArg ==
  /\ At("arg") /\ Node.param.dims = 0
  /\ Then(<<Expect(Node.param.type), Node.arg, Restore(Node.type)>>)
  /\ UNCHANGED <<source, st, wrong, notes>>

ProccallSkipped == At("call") /\ ~Known(Node.f) /\ Skip

\* The elements of the list of an array (the generated traversal).
ArrayInit ==
  /\ At("list") /\ Then(Node.es) /\ UNCHANGED <<source, st, wrong, notes>>

---------------------------------------------------------------------------
\* Statements.  Visit: es with type t, then rest with the type of before.
Visit(es, t, rest) ==
  /\ st' = [st EXCEPT !.type = t]
  /\ Then(es \o <<Restore(st.type)>> \o rest)
Leave == Then(<<>>) /\ UNCHANGED st

CA_TCretstatement ==
  /\ At("return")
  /\ Report((Node.es = <<>>) # (st.ret = "void"))
  /\ Visit(Node.es, st.ret, <<SetReturned(TRUE)>>)
  /\ UNCHANGED <<source, notes>>

CA_TCassign ==
  /\ At("assign")
  /\ LET array == Known(Node.x) /\ Decl(Node.x).dims > 0
         iterator == Known(Node.x) /\ Decl(Node.x).is = "loop"
     IN /\ Report(array \/ iterator)
        /\ IF Known(Node.x) /\ ~array /\ ~iterator THEN Visit(<<Node.e>>, Decl(Node.x).type, <<>>)
           ELSE Leave
  /\ UNCHANGED <<source, notes>>

CA_TCarrayassign ==
  /\ At("store")
  /\ IF Known(Node.a) /\ Decl(Node.a).dims > 0
     THEN /\ Report(Decl(Node.a).dims # Len(Node.is))
          /\ Visit(Node.is \o <<Expect(Decl(Node.a).type), Node.e>>, "int", <<>>)
     ELSE Report(Known(Node.a)) /\ Leave
  /\ UNCHANGED <<source, notes>>

CA_TCifstatement ==
  /\ At("if")
  /\ Visit(<<Node.c>>, "bool",
           <<SetReturned(FALSE)>> \o Node.then \o <<Later("else", Node, st.returned)>>)
  /\ UNCHANGED <<source, wrong, notes>>

ElseBlock ==
  /\ At("else")
  /\ st' = [st EXCEPT !.returned = FALSE]
  /\ Then(Node.node.else \o <<[k |-> "ifend", before |-> Node.type, then |-> st.returned]>>)
  /\ UNCHANGED <<source, wrong, notes>>

\* mutant: a return in one of the branches is enough.
IfEndEither ==
  /\ At("ifend")
  /\ st' = [st EXCEPT !.returned = Node.before \/ Node.then \/ st.returned]
  /\ Then(<<>>) /\ UNCHANGED <<source, wrong, notes>>

IfEnd ==
  /\ At("ifend")
  /\ st' = [st EXCEPT !.returned = Node.before \/ (Node.then /\ st.returned)]
  /\ Then(<<>>) /\ UNCHANGED <<source, wrong, notes>>

CA_TCwhileloop ==
  /\ At("while")
  /\ Visit(<<Node.c>>, "bool", Node.body \o <<SetReturned(st.returned)>>)
  /\ UNCHANGED <<source, wrong, notes>>

CA_TCdowhileloop ==
  /\ At("dowhile")
  /\ Visit(<<Node.c>>, "bool", Node.body)
  /\ UNCHANGED <<source, wrong, notes>>

CA_TCforloop ==
  /\ At("for")
  /\ Visit(<<Node.to, Node.by, Node.from>>, "int", Node.body \o <<SetReturned(st.returned)>>)
  /\ UNCHANGED <<source, wrong, notes>>

SetHasReturn ==
  /\ At("setreturned")
  /\ st' = [st EXCEPT !.returned = Node.b]
  /\ Then(<<>>) /\ UNCHANGED <<source, wrong, notes>>

---------------------------------------------------------------------------
\* check_nesting: the initialisers with so many levels of lists.
Nesting[n \in Nat] ==
  IF n = 0 THEN Expr
  ELSE {e \in OfKind("list") : \A j \in DOMAIN e.es : e.es[j] \in Nesting[n - 1]}

\* The sizes of an array, then its initialiser.
CA_TCvardec ==
  /\ At("vardec")
  /\ LET v == Node
         list == v.init # <<>> /\ v.init[1].k = "list"
     IN /\ Report(list /\ (v.sizes = <<>> \/ v.init[1] \notin Nesting[Len(v.sizes)]))
        /\ Visit(v.sizes \o <<Expect(v.type)>> \o IF list /\ v.sizes = <<>> THEN <<>> ELSE v.init,
                 "int", <<>>)
  /\ UNCHANGED <<source, notes>>

CA_TCfundef ==
  /\ At("fundef")
  /\ st' = [st EXCEPT !.type = "void", !.ret = Node.result, !.returned = FALSE]
  /\ Then(Node.vars \o Node.locals \o Node.body \o <<[k |-> "fundefend", before |-> st]>>)
  /\ UNCHANGED <<source, wrong, notes>>

FundefEnd ==
  /\ At("fundefend")
  /\ Report(~st.returned /\ st.ret # "void")
  /\ st' = [Node.before EXCEPT !.any = st.any]
  /\ Then(<<>>) /\ UNCHANGED <<source, notes>>

---------------------------------------------------------------------------
Idle == [type |-> Null, any |-> FALSE, ret |-> Null, returned |-> FALSE]

\* Name resolution has reported every name without a declaration.
CA_TCprogram ==
  /\ source \in Programs
  /\ todo = <<source.fun>> /\ st = Idle /\ notes = <<>>
  /\ wrong = source.unresolved

Next ==
  \/ CA_TClit \/ CA_TCvar \/ VarSkipped \/ CA_TCarrayexpr \/ ArrayexprSkipped
  \/ CA_TCcast \/ CastEnd \/ CA_TCmonop \/ MonopEnd
  \/ CA_TCbinopVoid \/ CA_TCbinopArithmetic \/ CA_TCbinopComparison \/ CA_TCbinopLogic
  \/ BinopEnd \/ RestoreType \/ CA_TCproccall \/ ArrayArg \/ ScalarArg \/ ProccallSkipped \/ ArrayInit
  \/ CA_TCretstatement \/ CA_TCassign \/ CA_TCarrayassign
  \/ CA_TCifstatement \/ ElseBlock \/ IfEnd \/ CA_TCwhileloop \/ CA_TCdowhileloop
  \/ CA_TCforloop \/ SetHasReturn \/ CA_TCvardec \/ CA_TCfundef \/ FundefEnd

Spec == CA_TCprogram /\ [][Next]_vars

---------------------------------------------------------------------------
Done == todo = <<>>

Expressions == {"lit", "var", "elem", "cast", "not", "neg", "bin", "call"}
Statements == {"assign", "store", "return", "if", "while", "dowhile", "for"}

\* What the assertions ask of the static variables: where any type is
\* expected none is given, an expression is visited with an expected type or
\* none and any, a statement with type void, and nothing is left at the end.
StaticsSound ==
  /\ st.any => st.type = Null
  /\ Done => st = Idle
  /\ ~Done => /\ Node.k \in Expressions => st.any \/ st.type # Null
              /\ Node.k \in Statements => ~st.any /\ st.type = "void"
=============================================================================
