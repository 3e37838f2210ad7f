----------------------------- MODULE TypeRules -----------------------------
(***************************************************************************)
(* What it means that a program is well typed, and that a function returns *)
(* on all its paths; and that this is what TypeCheck finds out.            *)
(***************************************************************************)
EXTENDS TypeCheck, SequencesExt

Scalar(ds, x) == x \in DOMAIN ds /\ ds[x].dims = 0
Array(ds, x, n) == x \in DOMAIN ds /\ ds[x].dims = n /\ n > 0

\* The type of an expression, or "none".
RECURSIVE TypeOf(_, _)
TypeOf(ds, e) ==
  LET Of(t, fits) == IF fits THEN t ELSE "none"
      Ints(es) == \A j \in DOMAIN es : TypeOf(ds, es[j]) = "int"
      Passed(arg, param) ==
        IF param.dims = 0 THEN TypeOf(ds, arg) = param.type
        ELSE arg.k = "var" /\ Array(ds, arg.x, param.dims) /\ ds[arg.x].type = param.type
      left == TypeOf(ds, e.l)
  IN CASE e.k = "lit" -> e.t
       [] e.k = "var" -> IF Scalar(ds, e.x) THEN ds[e.x].type ELSE "none"
       [] e.k = "elem" ->
            IF Array(ds, e.a, Len(e.is)) THEN Of(ds[e.a].type, Ints(e.is)) ELSE "none"
       [] e.k = "cast" -> Of(e.to, TypeOf(ds, e.e) \in Types)
       [] e.k \in {"not", "neg"} -> Of(TypeOf(ds, e.e), TypeOf(ds, e.e) \in Operands(e.k))
       [] e.k = "bin" -> Of(IF e.op \in Arithmetic THEN left ELSE "bool",
                            left \in Operands(e.op) /\ TypeOf(ds, e.r) = left)
       [] e.k = "call" ->
            IF e.f \notin DOMAIN ds THEN "none"
            ELSE LET ps == ds[e.f].params
                 IN Of(ds[e.f].type, Len(ps) = Len(e.args)
                                     /\ \A j \in DOMAIN ps : Passed(e.args[j], ps[j]))

RECURSIVE StmtsTyped(_, _, _)
StmtsTyped(ds, result, ss) ==
  LET Is(e, t) == TypeOf(ds, e) = t
      Block(b) == StmtsTyped(ds, result, b)
      Typed(s) ==
        CASE s.k = "assign" -> Scalar(ds, s.x) /\ ds[s.x].is # "loop" /\ Is(s.e, ds[s.x].type)
          [] s.k = "store" -> Array(ds, s.a, Len(s.is)) /\ Is(s.e, ds[s.a].type)
                              /\ \A j \in DOMAIN s.is : Is(s.is[j], "int")
          [] s.k = "call" -> TypeOf(ds, s) # "none"
          [] s.k = "return" -> IF s.es = <<>> THEN result = "void"
                               ELSE result # "void" /\ Is(s.es[1], result)
          [] s.k = "if" -> Is(s.c, "bool") /\ Block(s.then) /\ Block(s.else)
          [] s.k \in {"while", "dowhile"} -> Is(s.c, "bool") /\ Block(s.body)
          [] s.k = "for" -> Is(s.from, "int") /\ Is(s.to, "int") /\ Is(s.by, "int") /\ Block(s.body)
  IN \A j \in DOMAIN ss : Typed(ss[j])

\* How control may leave statements: by a return, or behind the last one.
RECURSIVE Ways(_)
Ways(ss) ==
  LET One(s) ==
        CASE s.k = "return" -> {"returns"}
          [] s.k = "if" -> Ways(s.then) \cup Ways(s.else)
          [] s.k \in {"while", "for"} -> {"goes on"} \cup Ways(s.body)
          [] s.k = "dowhile" -> Ways(s.body)
          [] OTHER -> {"goes on"}
  IN FoldLeft(LAMBDA ways, s : IF "goes on" \in ways THEN (ways \ {"goes on"}) \cup One(s) ELSE ways,
              {"goes on"}, ss)

\* A list has as many levels as the array has dimensions.
RECURSIVE Nested(_, _)
Nested(e, n) ==
  IF n = 0 THEN e.k # "list"
  ELSE e.k = "list" /\ \A j \in DOMAIN e.es : Nested(e.es[j], n - 1)

RECURSIVE Elements(_)
Elements(e) == IF e.k = "list" THEN UNION {Elements(e.es[j]) : j \in DOMAIN e.es} ELSE {e}

VarTyped(ds, v) ==
  /\ \A j \in DOMAIN v.sizes : TypeOf(ds, v.sizes[j]) = "int"
  /\ \A j \in DOMAIN v.init :
       /\ \A e \in Elements(v.init[j]) : TypeOf(ds, e) = v.type
       /\ v.init[j].k = "list" => v.sizes # <<>> /\ Nested(v.init[j], Len(v.sizes))

\* A function: its variables with type, sizes and init, its local functions,
\* its result and its statements.
RECURSIVE FunTyped(_, _)
FunTyped(ds, f) ==
  /\ \A j \in DOMAIN f.vars : VarTyped(ds, f.vars[j])
  /\ \A j \in DOMAIN f.locals : FunTyped(ds, f.locals[j])
  /\ StmtsTyped(ds, f.result, f.body)
  /\ f.result # "void" => Ways(f.body) = {"returns"}

Children(n) ==
  CASE n.k \in {"lit", "var"} -> <<>>
    [] n.k = "elem" -> n.is
    [] n.k \in {"cast", "not", "neg", "assign"} -> <<n.e>>
    [] n.k = "bin" -> <<n.l, n.r>>
    [] n.k = "call" -> n.args
    [] n.k \in {"list", "return"} -> n.es
    [] n.k = "store" -> Append(n.is, n.e)
    [] n.k = "if" -> <<n.c>> \o n.then \o n.else
    [] n.k \in {"while", "dowhile"} -> <<n.c>> \o n.body
    [] n.k = "for" -> <<n.from, n.to, n.by>> \o n.body
    [] n.k = "vardec" -> n.sizes \o n.init
    [] n.k = "fundef" -> n.vars \o n.locals \o n.body

RECURSIVE Within(_)
Within(n) == {n} \cup UNION {Within(c) : c \in Range(Children(n))}

---------------------------------------------------------------------------
\* At the end an error has been reported exactly if the program is not well
\* typed or a function with a result has a path without a return.
ErrorsExact == Done => (wrong <=> ~FunTyped(source.decls, source.fun))

\* In a program without errors every operator and cast that code generation
\* reads a type from has the type of its left operand there, and none is left
\* without one.
AnnotatedRight ==
  Done /\ ~wrong =>
    \A n \in {m \in Within(source.fun) : m.k \in {"bin", "cast"}} :
      /\ n \in DOMAIN notes
      /\ notes[n] = TypeOf(source.decls, IF n.k = "bin" THEN n.l ELSE n.e)
=============================================================================
