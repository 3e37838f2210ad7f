--------------------------- MODULE MCPreparation ---------------------------
(***************************************************************************)
(* Instances of preparation: main has an array of two dimensions and one   *)
(* of one, and passes them to row, which takes the first, to both, which   *)
(* takes both, and to inner, which is within main and uses the arrays of   *)
(* main.  One statement each is put into main and into row.                *)
(***************************************************************************)
EXTENDS Preparation

Plus(l, r) == Bin("add", l, r)
Minus(l, r) == Bin("sub", l, r)
Less(l, r) == Bin("lt", l, r)
And(l, r) == [k |-> "and", l |-> l, r |-> r]
Or(l, r) == [k |-> "or", l |-> l, r |-> r]
Cast(to, from, e) == [k |-> "cast", to |-> to, from |-> from, e |-> e]
El(a, is) == [k |-> "elem", a |-> a, is |-> is]
Call(f, args) == [k |-> "call", f |-> f, args |-> args]
Put(a, is, e) == [k |-> "store", a |-> a, is |-> is, e |-> e]
New(a, ds) == [k |-> "alloc", a |-> a, ds |-> ds]
If(c, t, e) == [k |-> "if", c |-> c, then |-> t, else |-> e]
While(c, b) == [k |-> "while", c |-> c, body |-> b]
DoWhile(c, b) == [k |-> "dowhile", c |-> c, body |-> b]
For(x, from, to, by, b) == [k |-> "for", x |-> x, from |-> from, to |-> to, by |-> by, body |-> b]
Ret(e) == [k |-> "return", e |-> e]

Say(e) == Call("print", <<e>>)
Ask == Call("ask", <<>>)

\* Expressions where x is 0 and y is 1; a has 2 times 3 elements, and of
\* those of b, which has 3, one is 1 and the others are 0.
Exprs(a, b, x, y, nested) ==
  LET vx == Var(x)
      vy == Var(y)
  IN << El(a, <<vy, Plus(vx, vy)>>), El(a, <<Minus(vy, vx), Plus(vy, Num(1))>>),
        El(b, <<Plus(El(b, <<vy>>), vy)>>), El(a, <<El(b, <<Plus(vx, vy)>>), El(b, <<Num(2)>>)>>),
        Call("row", <<Var(a), El(b, <<vy>>)>>),
        Call("row", <<Var(a), nested>>),
        Plus(Ask, Cast("int", "bool", And(Less(vx, vy), Less(El(b, <<vy>>), Ask)))),
        Cast("int", "bool", Cast("bool", "int", El(a, <<vy, vy>>))), Cast("int", "int", vy),
        Cast("int", "bool", Cast("bool", "bool", Or(Less(vx, vy), Less(Ask, vx)))),
        Cond(Or(Less(vy, vx), And(Less(vx, vy), Less(vy, Ask))), Ask, El(a, <<vx, Num(2)>>)) >>

\* Statements that use e, and the variable i.
Stmts(a, b, x, y, i, e) ==
  LET vx == Var(x)
      vy == Var(y)
      vi == Var(i)
      up == Assign(i, Plus(vi, Num(1)))
  IN << Assign(i, e), Put(a, <<vy, Plus(vx, vy)>>, Plus(e, Num(1))),
        If(Less(e, Num(2)), <<Say(El(a, <<vy, Minus(vy, vy)>>))>>, <<Assign(i, e), Say(vi)>>),
        For(i, Num(0), Num(2), Num(1), <<Put(a, <<vx, Plus(vi, Num(1))>>, e)>>),
        For(i, vx, Plus(vy, Num(2)), Num(2), <<Say(Plus(e, vi))>>),
        For(i, Num(3), Num(0), Minus(vx, vy), <<Say(El(a, <<vy, Minus(vi, Num(1))>>))>>),
        For(i, vx, El(b, <<Minus(vy, vx)>>), El(b, <<Plus(vx, vy)>>), <<Say(e)>>),
        While(Less(vi, Num(2)), <<up, Say(El(a, <<vx, vi>>)), Say(e)>>),
        DoWhile(Less(vi, Num(2)), <<up, Say(El(a, <<vx, Plus(vi, vx)>>))>>) >>

AllStmts(a, b, x, y, i, nested) ==
  LET es == Exprs(a, b, x, y, nested)
  IN FoldLeft(LAMBDA all, e : all \o Stmts(a, b, x, y, i, e), <<>>, es)

InMain == AllStmts("a", "b", "x", "y", "w", Call("both", <<Var("b"), Var("a")>>))
InBoth == AllStmts("s", "r", "u", "v", "t", Cast("int", "bool", Less(Ask, Ask)))
Quiet == Assign("w", Num(0))

\* dim is the second dimension of a, at the index that inner uses.
Prog(sm, sb, dim, at) ==
  [funs |->
     [f \in {"main", "row", "both", "inner"} |->
        CASE f = "main" ->
               [parent |-> Global, params |-> <<>>, vars |-> <<"a", "b", "i", "j", "x", "y", "w">>,
                locals |-> <<"inner">>, value |-> 1, dims |-> <<>>,
                body |-> << New("a", <<Plus(Ask, Num(2)), dim>>), New("b", <<Num(3)>>),
                            For("i", Num(0), Num(2), Num(1),
                                <<For("j", Num(0), Num(3), Num(1),
                                      <<Put("a", <<Var("i"), Var("j")>>,
                                            Plus(Bin("mul", Var("i"), Num(3)), Var("j")))>>)>>),
                            Put("b", <<Num(1)>>, Num(1)), Assign("y", Num(1)), sm,
                            Say(Call("both", <<Var("b"), Var("a")>>)), Call("inner", <<Var("y")>>),
                            For("i", Num(0), Num(2), Num(1),
                                <<For("j", Num(0), Num(3), Num(1), <<Say(El("a", <<Var("i"), Var("j")>>))>>)>>),
                            Ret(El("b", <<Num(1)>>)) >>]
          [] f = "row" ->
               [parent |-> Global, params |-> <<"c", "k">>, vars |-> <<>>, locals |-> <<>>,
                value |-> 1, dims |-> [c |-> <<Var("n"), Var("m")>>],
                body |-> <<Say(Minus(Var("m"), Var("n"))), Ret(El("c", <<Var("k"), Minus(Var("m"), Num(1))>>))>>]
          [] f = "both" ->
               [parent |-> Global, params |-> <<"r", "s">>, vars |-> <<"u", "v", "t">>, locals |-> <<>>,
                value |-> 1, dims |-> [r |-> <<Var("o")>>, s |-> <<Var("p"), Var("q")>>],
                body |-> <<Assign("v", Minus(Var("o"), Var("p"))), sb,
                           Ret(Minus(Call("row", <<Var("s"), Var("v")>>), El("s", <<Var("v"), Num(2)>>)))>>]
          [] f = "inner" ->
               [parent |-> "main", params |-> <<"z">>, vars |-> <<>>, locals |-> <<>>,
                value |-> 0, dims |-> <<>>,
                body |-> <<Put("a", <<Var("z"), at>>, Call("row", <<Var("a"), Var("z")>>))>>]],
   decls |-> <<"main", "row", "both">>, globals |-> <<"glob">>,
   externs |-> <<[name |-> "print", args |-> 1, result |-> 0],
                 [name |-> "ask", args |-> 0, result |-> 1]>>]

MCPrograms ==
  [k \in DOMAIN InMain |-> Prog(InMain[k], Assign("t", Num(0)), Plus(Num(1), Num(2)), Var("z"))]
  \o [k \in DOMAIN InBoth |-> Prog(Quiet, InBoth[k], Num(3), Num(0))]

\* An index that inner computes, where the second dimension is computed too.
Captured == <<Prog(Quiet, Assign("t", Num(0)), Plus(Num(1), Num(2)), Minus(Var("z"), Num(1)))>>
=============================================================================
