----------------------------- MODULE MCCodeGen -----------------------------
(***************************************************************************)
(* Instances of code generation: main, with the local functions g and k,   *)
(* and h within g, so that calls go to local functions, to the function    *)
(* itself, to siblings, one and two levels out and to imported functions,  *)
(* and variables lie in the function itself, one and two levels out and in *)
(* the outermost scope.  One statement each is put into main, g and h.     *)
(***************************************************************************)
EXTENDS SourceRun

N(v) == [k |-> "num", v |-> v]
V(x) == [k |-> "var", x |-> x]
B(op, l, r) == [k |-> "bin", op |-> op, l |-> l, r |-> r]
M(op, e) == [k |-> "mon", op |-> op, e |-> e]
C(f, args) == [k |-> "call", f |-> f, args |-> args]
T(c, t, e) == [k |-> "cond", c |-> c, t |-> t, e |-> e]
El(a, i) == [k |-> "elem", a |-> a, is |-> <<i>>]
PopB(e, by, before) == [k |-> "pop", e |-> e, by |-> by, before |-> before]

Let(x, e) == [k |-> "assign", x |-> x, e |-> e]
Put(a, i, e) == [k |-> "store", a |-> a, is |-> <<i>>, e |-> e]
New(a, e) == [k |-> "alloc", a |-> a, ds |-> <<e>>]
If(c, t, e) == [k |-> "if", c |-> c, then |-> t, else |-> e]
While(c, b) == [k |-> "while", c |-> c, body |-> b]
DoWhile(c, b) == [k |-> "dowhile", c |-> c, body |-> b]
Ret(e) == [k |-> "return", e |-> e]
Put1(e) == C("print", <<e>>)

Ask == C("ask", <<>>)

\* Expressions for a function with the variable y of its own, where x is
\* further out, from calls that may be made there.
Exprs(y, x, calls) ==
  << B("sub", V(x), V(y)), B("add", V(y), N(3)), B("sub", V(y), N(1)), B("sub", V(y), N(-1)),
     B("add", N(0), V(y)), M("neg", N(-2)), B("mul", Ask, N(-3)),
     T(B("lt", V(y), V(x)), Ask, B("sub", V("glob"), Ask)),
     PopB(Ask, N(0), TRUE), PopB(Ask, B("sub", Ask, V(y)), FALSE), El("arr", V("glob")),
     B("add", B("mul", N(2), V(x)), Ask) >> \o calls

Simple(y, x, calls) ==
  LET es == Exprs(y, x, calls)
  IN [j \in DOMAIN es |-> Let(y, es[j])]

\* A loop over the variable y.
Loops(y) ==
  << While(B("lt", V(y), N(2)), <<Let(y, B("add", V(y), N(1))), Put1(V(y))>>),
     While(B("lt", V(y), N(2)), <<Let(y, B("sub", V(y), N(-1)))>>),
     DoWhile(B("lt", V(y), N(3)), <<Let(y, B("add", V(y), N(2))), C("ask", <<>>)>>),
     DoWhile(B("lt", V(y), N(1)),
             <<DoWhile(B("lt", V(y), N(0)), <<Let(y, B("add", V(y), N(1)))>>),
               Let(y, B("add", V(y), N(1)))>>) >>

Ifs(y, x, s) ==
  LET c == B("lt", V(y), V(x))
  IN << If(c, <<s>>, <<Let(x, V(y))>>), If(c, <<>>, <<s>>), If(c, <<s>>, <<>>),
        If(B("lt", Ask, N(4)), <<>>, <<>>),
        If(c, <<If(M("not", c), <<s>>, <<Put1(V(x))>>)>>, <<Put1(V(y)), s>>) >>

\* In main: x is its variable.
InMain == Simple("x", "glob", <<C("g", <<V("x"), N(1)>>)>>) \o Loops("x")
InG == Simple("y", "x", <<C("h", <<V("n")>>), C("h", <<C("h", <<N(0)>>)>>)>>) \o Loops("y")
         \o Ifs("y", "x", C("h", <<V("y")>>))
InH == Simple("z", "x", <<C("add2", <<V("z"), C("add2", <<Ask, V("y")>>)>>)>>)
         \o Loops("z") \o Ifs("z", "y", Ret(V("z")))
         \o << Put("arr", N(1), B("add", Ask, V("y"))), Let("y", C("add2", <<V("y"), N(4)>>)), C("k", <<V("y")>>), Let("x", B("add", V("x"), N(1))),
               C("add2", <<Ask, Ask>>),
               If(B("gt", V("m"), N(0)), <<Let("z", C("h", <<B("sub", V("m"), N(1))>>))>>, <<>>),
               If(B("gt", V("m"), N(0)), <<C("g", <<N(0), N(0)>>)>>, <<>>) >>

Prog(sm, sg, sh) ==
  [funs |->
     [f \in {"main", "g", "h", "k", "add2"} |->
        CASE f = "main" ->
               [parent |-> Global, params |-> <<>>, vars |-> <<"w", "x", "arr">>,
                locals |-> <<"g", "k">>, value |-> 1,
                dims |-> <<>>, body |-> <<New("arr", N(2)), Let("x", N(1)), sm,
                           Put1(C("g", <<N(1), V("x")>>)), Put1(V("x")),
                           Let("glob", B("sub", El("arr", N(1)), V("x"))), Ret(V("glob"))>>]
          [] f = "g" ->
               [parent |-> "main", params |-> <<"n", "y">>, vars |-> <<>>,
                locals |-> <<"h">>, value |-> 1,
                dims |-> <<>>, body |-> <<sg, Let("x", B("add", V("x"), C("h", <<V("n")>>))), Ret(V("y"))>>]
          [] f = "h" ->
               [parent |-> "g", params |-> <<"m">>, vars |-> <<"z">>,
                locals |-> <<>>, value |-> 1,
                dims |-> <<>>, body |-> <<Let("z", B("sub", V("y"), V("m"))), sh, Ret(V("z"))>>]
          [] f = "k" ->
               [parent |-> "main", params |-> <<"q">>, vars |-> <<>>,
                locals |-> <<>>, value |-> 0,
                dims |-> <<>>, body |-> <<Put1(B("add", V("x"), V("q"))),
                           If(B("le", V("q"), V("x")), <<Ret(N(0))>>, <<Put1(V("q"))>>)>>]
          [] f = "add2" ->
               [parent |-> Global, params |-> <<"u", "v">>, vars |-> <<>>,
                locals |-> <<>>, value |-> 1, dims |-> <<>>, body |-> <<Ret(B("sub", V("u"), V("v")))>>]],
   decls |-> <<"main", "add2">>, globals |-> <<"other", "glob">>,
   externs |-> <<[name |-> "print", args |-> 1, result |-> 0],
                 [name |-> "ask", args |-> 0, result |-> 1]>>]

\* Counting with a negative number, which the compiler does not survive.
Negative == Let("x", B("sub", V("x"), N(-5)))

\* Every statement of g with every one of h, and every one of main with calls.
MCPrograms ==
  [n \in 1..(Len(InG) * Len(InH)) |->
     Prog(InMain[1], InG[((n - 1) \div Len(InH)) + 1], InH[((n - 1) % Len(InH)) + 1])]
  \o [i \in DOMAIN InMain |-> Prog(InMain[i], C("h", <<V("n")>>), C("k", <<V("y")>>))]
  \o <<Prog(Negative, InG[1], InH[1])>>

\* A number less the variable that is assigned.
Subtractions ==
  [k \in DOMAIN InH |-> Prog(Let("x", B("sub", N(5), V("x"))), InG[1], InH[k])]

\* What the compiler gives up.
Negatives == [k \in DOMAIN InH |-> Prog(Negative, InG[1], InH[k])]

Children(n) ==
  CASE n.k \in {"num", "var"} -> <<>>
    [] n.k = "elem" -> n.is
    [] n.k = "bin" -> <<n.l, n.r>>
    [] n.k \in {"mon", "assign", "return"} -> <<n.e>>
    [] n.k = "call" -> n.args
    [] n.k = "cond" -> <<n.c, n.t, n.e>>
    [] n.k = "pop" -> <<n.e, n.by>>
    [] n.k = "alloc" -> n.ds
    [] n.k = "store" -> Append(n.is, n.e)
    [] n.k = "if" -> <<n.c>> \o n.then \o n.else
    [] n.k \in {"while", "dowhile"} -> <<n.c>> \o n.body

RECURSIVE Within(_)
Within(ns) == ToSet(ns) \cup UNION {Within(Children(n)) : n \in ToSet(ns)}

MCNodesOf(p, f) == Within(p.funs[f].body)
=============================================================================
