---------------------------- MODULE MCTypeCheck ----------------------------
(***************************************************************************)
(* Instances of type checking.  Expressions over variables of every type,  *)
(* an array of one and one of two dimensions, a function for a number, one *)
(* for an array, one without a result and a name that nothing declares, in *)
(* every place that expects a type; and blocks that return on some or all  *)
(* of their paths, in functions within functions.                          *)
(***************************************************************************)
EXTENDS TypeRules

Entry(type, dims, is, params) == [type |-> type, dims |-> dims, is |-> is, params |-> params]
Param(type, dims) == [type |-> type, dims |-> dims]

Names ==
  [i |-> Entry("int", 0, "var", <<>>), q |-> Entry("float", 0, "var", <<>>),
   b |-> Entry("bool", 0, "var", <<>>), l |-> Entry("int", 0, "loop", <<>>),
   a |-> Entry("int", 1, "var", <<>>), m |-> Entry("bool", 2, "var", <<>>),
   number |-> Entry("int", 0, "fun", <<Param("int", 0)>>),
   fits |-> Entry("bool", 0, "fun", <<Param("bool", 2), Param("float", 0)>>),
   void |-> Entry("void", 0, "fun", <<>>)]

Lit(t) == [k |-> "lit", t |-> t]
Var(x) == [k |-> "var", x |-> x]
El(a, is) == [k |-> "elem", a |-> a, is |-> is]
Cast(to, e) == [k |-> "cast", to |-> to, e |-> e]
Un(k, e) == [k |-> k, e |-> e]
Bin(op, l, r) == [k |-> "bin", op |-> op, l |-> l, r |-> r]
Call(f, args) == [k |-> "call", f |-> f, args |-> args]
List(es) == [k |-> "list", es |-> es]
Set(x, e) == [k |-> "assign", x |-> x, e |-> e]
Put(a, is, e) == [k |-> "store", a |-> a, is |-> is, e |-> e]
Ret(es) == [k |-> "return", es |-> es]
If(c, t, e) == [k |-> "if", c |-> c, then |-> t, else |-> e]
While(c, b) == [k |-> "while", c |-> c, body |-> b]
DoWhile(c, b) == [k |-> "dowhile", c |-> c, body |-> b]
For(from, to, by, b) == [k |-> "for", from |-> from, to |-> to, by |-> by, body |-> b]
Dec(type, sizes, init) == [k |-> "vardec", type |-> type, sizes |-> sizes, init |-> init]
Fun(result, vs, locals, body) ==
  [k |-> "fundef", result |-> result, vars |-> vs, locals |-> locals, body |-> body]

\* u is declared nowhere.
Program(unresolved, fun) == [decls |-> Names, fun |-> fun, unresolved |-> unresolved]

---------------------------------------------------------------------------
Leaves == {Lit("int"), Var("q"), Var("b"), Var("a"), Var("u")}

Simple ==
  Leaves \cup
  {El("a", <<Var("i")>>), El("a", <<Var("b")>>), El("m", <<Var("i")>>), El("u", <<Var("q")>>),
   Call("number", <<Var("i")>>), Call("number", <<>>), Call("number", <<Var("q")>>),
   Call("fits", <<Var("m"), Lit("float")>>), Call("fits", <<Var("a"), Var("b")>>),
   Call("fits", <<Var("u"), Var("q")>>), Call("fits", <<Lit("int"), Var("q")>>),
   Call("void", <<>>), Call("u", <<Lit("int")>>)}
  \cup {Bin(op, e, f) : op \in {"add", "mod", "sub", "le", "ne", "or"}, e, f \in Leaves}
  \cup {Un(k, e) : k \in {"neg", "not"}, e \in Leaves}
  \cup {Cast(to, e) : to \in Types, e \in Leaves \cup {Call("void", <<>>)}}

Deep ==
  {Bin(op, Un("neg", e), Cast("float", e)) : op \in {"mul", "eq"}, e \in Leaves}
  \cup {Bin("and", Bin(op, e, Lit("int")), Un("not", Bin("gt", Var("q"), e))) :
          op \in {"lt", "add"}, e \in Leaves}
  \cup {Un("not", Bin("eq", Bin("lt", e, e), Var("b"))) : e \in Leaves}
  \cup {Cast("int", Bin("add", Cast("float", e), Call("number", <<Un("neg", e)>>))) : e \in Leaves}
  \cup {El("m", <<Bin("div", Lit("int"), e), Cast("int", Bin("ge", e, e))>>) : e \in Leaves}

\* A statement that expects a type of e, or none at all.
Places(e) ==
  {Set("i", e), Set("b", e), Put("m", <<Lit("int"), Lit("int")>>, e), Ret(<<e>>),
   Call("number", <<e>>), While(e, <<>>)}

WithExpressions ==
  {<<s>> : s \in UNION {Places(e) : e \in Simple \cup Deep}}
  \cup {<<Call("number", <<Cast(to, e)>>), Set("q", e)>> : to \in Types, e \in Leaves}

Oddities ==
  {<<Set("l", Lit("int"))>>, <<Set("a", Lit("int"))>>, <<Set("u", Var("u"))>>,
   <<Put("i", <<Lit("int")>>, Lit("int"))>>, <<Put("a", <<Var("i"), Var("i")>>, Var("i"))>>,
   <<Put("u", <<Var("i")>>, Var("i"))>>, <<Call("void", <<>>)>>, <<Call("void", <<Var("q")>>)>>,
   <<Call("u", <<>>)>>, <<Ret(<<>>)>>}
  \cup {<<For(e, Var("l"), Lit("int"), <<Set("i", e)>>)>> : e \in Leaves}
  \cup {<<For(Lit("int"), e, f, <<>>)>> : e, f \in Leaves}
  \cup {<<DoWhile(e, <<If(e, <<>>, <<Set("b", e)>>)>>)>> : e \in Leaves}

Lists ==
  {Lit("int"), List(<<Lit("int"), Var("i")>>), List(<<List(<<Lit("int")>>), List(<<Var("i")>>)>>),
   List(<<Lit("int"), List(<<Lit("int")>>)>>), List(<<Var("q")>>), List(<<Cast("int", Var("q"))>>)}

Declarations ==
  {Dec(t, sizes, init) : t \in {"int", "float"},
     sizes \in {<<>>, <<Lit("int")>>, <<Var("q")>>, <<Var("i"), Bin("add", Var("i"), Lit("int"))>>},
     init \in {<<>>} \cup {<<e>> : e \in Lists}}

---------------------------------------------------------------------------
\* Blocks that return or not, on their own and in statements of every kind.
One == {<<>>, <<Ret(<<Lit("int")>>)>>}
Cond == Bin("lt", Var("i"), Lit("int"))
Two ==
  One \cup {<<If(Cond, t, e)>> : t, e \in One} \cup {<<While(Cond, b)>> : b \in One}
      \cup {<<DoWhile(Cond, b)>> : b \in One}
      \cup {<<For(Var("i"), Lit("int"), Lit("int"), b)>> : b \in One}
Three ==
  Two \cup {<<If(Cond, t, e)>> : t, e \in Two} \cup {<<While(Cond, b)>> : b \in Two}
      \cup {<<DoWhile(Cond, b)>> : b \in Two}
      \cup {s \o t : s, t \in Two}

MCPrograms ==
  {Program(unresolved, Fun(result, <<>>, <<>>, body)) :
     unresolved \in BOOLEAN, result \in {"void", "bool"}, body \in WithExpressions \cup Oddities}
  \cup {Program(FALSE, Fun("void", <<v>>, <<>>, <<>>)) : v \in Declarations}
  \cup {Program(FALSE, Fun("int", <<>>, <<>>, body)) : body \in Three}
  \cup {Program(FALSE, Fun(outer, <<>>, <<Fun(result, <<>>, <<>>, inner)>>, body)) :
          outer, result \in {"int", "void"}, inner, body \in Two}

\* Where a name is unresolved, name resolution has said so.
RECURSIVE Unknown(_)
Unknown(n) ==
  \/ n.k \in {"var", "assign"} /\ n.x = "u"
  \/ n.k \in {"elem", "store"} /\ n.a = "u"
  \/ n.k = "call" /\ n.f = "u"
  \/ \E c \in Range(Children(n)) : Unknown(c)

MCPossible == {p \in MCPrograms : p.unresolved = Unknown(p.fun)}

\* The nodes of trees, level by level.
Nth(ns, j) == {Children(n)[j] : n \in {m \in ns : j \in DOMAIN Children(m)}}

RECURSIVE Levels(_)
Levels(ns) ==
  IF ns = {} THEN {} ELSE ns \cup Levels(Nth(ns, 1) \cup Nth(ns, 2) \cup Nth(ns, 3))

AllNodes == Levels({p.fun : p \in MCPossible})

MCNodes == AllNodes
=============================================================================
