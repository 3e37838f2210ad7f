------------------------- MODULE MCInitialisation -------------------------
(***************************************************************************)
(* Up to three declarations of every kind, in every order, and four of     *)
(* those that lead to most statements.                                     *)
(***************************************************************************)
EXTENDS Initialisation

D(kind, dims, init, elems, indices, exported) ==
  [kind |-> kind, dims |-> dims, init |-> init, elems |-> elems, indices |-> indices,
   exported |-> exported]

Element0 == D("scalar", <<>>, "value", 0, 0, FALSE)

Scalars == { D("scalar", <<>>, "none", 0, 0, FALSE), D("scalar", <<>>, "value", 0, 0, FALSE) }

Arrays ==
  { D("array", <<Num>>, "none", 0, 0, FALSE), D("array", <<Var>>, "value", 0, 0, FALSE),
    D("array", <<Num, Expr>>, "list", 2, 0, FALSE), D("array", <<Expr, Expr>>, "none", 0, 0, FALSE),
    D("array", <<Expr>>, "value", 0, 1, FALSE), D("array", <<Num>>, "list", 0, 0, FALSE) }

Exported ==
  { D("array", <<Num>>, "none", 0, 0, TRUE), D("array", <<Num, Var>>, "value", 0, 0, TRUE),
    D("array", <<Expr>>, "list", 1, 1, TRUE) }

Other == { D("other", <<>>, "none", 0, 0, FALSE) }

\* A global scalar with a computed index in its initialiser.
Element == D("scalar", <<>>, "value", 0, 1, FALSE)

Named(shapes) ==
  [k \in DOMAIN shapes |->
     [name |-> <<"name", k>>, kind |-> shapes[k].kind, dims |-> shapes[k].dims, init |-> shapes[k].init,
      elems |-> shapes[k].elems, indices |-> shapes[k].indices, exported |-> shapes[k].exported]]

Globals(n) == [1..n -> Scalars \cup Arrays \cup Exported \cup Other]
Four == [1..4 -> {Element0} \cup Exported \cup
                  { D("array", <<Num>>, "none", 0, 0, FALSE), D("array", <<Expr>>, "value", 0, 1, FALSE),
                    D("array", <<Num, Expr>>, "list", 2, 0, FALSE) }]
Locals(n) == [1..n -> Scalars \cup Arrays \cup {Element}]

MCPrograms ==
  {[local |-> FALSE, decls |-> Named(s)] : s \in (UNION {Globals(n) : n \in 1..3}) \cup Four}
  \cup {[local |-> TRUE, decls |-> Named(s)] : s \in UNION {Locals(n) : n \in 1..3}}

Elements ==
  {[local |-> FALSE, decls |-> Named(<<s[1], s[2], Element, s[3]>>)] : s \in Globals(3)}
=============================================================================
