------------------------------ MODULE MCScoping ------------------------------
(***************************************************************************)
(* Programs with two functions f and g, g inside f or beside it, over the  *)
(* names a and b and one for iterator.  Both functions are called a or b   *)
(* too: functions and variables do not share names.                        *)
(***************************************************************************)
EXTENDS Scoping

CONSTANTS r, f, g, a, b, for0

MCScope == {r, f, g}
MCName == {a, b, for0}
MCForName == {for0}

V(n, uses)   == [kind |-> "var", name |-> n, scope |-> r, uses |-> uses, params |-> <<>>]
S(uses)      == [kind |-> "stmt", name |-> a, scope |-> r, uses |-> uses, params |-> <<>>]
Def(n, s)    == [kind |-> "fundef", name |-> n, scope |-> s, uses |-> <<>>, params |-> <<>>]
Dec(n, pars) == [kind |-> "fundec", name |-> n, scope |-> r, uses |-> <<>>, params |-> pars]
v(n)         == [ns |-> "var", name |-> n]
fn(n)        == [ns |-> "fun", name |-> n]

\* Globals before and after the functions
Heads == {<<>>, <<V(a, <<>>)>>, <<V(b, <<v(a)>>)>>,
          <<V(a, <<>>), V(b, <<v(a), fn(b)>>)>>, <<Dec(b, <<a, b, a>>)>>}
Tails == {<<>>, <<V(a, <<v(b)>>)>>, <<V(b, <<>>)>>}

\* Declarations and statements of a function
Locals == {<<>>, <<V(a, <<>>)>>, <<V(a, <<v(a)>>)>>, <<V(b, <<v(a)>>)>>,
           <<V(a, <<>>), V(b, <<v(a)>>)>>, <<V(a, <<>>), V(a, <<v(a)>>)>>}
Stmts  == {<<>>, <<S(<<v(a)>>)>>, <<S(<<v(b), fn(b)>>)>>}

Bodies == (Locals \X Stmts)
             \cup {<< <<V(for0, <<>>)>>, <<S(<<v(for0), v(b)>>)>> >>}

\* g is a local function of f, or a second global one
Build(nested, h, t, fb, gb, gname) ==
    [parent |-> [s \in MCScope |-> IF nested /\ s = g THEN f ELSE r],
     outer  |-> [s \in MCScope |-> {r, s} \cup (IF nested /\ s = g THEN {f} ELSE {})],
     depth  |-> [s \in MCScope |-> IF s = r THEN 0 ELSE IF nested /\ s = g THEN 2 ELSE 1],
     items  |-> LET dg == <<Def(gname, g)>> IN
                [s \in MCScope |->
                    CASE s = r -> h \o <<Def(a, f)>> \o t \o (IF nested THEN <<>> ELSE dg)
                      [] s = f -> fb[1] \o (IF nested THEN dg ELSE <<>>) \o fb[2]
                      [] s = g -> gb[1] \o gb[2]]]

\* Of the second function: a shadowing local, a clash, an undeclared name
FewBodies ==
    ({<<V(a, <<v(a)>>)>>, <<V(a, <<>>), V(b, <<v(a)>>)>>, <<V(a, <<>>), V(a, <<v(a)>>)>>}
        \X {<<>>, <<S(<<v(b), fn(b)>>)>>})
    \cup {<< <<V(for0, <<>>)>>, <<S(<<v(for0), v(b)>>)>> >>}

MCPrograms ==
    {Build(nested, h, t, fb, gb, n) :
        nested \in BOOLEAN, h \in Heads, t \in Tails, fb \in Bodies, gb \in FewBodies,
        n \in {a, b}}
=============================================================================
