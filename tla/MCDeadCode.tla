----------------------------- MODULE MCDeadCode -----------------------------
(***************************************************************************)
(* Programs over two variables a and b, made of slots for statements       *)
(* around one or two compound statements, and a print of a at the end.     *)
(***************************************************************************)
EXTENDS DeadCode

MCVar == {"a", "b"}

R(x)        == Expr({x}, <<>>)
Put(i, x) == <<CallStmt(Called(10 + i, {x}))>>
End        == Put(9, "a")

\* What may stand in slot i
Slot(i) == {<<>>, <<Assign(i, "a", Expr({}, <<>>))>>, <<Assign(i, "a", R("b"))>>,
            <<Assign(i, "b", R("a"))>>, Put(i, "a"),
            <<Assign(i, "a", Expr({"a"}, <<Called(10 + i, {"b"})>>))>>}

\* Ids of the compound statements
Outside == 20
Inside  == 21

MCOracles == [{Outside, Inside} -> 0..3]

C(b, c) == <<If(Outside, R("b"), b, c)>>
D(b, c) == <<If(Inside, R("b"), b, c)>>
L(kind, b) == <<Loop(kind, Outside, R("b"), b)>>
Kinds == {"while", "for", "dowhile"}

Main(main) == Program(main, <<>>)

Branching == {Main(s1 \o C(s2 \o s3, s4) \o s5 \o End) :
    s1 \in Slot(1), s2 \in Slot(2), s3 \in Slot(3), s4 \in Slot(4), s5 \in Slot(5)}

Looping == {Main(s1 \o L(k, s2 \o s3) \o s4 \o End) :
    k \in Kinds, s1 \in Slot(1), s2 \in Slot(2), s3 \in Slot(3), s4 \in Slot(4)}

BranchInLoop == {Main(s1 \o L(k, s2 \o D(s3, s4)) \o End) :
    k \in Kinds, s1 \in Slot(1), s2 \in Slot(2), s3 \in Slot(3), s4 \in Slot(4)}

LoopInBranch == {Main(s1 \o C(s2 \o <<Loop(k, Inside, R("b"), s3)>>, s4) \o End) :
    k \in Kinds, s1 \in Slot(1), s2 \in Slot(2), s3 \in Slot(3), s4 \in Slot(4)}

\* The function g, called once and outside of loops.  It assigns to a variable
\* once, and not to one it has read.
BodiesOfG == {s3 \o s4 : s3 \in {b \in Slot(3) : Assigned(b) # {"a"}},
                        s4 \in {b \in Slot(4) : Assigned(b) # {"b"}}}

WithG == {Program(s1 \o call \o s2 \o End, body) :
    call \in {<<CallG>>, C(<<CallG>>, <<>>), C(<<>>, <<CallG>>)},
    s1 \in Slot(1), s2 \in Slot(2),
    body \in {b \in BodiesOfG : \A s \in Range(b) : Reads(s.expr) \cap Assigned(b) = {}}}

Returns(i) == {<<Return(i, R("a"))>>, <<Return(i, R("b")), Assign(i + 1, "a", R("b"))>>}

WithReturn ==
    {Main(s1 \o C(s2 \o r, s3) \o s4 \o End) :
        r \in Returns(30), s1 \in Slot(1), s2 \in Slot(2), s3 \in Slot(3), s4 \in Slot(4)}
    \cup
    {Main(s1 \o L(k, s2 \o s3 \o r) \o s4 \o End) :
        k \in Kinds, r \in Returns(30), s1 \in Slot(1), s2 \in Slot(2), s3 \in Slot(3), s4 \in Slot(4)}

All == <<Branching, Looping, BranchInLoop, LoopInBranch, WithG, WithReturn>>

Ifs(p) == {s \in Within(p.main) : s.node = "if"}

Shared(s) == Assigned(s.block) \cap Assigned(s.else)

\* Where both branches of an if assign a variable, neither reads it, and the
\* if is not within another statement.
Apart(p) == \A s \in Ifs(p) :
    /\ s \in Range(p.main) \/ Shared(s) = {}
    /\ Shared(s) \cap UNION {Reads(e) : e \in Exprs(s.block) \cup Exprs(s.else)} = {}

MCPrograms == [k \in DOMAIN All |-> {p \in All[k] : Apart(p)}]

\* A return in a branch within a do-while loop
ReturnInDoWhile ==
    <<{Main(s1 \o L("dowhile", D(<<Return(30, R("a"))>>, s2) \o s3) \o End) :
        s1 \in Slot(1), s2 \in Slot(2), s3 \in Slot(3)}>>

\* A variable that both branches assign to, and the second one reads
ReadInElse == <<{Main(s1 \o C(s2, s3 \o s4) \o End) :
    s1 \in Slot(1), s2 \in Slot(2), s3 \in Slot(3), s4 \in Slot(4)}>>
=============================================================================
