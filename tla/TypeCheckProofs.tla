-------------------------- MODULE TypeCheckProofs --------------------------
(***************************************************************************)
(* TypeCheck, for every program: the static variables of the traversal     *)
(* are as its assertions ask, wherever a name is left without a            *)
(* declaration or a type does not fit.                                     *)
(***************************************************************************)
EXTENDS TypeCheck, TLAPS

TypeName == Types \cup {"void"}
State == [type : TypeName \cup {Null}, any : BOOLEAN, ret : TypeName \cup {Null}, returned : BOOLEAN]
Params == [type : Types, dims : Nat]

\* What todo is made of, besides nodes
SetsType == [k : {"restore", "expect"}, type : TypeName]
SetsReturned == [k : {"setreturned"}, b : BOOLEAN]
Ends == [k : {"castend", "monopend", "binopend"}, node : Nodes, type : TypeName \cup {Null}]
Args == [k : {"arg"}, arg : Expr, param : Params, type : TypeName]
Branches == [k : {"else"}, node : Nodes, type : BOOLEAN] \cup [k : {"ifend"}, before : BOOLEAN, then : BOOLEAN]
FunEnds == [k : {"fundefend"}, before : State]
Item == Nodes \cup SetsType \cup SetsReturned \cup Ends \cup Args \cup Branches \cup FunEnds

TypeInv ==
  /\ source \in Programs /\ todo \in Seq(Item) /\ st \in State

(***************************************************************************)
(* What is known of type and anytype at a place of the traversal:          *)
(*   any    any type is expected                                           *)
(*   some   none is expected, type may be anything                         *)
(*   type   a type is expected                                             *)
(*   void   a statement is                                                 *)
(*   idle   nothing has been visited, or all of it                         *)
(***************************************************************************)
Mode == {"any", "some", "type", "void", "idle"}

In(s, mode) ==
  /\ mode = "any" => s.any /\ s.type = Null
  /\ mode # "any" => ~s.any
  /\ mode = "type" => s.type # Null
  /\ mode = "void" => s.type = "void"
  /\ mode = "idle" => s = Idle
  /\ mode # "idle" => s.ret # Null

Typed == {"type", "void"}
Passed == {"some", "type", "void"}

\* What an item makes of it, in its context
Visited(x, a, b) ==
  \/ x \in Expr /\ ((a = "any" /\ b = "some") \/ (a \in Typed /\ b = "type"))
  \/ x \in OfKind("list") /\ a \in Typed /\ b = "type"
  \/ x \in Stmt \cup OfKind("vardec") /\ a = "void" /\ b = "void"
  \/ x \in OfKind("fundef") /\ a \in {"void", "idle"} /\ b = a

Ended(x, a, b) ==
  \/ x \in SetsType /\ a \in Passed /\ (b = "type" \/ (x.type = "void" /\ b = "void"))
  \/ x \in SetsReturned \cup Branches /\ a = "void" /\ b = "void"
     /\ (x.k = "else" => x.node.k = "if")
  \/ x \in Ends /\ x.k = "castend" /\ x.type # Null /\ a \in Passed /\ b = "type"
  \/ x \in Ends /\ x.k = "monopend" /\ x.node.k \in {"not", "neg"} /\ a \in Passed /\ b = "some"
  \/ x \in Ends /\ x.k = "binopend" /\ x.node.k = "bin" /\ x.node.op \in Arithmetic
     /\ a \in Passed /\ b = "some"
  \/ x \in Ends /\ x.k = "binopend" /\ x.node.k = "bin" /\ x.node.op \in Comparison
     /\ x.type # Null /\ a \in Passed /\ b = "type"
  \/ x \in Args /\ a \in Typed /\ b = "type"
  \/ x \in Args /\ x.type = "void" /\ a = "void" /\ b = "void"
  \/ x \in FunEnds /\ a = "void" /\ b \in {"void", "idle"} /\ In(x.before, b)

Step(x, a, b) == Visited(x, a, b) \/ Ended(x, a, b)

Runs(items, a, b) ==
  \E m \in [1..(Len(items) + 1) -> Mode] :
    /\ m[1] = a /\ m[Len(items) + 1] = b
    /\ \A p \in 1..Len(items) : Step(items[p], m[p], m[p + 1])

\* The traversal ends where it began, from what is known now.
ModeInv == \E a \in Mode : In(st, a) /\ Runs(todo, a, "idle")

StaticsInv == TypeInv /\ ModeInv

---------------------------------------------------------------------------
\* Runs.
LEMMA RunsOne ==
    ASSUME NEW a \in Mode, NEW b \in Mode, NEW x, Step(x, a, b)
    PROVE  Runs(<<x>>, a, b)
  <1> DEFINE m == [p \in 1..2 |-> IF p = 1 THEN a ELSE b]
  <1>1. Len(<<x>>) = 1 /\ <<x>>[1] = x /\ m \in [1..(1 + 1) -> Mode] /\ m[1] = a /\ m[1 + 1] = b
    OBVIOUS
  <1> HIDE DEF m
  <1>2. \A p \in 1..Len(<<x>>) : Step(<<x>>[p], m[p], m[p + 1])
    BY <1>1
  <1> QED
    BY <1>1, <1>2 DEF Runs

LEMMA RunsAll ==
    ASSUME NEW S, NEW s \in Seq(S), NEW a \in Mode, \A p \in 1..Len(s) : Step(s[p], a, a)
    PROVE  Runs(s, a, a)
  <1> DEFINE m == [p \in 1..(Len(s) + 1) |-> a]
  <1>1. Len(s) \in Nat /\ m \in [1..(Len(s) + 1) -> Mode]
    OBVIOUS
  <1>2. 1 \in 1..(Len(s) + 1) /\ Len(s) + 1 \in 1..(Len(s) + 1)
        /\ \A p \in 1..Len(s) : p \in 1..(Len(s) + 1) /\ p + 1 \in 1..(Len(s) + 1)
    BY <1>1
  <1> QED
    BY <1>1, <1>2 DEF Runs

LEMMA RunsNone ==
    ASSUME NEW a \in Mode
    PROVE  Runs(<<>>, a, a)
  <1> DEFINE none == <<>>
  <1>1. none \in Seq(Mode) /\ Len(none) = 0
    OBVIOUS
  <1> HIDE DEF none
  <1>2. \A p \in 1..Len(none) : Step(none[p], a, a)
    BY <1>1
  <1>3. Runs(none, a, a)
    BY <1>1, <1>2, RunsAll
  <1> QED
    BY <1>3 DEF none

LEMMA RunsBoth ==
    ASSUME NEW S, NEW s \in Seq(S), NEW t \in Seq(S),
           NEW a \in Mode, NEW b \in Mode, NEW c \in Mode, Runs(s, a, b), Runs(t, b, c)
    PROVE  Runs(s \o t, a, c)
  <1>1. PICK m \in [1..(Len(s) + 1) -> Mode] :
          /\ m[1] = a /\ m[Len(s) + 1] = b
          /\ \A p \in 1..Len(s) : Step(s[p], m[p], m[p + 1])
    BY DEF Runs
  <1>2. PICK n \in [1..(Len(t) + 1) -> Mode] :
          /\ n[1] = b /\ n[Len(t) + 1] = c
          /\ \A p \in 1..Len(t) : Step(t[p], n[p], n[p + 1])
    BY DEF Runs
  <1> DEFINE o == [p \in 1..(Len(s) + Len(t) + 1) |-> IF p <= Len(s) THEN m[p] ELSE n[p - Len(s)]]
  <1>3. Len(s) \in Nat /\ Len(t) \in Nat /\ Len(s \o t) = Len(s) + Len(t)
        /\ \A p \in 1..(Len(s) + Len(t)) : (s \o t)[p] = IF p <= Len(s) THEN s[p] ELSE t[p - Len(s)]
    OBVIOUS
  <1>4. \A p \in 1..(Len(s) + 1) : o[p] = m[p]
    BY <1>1, <1>2, <1>3
  <1>5. \A p \in 1..(Len(t) + 1) : o[p + Len(s)] = n[p]
    BY <1>3
  <1>6. o \in [1..(Len(s) + Len(t) + 1) -> Mode]
    <2> SUFFICES ASSUME NEW p \in 1..(Len(s) + Len(t) + 1)
                 PROVE  o[p] \in Mode
      OBVIOUS
    <2>1. CASE p <= Len(s)
      BY <1>3, <1>4, <2>1
    <2>2. CASE ~(p <= Len(s))
      <3>1. p - Len(s) \in 1..(Len(t) + 1)
        BY <1>3, <2>2
      <3> QED
        BY <2>2, <3>1
    <2> QED
      BY <2>1, <2>2
  <1> HIDE DEF o
  <1>7. o[1] = a /\ o[Len(s) + Len(t) + 1] = c
    <2>1. 1 \in 1..(Len(s) + 1) /\ Len(t) + 1 \in 1..(Len(t) + 1)
          /\ (Len(t) + 1) + Len(s) = Len(s) + Len(t) + 1
      BY <1>3
    <2> QED
      BY <1>1, <1>2, <1>4, <1>5, <2>1
  <1>8. ASSUME NEW p \in 1..(Len(s) + Len(t))
        PROVE  Step((s \o t)[p], o[p], o[p + 1])
    <2>1. CASE p <= Len(s)
      <3>1. p \in 1..Len(s) /\ p \in 1..(Len(s) + 1) /\ p + 1 \in 1..(Len(s) + 1)
        BY <1>3, <2>1
      <3> QED
        BY <1>1, <1>3, <1>4, <2>1, <3>1
    <2>2. CASE ~(p <= Len(s))
      <3> DEFINE q == p - Len(s)
      <3>1. /\ q \in 1..Len(t) /\ q \in 1..(Len(t) + 1) /\ q + 1 \in 1..(Len(t) + 1)
            /\ q + Len(s) = p /\ (q + 1) + Len(s) = p + 1
        BY <1>3, <2>2
      <3>2. (s \o t)[p] = t[q]
        BY <1>3, <2>2
      <3>3. o[p] = n[q] /\ o[p + 1] = n[q + 1]
        BY <1>5, <3>1
      <3> QED
        BY <1>2, <3>1, <3>2, <3>3
    <2> QED
      BY <2>1, <2>2
  <1> QED
    BY <1>3, <1>6, <1>7, <1>8 DEF Runs

LEMMA RunsFirst ==
    ASSUME NEW S, NEW s \in Seq(S), s # <<>>, NEW a \in Mode, NEW c \in Mode, Runs(s, a, c)
    PROVE  \E b \in Mode : Step(Head(s), a, b) /\ Runs(Tail(s), b, c)
  <1>1. PICK m \in [1..(Len(s) + 1) -> Mode] :
          /\ m[1] = a /\ m[Len(s) + 1] = c
          /\ \A p \in 1..Len(s) : Step(s[p], m[p], m[p + 1])
    BY DEF Runs
  <1>2. /\ Len(s) \in Nat \ {0} /\ Head(s) = s[1] /\ Len(Tail(s)) = Len(s) - 1
        /\ \A p \in 1..(Len(s) - 1) : Tail(s)[p] = s[p + 1]
    OBVIOUS
  <1> DEFINE n == [p \in 1..Len(s) |-> m[p + 1]]
  <1>3. \A p \in 1..Len(s) : p + 1 \in 1..(Len(s) + 1) /\ n[p] = m[p + 1]
    BY <1>2
  <1>4. n \in [1..Len(s) -> Mode]
    BY <1>3
  <1> HIDE DEF n
  <1>5. 1 \in 1..Len(s) /\ Len(s) \in 1..Len(s) /\ 1 + 1 = 2 /\ (Len(s) - 1) + 1 = Len(s)
    BY <1>2
  <1>6. n[1] = m[2] /\ n[Len(s)] = c
    BY <1>1, <1>3, <1>5
  <1>7. ASSUME NEW p \in 1..(Len(s) - 1)
        PROVE  Step(Tail(s)[p], n[p], n[p + 1])
    <2>1. p \in 1..Len(s) /\ p + 1 \in 1..Len(s)
      BY <1>2
    <2> QED
      BY <1>1, <1>2, <1>3, <2>1
  <1>8. Runs(Tail(s), n[1], c)
    BY <1>2, <1>4, <1>5, <1>6, <1>7 DEF Runs
  <1>9. n[1] \in Mode /\ Step(Head(s), a, n[1])
    BY <1>1, <1>2, <1>4, <1>5, <1>6
  <1> QED
    BY <1>8, <1>9

\* Where less is asked for, more will do.
Serves(a, b) == a = b \/ (b = "type" /\ a = "void") \/ (b = "some" /\ a \in Typed)

LEMMA StepServed ==
    ASSUME NEW x, NEW a \in Mode, NEW b \in Mode, NEW c \in Mode, Serves(a, b), Step(x, b, c)
    PROVE  Step(x, a, c)
  BY DEF Step, Visited, Ended, Serves, Typed, Passed

LEMMA RunsServed ==
    ASSUME NEW S, NEW s \in Seq(S), NEW a \in Mode, NEW b \in Mode, Serves(a, b), Runs(s, b, "idle")
    PROVE  Runs(s, a, "idle")
  <1>1. PICK m \in [1..(Len(s) + 1) -> Mode] :
          /\ m[1] = b /\ m[Len(s) + 1] = "idle"
          /\ \A p \in 1..Len(s) : Step(s[p], m[p], m[p + 1])
    BY DEF Runs
  <1>2. Len(s) \in Nat
    OBVIOUS
  <1>3. CASE Len(s) = 0
    <2>1. b = "idle"
      BY <1>1, <1>3
    <2> QED
      BY <2>1 DEF Serves
  <1>4. CASE Len(s) # 0
    <2> DEFINE n == [m EXCEPT ![1] = a]
    <2>1. 1 \in 1..(Len(s) + 1) /\ Len(s) + 1 # 1 /\ \A p \in 1..Len(s) : p + 1 # 1 /\ p + 1 \in 1..(Len(s) + 1)
      BY <1>2, <1>4
    <2>2. n \in [1..(Len(s) + 1) -> Mode] /\ n[1] = a /\ \A p \in 1..(Len(s) + 1) : p # 1 => n[p] = m[p]
      BY <2>1
    <2> HIDE DEF n
    <2>3. ASSUME NEW p \in 1..Len(s)
          PROVE  Step(s[p], n[p], n[p + 1])
      <3>1. Step(s[p], m[p], m[p + 1]) /\ n[p + 1] = m[p + 1] /\ m[p + 1] \in Mode
        BY <1>1, <2>1, <2>2
      <3>2. CASE p = 1
        BY <1>1, <2>2, <3>1, <3>2, StepServed
      <3>3. CASE p # 1
        BY <1>2, <2>2, <3>1, <3>3
      <3> QED
        BY <3>2, <3>3
    <2>4. n[Len(s) + 1] = "idle"
      BY <1>1, <1>2, <2>1, <2>2
    <2> QED
      BY <2>2, <2>3, <2>4 DEF Runs
  <1> QED
    BY <1>3, <1>4

LEMMA RunsTwo ==
    ASSUME NEW a \in Mode, NEW b \in Mode, NEW c \in Mode, NEW x, NEW y, Step(x, a, b), Step(y, b, c)
    PROVE  Runs(<<x, y>>, a, c)
  <1> DEFINE m == [p \in 1..3 |-> IF p = 1 THEN a ELSE IF p = 2 THEN b ELSE c]
             xy == <<x, y>>
  <1>1. Len(xy) = 2 /\ xy[1] = x /\ xy[2] = y /\ m \in [1..(2 + 1) -> Mode]
        /\ m[1] = a /\ m[1 + 1] = b /\ m[2 + 1] = c
    OBVIOUS
  <1> HIDE DEF m, xy
  <1>2. \A p \in 1..Len(xy) : Step(xy[p], m[p], m[p + 1])
    <2>1. \A p \in 1..2 : p = 1 \/ p = 2
      OBVIOUS
    <2>2. m[2] = b
      BY <1>1
    <2> QED
      BY <1>1, <2>1, <2>2
  <1>3. Runs(xy, a, c)
    BY <1>1, <1>2 DEF Runs
  <1> QED
    BY <1>3 DEF xy

LEMMA RunsThree ==
    ASSUME NEW a \in Mode, NEW b \in Mode, NEW c \in Mode, NEW d \in Mode, NEW x, NEW y, NEW z,
           Step(x, a, b), Step(y, b, c), Step(z, c, d)
    PROVE  Runs(<<x, y, z>>, a, d)
  <1> DEFINE m == [p \in 1..4 |-> IF p = 1 THEN a ELSE IF p = 2 THEN b ELSE IF p = 3 THEN c ELSE d]
             xyz == <<x, y, z>>
  <1>1. Len(xyz) = 3 /\ xyz[1] = x /\ xyz[2] = y /\ xyz[3] = z /\ m \in [1..(3 + 1) -> Mode]
        /\ m[1] = a /\ m[1 + 1] = b /\ m[2 + 1] = c /\ m[3 + 1] = d
    OBVIOUS
  <1> HIDE DEF m, xyz
  <1>2. \A p \in 1..Len(xyz) : Step(xyz[p], m[p], m[p + 1])
    <2>1. \A p \in 1..3 : p = 1 \/ p = 2 \/ p = 3
      OBVIOUS
    <2>2. m[2] = b /\ m[3] = c
      BY <1>1
    <2> QED
      BY <1>1, <2>1, <2>2
  <1>3. Runs(xyz, a, d)
    BY <1>1, <1>2 DEF Runs
  <1> QED
    BY <1>3 DEF xyz

\* A run that goes on with one item.
LEMMA RunsThen ==
    ASSUME NEW S, NEW s \in Seq(S), NEW x \in S, NEW a \in Mode, NEW b \in Mode, NEW c \in Mode,
           Runs(s, a, b), Step(x, b, c)
    PROVE  /\ Runs(s \o <<x>>, a, c) /\ s \o <<x>> \in Seq(S)
           /\ Runs(Append(s, x), a, c) /\ Append(s, x) \in Seq(S)
  <1> DEFINE xs == <<x>>
  <1>1. xs \in Seq(S) /\ s \o xs \in Seq(S)
    OBVIOUS
  <1>2. Runs(xs, b, c)
    BY RunsOne
  <1> HIDE DEF xs
  <1>3. Runs(s \o xs, a, c)
    BY <1>1, <1>2, RunsBoth
  <1>4. Append(s, x) = s \o <<x>>
    OBVIOUS
  <1> QED
    BY <1>1, <1>3, <1>4 DEF xs

---------------------------------------------------------------------------
\* Steps: what replaces the first item leads where it did.
LEMMA Pushed ==
    ASSUME TypeInv, todo # <<>>, NEW items \in Seq(Item), Then(items), NEW b \in Mode,
           Runs(Tail(todo), b, "idle"),
           NEW m \in Mode, NEW n \in Mode, In(st', m), Runs(items, m, n), Serves(n, b)
    PROVE  todo' \in Seq(Item) /\ ModeInv'
  <1>1. Tail(todo) \in Seq(Item)
    BY DEF TypeInv
  <1>2. "idle" \in Mode
    BY DEF Mode
  <1>3. Runs(Tail(todo), n, "idle")
    BY <1>1, RunsServed
  <1> DEFINE rest == Tail(todo)
  <1>4. Runs(items \o rest, m, "idle") /\ items \o rest \in Seq(Item)
    <2> HIDE DEF rest
    <2>1. rest \in Seq(Item) /\ Runs(rest, n, "idle")
      BY <1>1, <1>3 DEF rest
    <2>2. items \o rest \in Seq(Item)
      BY <2>1
    <2>3. Runs(items \o rest, m, "idle")
      BY <1>2, <2>1, RunsBoth
    <2> QED
      BY <2>2, <2>3
  <1>5. todo' = items \o Tail(todo)
    BY DEF Then
  <1> QED
    BY <1>4, <1>5 DEF ModeInv

LEMMA Popped ==
    ASSUME TypeInv, todo # <<>>, Then(<<>>), NEW b \in Mode, Runs(Tail(todo), b, "idle"),
           NEW m \in Mode, In(st', m), Serves(m, b)
    PROVE  todo' \in Seq(Item) /\ ModeInv'
  <1>1. <<>> \in Seq(Item)
    OBVIOUS
  <1> QED
    BY <1>1, RunsNone, Pushed

\* The first item, and what is known in front of it and behind it
First(a, b) ==
  /\ todo # <<>> /\ Node \in Item /\ Step(Node, a, b)
  /\ In(st, a) /\ Runs(Tail(todo), b, "idle")

LEMMA SomeFirst ==
    ASSUME TypeInv, ModeInv, todo # <<>>
    PROVE  \E a, b \in Mode : First(a, b)
  <1>1. PICK a \in Mode : In(st, a) /\ Runs(todo, a, "idle")
    BY DEF ModeInv
  <1>2. todo \in Seq(Item) /\ Head(todo) \in Item /\ "idle" \in Mode
    BY DEF TypeInv, Mode
  <1>3. PICK b \in Mode : Step(Head(todo), a, b) /\ Runs(Tail(todo), b, "idle")
    BY <1>1, <1>2, RunsFirst
  <1> QED
    BY <1>1, <1>2, <1>3 DEF First, Node

LEMMA NodeKinds ==
    ASSUME NEW x \in Item
    PROVE  /\ x \in Nodes => WellFormed(x) /\ x.k \in
                {"lit", "var", "elem", "cast", "not", "neg", "bin", "call", "list", "assign", "store",
                 "return", "if", "while", "dowhile", "for", "vardec", "fundef"}
           /\ x \notin Nodes => x.k \in
                {"restore", "expect", "setreturned", "castend", "monopend", "binopend", "arg", "else",
                 "ifend", "fundefend"}
  <1>1. x \in Nodes => WellFormed(x)
    BY NodesAssumption
  <1> QED
    BY <1>1 DEF WellFormed, Item, SetsType, SetsReturned, Ends, Args, Branches, FunEnds

Operand == {"lit", "var", "elem", "cast", "not", "neg", "bin"}

LEMMA ExprFirst ==
    ASSUME NEW a \in Mode, NEW b \in Mode, First(a, b), Node.k \in Operand
    PROVE  /\ Node \in Expr /\ WellFormed(Node)
           /\ (a = "any" /\ b = "some") \/ (a \in Typed /\ b = "type")
  BY NodeKinds DEF First, Step, Visited, Ended, Operand, Expr, OfKind, Stmt,
     SetsType, SetsReturned, Ends, Args, Branches, FunEnds

LEMMA CallFirst ==
    ASSUME NEW a \in Mode, NEW b \in Mode, First(a, b), Node.k = "call"
    PROVE  /\ Node \in Expr /\ WellFormed(Node)
           /\ \/ a = "any" /\ b = "some"
              \/ a = "type" /\ b = "type"
              \/ a = "void" /\ b \in Typed
  BY NodeKinds DEF First, Step, Visited, Ended, Expr, OfKind, Stmt, Typed,
     SetsType, SetsReturned, Ends, Args, Branches, FunEnds

LEMMA ListFirst ==
    ASSUME NEW a \in Mode, NEW b \in Mode, First(a, b), Node.k = "list"
    PROVE  WellFormed(Node) /\ Node \in Nodes /\ a \in Typed /\ b = "type"
  BY NodeKinds DEF First, Step, Visited, Ended, Expr, OfKind, Stmt,
     SetsType, SetsReturned, Ends, Args, Branches, FunEnds

LEMMA StmtFirst ==
    ASSUME NEW a \in Mode, NEW b \in Mode, First(a, b),
           Node.k \in {"assign", "store", "return", "if", "while", "dowhile", "for", "vardec"}
    PROVE  WellFormed(Node) /\ Node \in Nodes /\ a = "void" /\ b = "void"
  BY NodeKinds DEF First, Step, Visited, Ended, Expr, OfKind, Stmt,
     SetsType, SetsReturned, Ends, Args, Branches, FunEnds

LEMMA FundefFirst ==
    ASSUME NEW a \in Mode, NEW b \in Mode, First(a, b), Node.k = "fundef"
    PROVE  WellFormed(Node) /\ Node \in Nodes /\ a \in {"void", "idle"} /\ b = a
  BY NodeKinds DEF First, Step, Visited, Ended, Expr, OfKind, Stmt,
     SetsType, SetsReturned, Ends, Args, Branches, FunEnds

LEMMA EndFirst ==
    ASSUME NEW a \in Mode, NEW b \in Mode, First(a, b),
           Node.k \in {"restore", "expect", "setreturned", "castend", "monopend", "binopend", "arg",
                      "else", "ifend", "fundefend"}
    PROVE  Ended(Node, a, b)
  BY NodeKinds DEF First, Step, Visited, Expr, OfKind, Stmt

LEMMA Declared ==
    ASSUME TypeInv, NEW x, Known(x)
    PROVE  Decl(x).type \in TypeName /\ Decl(x).dims \in Nat /\ Decl(x).params \in Seq(Params)
  BY ProgramsAssumption DEF TypeInv, Resolved, Known, Decl, TypeName, Params

LEMMA Taken ==
    ASSUME TypeInv, NEW a \in Mode, In(st, a), a \in {"any", "type", "void"}, NEW t \in TypeName
    PROVE  /\ Takes(st, t) \in State /\ Takes(st, t).type \in TypeName
           /\ In(Takes(st, t), "type") /\ (a # "any" => Takes(st, t) = st)
  BY NullAssumption DEF Takes, In, TypeInv, State, TypeName, Mode

LEMMA Restored ==
    ASSUME NEW t \in TypeName, NEW a \in Passed
    PROVE  Restore(t) \in Item /\ Step(Restore(t), a, "type") /\ (t = "void" => Step(Restore(t), a, "void"))
  BY DEF Restore, Item, SetsType, Step, Ended

LEMMA Expected ==
    ASSUME NEW t \in TypeName, NEW a \in Passed
    PROVE  Expect(t) \in Item /\ Step(Expect(t), a, "type")
  BY DEF Expect, Item, SetsType, Step, Ended

LEMMA ExprVisited ==
    ASSUME NEW x \in Expr
    PROVE  /\ x \in Item /\ Step(x, "any", "some")
           /\ \A a \in Typed : Step(x, a, "type")
  BY DEF Expr, Item, Step, Visited

LEMMA Modes == Typed \subseteq Passed /\ Passed \subseteq Mode /\ {"any", "void", "type", "some", "idle"} = Mode
  BY DEF Typed, Passed, Mode

\* A visit of two operands, and what is expected afterwards.
LEMMA Operands3 ==
    ASSUME NEW l \in Expr, NEW r \in Expr, NEW t \in TypeName
    PROVE  /\ Append(<<l, r>>, Restore(t)) \in Seq(Item)
           /\ Runs(Append(<<l, r>>, Restore(t)), "type", "type")
           /\ Append(<<r>>, Restore(t)) \in Seq(Item)
           /\ Runs(Append(<<r>>, Restore(t)), "type", "type")
           /\ <<l, Restore(t)>> \in Seq(Item) /\ Runs(<<l, Restore(t)>>, "type", "type")
  <1> DEFINE e == Restore(t)
  <1>1. /\ Step(l, "type", "type") /\ Step(r, "type", "type") /\ Step(e, "type", "type")
        /\ "type" \in Mode /\ l \in Item /\ r \in Item /\ e \in Item
    BY ExprVisited, Restored, Modes DEF Typed, Passed
  <1> HIDE DEF e
  <1>2. Runs(<<l, r>>, "type", "type") /\ Runs(<<r>>, "type", "type") /\ Runs(<<l, e>>, "type", "type")
    BY <1>1, RunsOne, RunsTwo
  <1>3. <<l, r>> \in Seq(Item) /\ <<r>> \in Seq(Item) /\ <<l, e>> \in Seq(Item)
    BY <1>1
  <1>4. /\ Append(<<l, r>>, e) \in Seq(Item) /\ Runs(Append(<<l, r>>, e), "type", "type")
        /\ Append(<<r>>, e) \in Seq(Item) /\ Runs(Append(<<r>>, e), "type", "type")
    BY <1>1, <1>2, <1>3, RunsThen
  <1> QED
    BY <1>2, <1>3, <1>4 DEF e

---------------------------------------------------------------------------
\* Expressions.
LEMMA SkipStep ==
    ASSUME TypeInv, NEW a \in Mode, NEW b \in Mode, First(a, b), Skip, a \in {"any", "type", "void"},
           a = "any" => b = "some", a = "type" => b = "type", a = "void" => b \in Typed
    PROVE  StaticsInv'
  <1>1. /\ todo # <<>> /\ In(st, a) /\ Runs(Tail(todo), b, "idle") /\ Then(<<>>)
        /\ source' = source /\ st' = IF st.any THEN [st EXCEPT !.type = Null, !.any = FALSE] ELSE st
    BY DEF First, Skip
  <1>2. st' \in State /\ (a = "any" => In(st', "some")) /\ (a # "any" => In(st', a))
    BY <1>1 DEF TypeInv, State, In
  <1> DEFINE m == IF a = "any" THEN "some" ELSE a
  <1>3. In(st', m) /\ Serves(m, b) /\ m \in Mode
    BY <1>2, Modes DEF Serves, Typed
  <1> HIDE DEF m
  <1>4. todo' \in Seq(Item) /\ ModeInv'
    BY <1>1, <1>3, Popped
  <1> QED
    BY <1>1, <1>2, <1>4 DEF StaticsInv, TypeInv

\* An expression whose type is known once it has been visited.
LEMMA ValueStep ==
    ASSUME TypeInv, NEW a \in Mode, NEW b \in Mode, First(a, b), Node.k \in Operand,
           NEW t \in TypeName, st' = Takes(st, t), Then(<<>>), source' = source
    PROVE  StaticsInv'
  <1>1. /\ todo # <<>> /\ In(st, a) /\ Runs(Tail(todo), b, "idle")
    BY DEF First
  <1>2. a \in {"any", "type", "void"} /\ Serves("type", b) /\ "type" \in Mode
    BY ExprFirst, Modes DEF Typed, Serves
  <1>3. st' \in State /\ In(st', "type")
    BY <1>1, <1>2, Taken
  <1>4. todo' \in Seq(Item) /\ ModeInv'
    BY <1>1, <1>2, <1>3, Popped
  <1> QED
    BY <1>3, <1>4 DEF StaticsInv, TypeInv

\* What is visited leads to a known type.
LEMMA ExprStep ==
    ASSUME TypeInv, NEW a \in Mode, NEW b \in Mode, First(a, b), Node.k \in Operand, source' = source,
           NEW items \in Seq(Item), Then(items), st' \in State, NEW m \in Mode, In(st', m),
           \/ Runs(items, m, "type")
           \/ a = "any" /\ Runs(items, m, "some")
    PROVE  StaticsInv'
  <1>1. /\ todo # <<>> /\ In(st, a) /\ Runs(Tail(todo), b, "idle")
    BY DEF First
  <1>2. Serves("type", b) /\ (a = "any" => Serves("some", b)) /\ "type" \in Mode /\ "some" \in Mode
    BY ExprFirst, Modes DEF Typed, Serves
  <1>3. todo' \in Seq(Item) /\ ModeInv'
    <2>1. CASE Runs(items, m, "type")
      BY <1>1, <1>2, <2>1, Pushed
    <2>2. CASE a = "any" /\ Runs(items, m, "some")
      BY <1>1, <1>2, <2>2, Pushed
    <2> QED
      BY <2>1, <2>2
  <1> QED
    BY <1>3 DEF StaticsInv, TypeInv

LEMMA ArrayexprStep ==
    ASSUME TypeInv, NEW a \in Mode, NEW b \in Mode, First(a, b), CA_TCarrayexpr
    PROVE  StaticsInv'
  <1> DEFINE t == Decl(Node.a).type
             s == Takes(st, t)
             e == Restore(s.type)
  <1>1. /\ Node.k = "elem" /\ Known(Node.a) /\ st' = [s EXCEPT !.type = "int"]
        /\ Then(Append(Node.is, e)) /\ source' = source
    BY DEF CA_TCarrayexpr, At
  <1>2. t \in TypeName
    BY <1>1, Declared
  <1>3. Node.k \in Operand
    BY <1>1 DEF Operand
  <1>4. Node.is \in Seq(Expr) /\ a \in {"any", "type", "void"} /\ In(st, a)
    BY <1>1, <1>3, ExprFirst DEF WellFormed, Typed, First
  <1> HIDE DEF t
  <1>5. s \in State /\ s.type \in TypeName /\ In(s, "type")
    BY <1>2, <1>4, Taken
  <1>6. st' \in State /\ In(st', "type")
    BY <1>1, <1>5, NullAssumption DEF State, In, TypeName, Types, Number
  <1> HIDE DEF s
  <1>7. e \in Item /\ Step(e, "type", "type") /\ "type" \in Mode
    BY <1>5, Restored, Modes DEF Passed
  <1> HIDE DEF e
  <1>8. Node.is \in Seq(Item) /\ \A p \in 1..Len(Node.is) : Step(Node.is[p], "type", "type")
    <2> DEFINE is == Node.is
    <2>1. is \in Seq(Expr)
      BY <1>4
    <2> HIDE DEF is
    <2>2. \A p \in 1..Len(is) : is[p] \in Expr
      BY <2>1
    <2>3. \A p \in 1..Len(is) : is[p] \in Item /\ Step(is[p], "type", "type")
      BY <2>2, ExprVisited DEF Typed
    <2>4. is \in Seq(Item)
      BY <2>1, <2>3
    <2> QED
      BY <2>3, <2>4 DEF is
  <1>9. Runs(Node.is, "type", "type")
    BY <1>7, <1>8, RunsAll
  <1>10. Append(Node.is, e) \in Seq(Item) /\ Runs(Append(Node.is, e), "type", "type")
    BY <1>7, <1>8, <1>9, RunsThen
  <1> QED
    BY <1>1, <1>3, <1>6, <1>7, <1>10, ExprStep

LEMMA LaterItems ==
    ASSUME NEW n \in Nodes, NEW t \in TypeName \cup {Null}, NEW a \in Passed
    PROVE  /\ t # Null => Later("castend", n, t) \in Item /\ Step(Later("castend", n, t), a, "type")
           /\ n.k \in {"not", "neg"} =>
                Later("monopend", n, t) \in Item /\ Step(Later("monopend", n, t), a, "some")
           /\ n.k = "bin" /\ n.op \in Arithmetic =>
                Later("binopend", n, t) \in Item /\ Step(Later("binopend", n, t), a, "some")
           /\ n.k = "bin" /\ n.op \in Comparison /\ t # Null =>
                Later("binopend", n, t) \in Item /\ Step(Later("binopend", n, t), a, "type")
  BY DEF Later, Item, Ends, Step, Ended

\* Where any type is expected
LEMMA TwoVisited ==
    ASSUME NEW e \in Expr, NEW x \in Item, NEW b \in Mode, Step(x, "some", b)
    PROVE  <<e, x>> \in Seq(Item) /\ Runs(<<e, x>>, "any", b)
  <1>1. e \in Item /\ Step(e, "any", "some") /\ "any" \in Mode /\ "some" \in Mode
    BY ExprVisited, Modes
  <1>2. Runs(<<e, x>>, "any", b)
    BY <1>1, RunsTwo
  <1> QED
    BY <1>1, <1>2

LEMMA CastStep ==
    ASSUME TypeInv, NEW a \in Mode, NEW b \in Mode, First(a, b), CA_TCcast
    PROVE  StaticsInv'
  <1> DEFINE t == Takes(st, Node.to).type
             x == Later("castend", Node, t)
  <1>1. /\ Node.k = "cast" /\ source' = source /\ st' = [st EXCEPT !.type = Null, !.any = TRUE]
        /\ Then(<<Node.e, x>>)
    BY DEF CA_TCcast, At
  <1>2. Node.k \in Operand
    BY <1>1 DEF Operand
  <1>3. /\ Node \in Nodes /\ Node.e \in Expr /\ Node.to \in TypeName
        /\ a \in {"any", "type", "void"} /\ In(st, a)
    BY <1>1, <1>2, ExprFirst DEF WellFormed, Typed, First, Expr, TypeName
  <1>4. t \in TypeName /\ t # Null
    BY <1>3, Taken, NullAssumption DEF TypeName
  <1>5. st' \in State /\ In(st', "any")
    BY <1>1, <1>3 DEF TypeInv, State, In, Idle
  <1> HIDE DEF t
  <1>6. x \in Item /\ Step(x, "some", "type") /\ {"any", "type", "some"} \subseteq Mode
    BY <1>3, <1>4, LaterItems, Modes DEF Passed
  <1> HIDE DEF x
  <1>7. <<Node.e, x>> \in Seq(Item) /\ Runs(<<Node.e, x>>, "any", "type")
    BY <1>3, <1>6, TwoVisited
  <1> QED
    BY <1>1, <1>2, <1>5, <1>6, <1>7, ExprStep

LEMMA CastEndStep ==
    ASSUME TypeInv, NEW a \in Mode, NEW b \in Mode, First(a, b), CastEnd
    PROVE  StaticsInv'
  <1>1. /\ Node.k = "castend" /\ source' = source /\ Then(<<>>)
        /\ st' = [st EXCEPT !.any = FALSE, !.type = Node.type]
    BY DEF CastEnd, At
  <1>2. /\ Node \in Ends /\ Node.type # Null /\ a \in Passed /\ b = "type"
    BY <1>1, EndFirst DEF Ended, SetsType, SetsReturned, Branches, Args, FunEnds
  <1>3. todo # <<>> /\ In(st, a) /\ Runs(Tail(todo), b, "idle")
    BY DEF First
  <1>4. st' \in State /\ In(st', "type") /\ Serves("type", b)
    BY <1>1, <1>2, <1>3 DEF TypeInv, State, In, Ends, Serves, Passed
  <1>5. todo' \in Seq(Item) /\ ModeInv'
    BY <1>1, <1>2, <1>3, <1>4, Popped
  <1> QED
    BY <1>1, <1>4, <1>5 DEF StaticsInv, TypeInv

LEMMA KnownType ==
    ASSUME TypeInv, NEW a \in Mode, In(st, a)
    PROVE  /\ a \in Typed => ~st.any /\ st.type \in TypeName /\ In(st, "type")
           /\ a = "any" => st.any /\ st.type = Null
  BY NullAssumption DEF TypeInv, State, In, Typed, TypeName, Mode

LEMMA MonopStep ==
    ASSUME TypeInv, NEW a \in Mode, NEW b \in Mode, First(a, b), CA_TCmonop
    PROVE  StaticsInv'
  <1> DEFINE x == Later("monopend", Node, Null)
             r == Restore(st.type)
  <1>1. /\ Node.k \in {"not", "neg"} /\ source' = source /\ st' = st
        /\ st.any => Then(<<Node.e, x>>)
        /\ ~st.any => Then(<<Node.e, r>>)
    BY DEF CA_TCmonop, At
  <1>2. Node.k \in Operand
    BY <1>1 DEF Operand
  <1>3. Node \in Nodes /\ Node.e \in Expr /\ (a = "any" \/ a \in Typed) /\ In(st, a)
    BY <1>1, <1>2, ExprFirst DEF WellFormed, First, Expr
  <1>4. st' \in State /\ "some" \in Mode /\ "type" \in Mode /\ "some" \in Passed
    BY <1>1, Modes DEF TypeInv, Passed
  <1>5. CASE a = "any"
    <2>1. x \in Item /\ Step(x, "some", "some")
      BY <1>1, <1>3, <1>4, LaterItems
    <2>2. Then(<<Node.e, x>>) /\ In(st', a)
      BY <1>1, <1>3, <1>5, KnownType
    <2> HIDE DEF x
    <2>3. <<Node.e, x>> \in Seq(Item) /\ Runs(<<Node.e, x>>, "any", "some")
      BY <1>3, <1>4, <2>1, TwoVisited
    <2> QED
      BY <1>1, <1>2, <1>4, <1>5, <2>2, <2>3, ExprStep
  <1>6. CASE a \in Typed
    <2>1. Then(<<Node.e, r>>) /\ In(st', "type") /\ st.type \in TypeName
      BY <1>1, <1>3, <1>6, KnownType
    <2>2. <<Node.e, r>> \in Seq(Item) /\ Runs(<<Node.e, r>>, "type", "type")
      BY <1>3, <2>1, Operands3
    <2> QED
      BY <1>1, <1>2, <1>4, <2>1, <2>2, ExprStep
  <1> QED
    BY <1>3, <1>5, <1>6

LEMMA MonopEndStep ==
    ASSUME TypeInv, NEW a \in Mode, NEW b \in Mode, First(a, b), MonopEnd
    PROVE  StaticsInv'
  <1>1. Node.k = "monopend" /\ source' = source /\ Then(<<>>) /\ st' = st
    BY DEF MonopEnd, At
  <1>2. a \in Passed /\ b = "some"
    BY <1>1, EndFirst DEF Ended, SetsType, SetsReturned, Branches, Args, FunEnds
  <1>3. todo # <<>> /\ In(st, a) /\ Runs(Tail(todo), b, "idle")
    BY DEF First
  <1>4. st' \in State /\ In(st', a) /\ Serves(a, b)
    BY <1>1, <1>2, <1>3 DEF TypeInv, Serves, Passed, Typed
  <1>5. todo' \in Seq(Item) /\ ModeInv'
    BY <1>1, <1>3, <1>4, Popped
  <1> QED
    BY <1>1, <1>4, <1>5 DEF StaticsInv, TypeInv

LEMMA BinopVoidStep ==
    ASSUME TypeInv, NEW a \in Mode, NEW b \in Mode, First(a, b), CA_TCbinopVoid
    PROVE  StaticsInv'
  <1>1. /\ Node.k = "bin" /\ source' = source /\ st' = st /\ st.type = "void"
        /\ Then(Append(<<Node.l, Node.r>>, Restore(st.type)))
    BY DEF CA_TCbinopVoid, At, WithOperands
  <1>2. Node.k \in Operand
    BY <1>1 DEF Operand
  <1>3. Node.l \in Expr /\ Node.r \in Expr /\ (a = "any" \/ a \in Typed) /\ In(st, a)
    BY <1>1, <1>2, ExprFirst DEF WellFormed, First
  <1>4. st.type \in TypeName /\ In(st', "type") /\ st' \in State /\ "type" \in Mode
    BY <1>1, <1>3, KnownType, NullAssumption, Modes DEF TypeInv
  <1>5. /\ Append(<<Node.l, Node.r>>, Restore(st.type)) \in Seq(Item)
        /\ Runs(Append(<<Node.l, Node.r>>, Restore(st.type)), "type", "type")
    BY <1>3, <1>4, Operands3
  <1> QED
    BY <1>1, <1>2, <1>4, <1>5, ExprStep

LEMMA BinopArithmeticStep ==
    ASSUME TypeInv, NEW a \in Mode, NEW b \in Mode, First(a, b), CA_TCbinopArithmetic
    PROVE  StaticsInv'
  <1> DEFINE x == Later("binopend", Node, Null)
             o == Append(<<Node.l, Node.r>>, Restore(st.type))
  <1>1. /\ Node.k = "bin" /\ Node.op \in Arithmetic /\ source' = source /\ st' = st
        /\ st.any => Then(<<Node.l, x>>)
        /\ ~st.any => Then(o)
    BY DEF CA_TCbinopArithmetic, At, WithOperands
  <1>2. Node.k \in Operand
    BY <1>1 DEF Operand
  <1>3. /\ Node \in Nodes /\ Node.l \in Expr /\ Node.r \in Expr /\ (a = "any" \/ a \in Typed)
        /\ In(st, a)
    BY <1>1, <1>2, ExprFirst DEF WellFormed, First, Expr
  <1>4. st' \in State /\ "some" \in Mode /\ "type" \in Mode /\ "some" \in Passed
    BY <1>1, Modes DEF TypeInv, Passed
  <1>5. CASE a = "any"
    <2>1. x \in Item /\ Step(x, "some", "some")
      BY <1>1, <1>3, <1>4, LaterItems
    <2>2. Then(<<Node.l, x>>) /\ In(st', a)
      BY <1>1, <1>3, <1>5, KnownType
    <2> HIDE DEF x
    <2>3. <<Node.l, x>> \in Seq(Item) /\ Runs(<<Node.l, x>>, "any", "some")
      BY <1>3, <1>4, <2>1, TwoVisited
    <2> QED
      BY <1>1, <1>2, <1>4, <1>5, <2>2, <2>3, ExprStep
  <1>6. CASE a \in Typed
    <2>1. Then(o) /\ In(st', "type") /\ st.type \in TypeName
      BY <1>1, <1>3, <1>6, KnownType
    <2>2. o \in Seq(Item) /\ Runs(o, "type", "type")
      BY <1>3, <2>1, Operands3
    <2> QED
      BY <1>1, <1>2, <1>4, <2>1, <2>2, ExprStep
  <1> QED
    BY <1>3, <1>5, <1>6

LEMMA BoolResults ==
    ASSUME TypeInv, NEW a \in Mode, In(st, a), a = "any" \/ a \in Typed
    PROVE  BoolResult \in TypeName
  BY KnownType DEF BoolResult, TypeName, Types

LEMMA BinopComparisonStep ==
    ASSUME TypeInv, NEW a \in Mode, NEW b \in Mode, First(a, b), CA_TCbinopComparison
    PROVE  StaticsInv'
  <1> DEFINE x == Later("binopend", Node, BoolResult)
  <1>1. /\ Node.k = "bin" /\ Node.op \in Comparison /\ source' = source
        /\ st' = [st EXCEPT !.type = Null, !.any = TRUE] /\ Then(<<Node.l, x>>)
    BY DEF CA_TCbinopComparison, At
  <1>2. Node.k \in Operand
    BY <1>1 DEF Operand
  <1>3. Node \in Nodes /\ Node.l \in Expr /\ (a = "any" \/ a \in Typed) /\ In(st, a)
    BY <1>1, <1>2, ExprFirst DEF WellFormed, First, Expr
  <1>4. BoolResult \in TypeName /\ BoolResult # Null
    BY <1>3, BoolResults, NullAssumption DEF TypeName
  <1>5. st' \in State /\ In(st', "any")
    BY <1>1, <1>3 DEF TypeInv, State, In, Idle, Typed
  <1>6. x \in Item /\ Step(x, "some", "type") /\ {"any", "type", "some"} \subseteq Mode
    BY <1>1, <1>3, <1>4, LaterItems, Modes DEF Passed
  <1> HIDE DEF x
  <1>7. <<Node.l, x>> \in Seq(Item) /\ Runs(<<Node.l, x>>, "any", "type")
    BY <1>3, <1>6, TwoVisited
  <1> QED
    BY <1>1, <1>2, <1>5, <1>6, <1>7, ExprStep

LEMMA BinopLogicStep ==
    ASSUME TypeInv, NEW a \in Mode, NEW b \in Mode, First(a, b), CA_TCbinopLogic
    PROVE  StaticsInv'
  <1> DEFINE o == Append(<<Node.l, Node.r>>, Restore(BoolResult))
  <1>1. /\ Node.k = "bin" /\ source' = source
        /\ st' = [st EXCEPT !.type = "bool", !.any = FALSE] /\ Then(o)
    BY DEF CA_TCbinopLogic, At, WithOperands
  <1>2. Node.k \in Operand
    BY <1>1 DEF Operand
  <1>3. Node.l \in Expr /\ Node.r \in Expr /\ (a = "any" \/ a \in Typed) /\ In(st, a)
    BY <1>1, <1>2, ExprFirst DEF WellFormed, First
  <1>4. BoolResult \in TypeName
    BY <1>3, BoolResults
  <1>5. st' \in State /\ In(st', "type") /\ "type" \in Mode
    BY <1>1, <1>3, NullAssumption, Modes DEF TypeInv, State, In, Typed, TypeName, Types
  <1>6. o \in Seq(Item) /\ Runs(o, "type", "type")
    BY <1>3, <1>4, Operands3
  <1> QED
    BY <1>1, <1>2, <1>5, <1>6, ExprStep

LEMMA BinopEndStep ==
    ASSUME TypeInv, NEW a \in Mode, NEW b \in Mode, First(a, b), BinopEnd
    PROVE  StaticsInv'
  <1> DEFINE n == Node.node
             o == Append(<<n.r>>, Restore(Outcome(Node)))
  <1>1. /\ Node.k = "binopend" /\ source' = source
        /\ st.type = Null => st' = [st EXCEPT !.type = Outcome(Node)] /\ Then(<<>>)
        /\ st.type # Null => st' = st /\ Then(o)
    BY DEF BinopEnd, At, WithOperands
  <1>2. /\ Node \in Ends /\ n.k = "bin" /\ a \in Passed
        /\ \/ n.op \in Arithmetic /\ b = "some"
           \/ n.op \in Comparison /\ Node.type # Null /\ b = "type"
    BY <1>1, EndFirst DEF Ended, SetsType, SetsReturned, Branches, Args, FunEnds
  <1>3. todo # <<>> /\ In(st, a) /\ Runs(Tail(todo), b, "idle")
    BY DEF First
  <1>4. n \in Nodes /\ n.r \in Expr
    BY <1>2, NodesAssumption DEF Ends, WellFormed
  <1>5. ~st.any /\ st \in State /\ st.ret # Null
    BY <1>2, <1>3 DEF In, Passed, TypeInv
  <1>6. /\ n.op \in Arithmetic => Outcome(Node) = st.type
        /\ n.op \in Comparison => Outcome(Node) = Node.type /\ Node.type \in TypeName \cup {Null}
    BY <1>2 DEF Outcome, Arithmetic, Comparison, Ends
  <1>7. "some" \in Mode /\ "type" \in Mode /\ Serves("type", b) /\ Serves(b, b) /\ b \in {"some", "type"}
    BY <1>2, Modes DEF Serves, Typed
  <1>8. CASE st.type = Null
    <2>1. st' = [st EXCEPT !.type = Outcome(Node)] /\ Then(<<>>)
      BY <1>1, <1>8
    <2>2. st' \in State /\ In(st', b)
      BY <1>2, <1>5, <1>6, <1>8, <2>1 DEF State, In
    <2>3. todo' \in Seq(Item) /\ ModeInv'
      BY <1>3, <1>7, <2>1, <2>2, Popped
    <2> QED
      BY <1>1, <2>2, <2>3 DEF StaticsInv, TypeInv
  <1>9. CASE st.type # Null
    <2>1. st' = st /\ Then(o)
      BY <1>1, <1>9
    <2>2. st.type \in TypeName /\ In(st', "type")
      BY <1>5, <1>9, <2>1 DEF State, In
    <2>3. Outcome(Node) \in TypeName
      BY <1>2, <1>6, <2>2
    <2>4. o \in Seq(Item) /\ Runs(o, "type", "type")
      BY <1>4, <2>3, Operands3
    <2> HIDE DEF o
    <2>5. todo' \in Seq(Item) /\ ModeInv'
      BY <1>3, <1>7, <2>1, <2>2, <2>4, Pushed
    <2> QED
      BY <1>1, <1>5, <2>1, <2>5 DEF StaticsInv, TypeInv
  <1> QED
    BY <1>8, <1>9

LEMMA RestoreStep ==
    ASSUME TypeInv, NEW a \in Mode, NEW b \in Mode, First(a, b), RestoreType
    PROVE  StaticsInv'
  <1>1. /\ Node.k \in {"restore", "expect"} /\ source' = source /\ Then(<<>>)
        /\ st' = [st EXCEPT !.type = Node.type]
    BY DEF RestoreType, At
  <1>2. /\ Node \in SetsType /\ a \in Passed
        /\ b = "type" \/ (Node.type = "void" /\ b = "void")
    BY <1>1, EndFirst DEF Ended, SetsReturned, Branches, Args, FunEnds, Ends
  <1>3. todo # <<>> /\ In(st, a) /\ Runs(Tail(todo), b, "idle")
    BY DEF First
  <1>4. st' \in State /\ In(st', b) /\ Serves(b, b)
    BY <1>1, <1>2, <1>3, NullAssumption DEF TypeInv, State, In, SetsType, Serves, Passed, TypeName
  <1>5. todo' \in Seq(Item) /\ ModeInv'
    BY <1>1, <1>3, <1>4, Popped
  <1> QED
    BY <1>1, <1>4, <1>5 DEF StaticsInv, TypeInv

LEMMA ValueSteps ==
    ASSUME TypeInv, NEW a \in Mode, NEW b \in Mode, First(a, b), CA_TClit \/ CA_TCvar
    PROVE  StaticsInv'
  <1>1. CASE CA_TClit
    <2>1. /\ Node.k = "lit" /\ source' = source /\ Then(<<>>) /\ st' = Takes(st, Node.t)
      BY <1>1 DEF CA_TClit, At
    <2>2. Node.k \in Operand
      BY <2>1 DEF Operand
    <2>3. Node.t \in TypeName
      BY <2>1, <2>2, ExprFirst DEF WellFormed, TypeName
    <2> QED
      BY <2>1, <2>2, <2>3, ValueStep
  <1>2. CASE CA_TCvar
    <2>1. /\ Node.k = "var" /\ source' = source /\ Then(<<>>)
          /\ Known(Node.x) /\ st' = Takes(st, Decl(Node.x).type)
      BY <1>2 DEF CA_TCvar, At
    <2>2. Node.k \in Operand
      BY <2>1 DEF Operand
    <2>3. Decl(Node.x).type \in TypeName
      BY <2>1, Declared
    <2> QED
      BY <2>1, <2>2, <2>3, ValueStep
  <1> QED
    BY <1>1, <1>2

LEMMA SkipSteps ==
    ASSUME TypeInv, NEW a \in Mode, NEW b \in Mode, First(a, b),
           VarSkipped \/ ArrayexprSkipped \/ ProccallSkipped
    PROVE  StaticsInv'
  <1>1. Skip /\ Node.k \in {"var", "elem", "call"}
    BY DEF VarSkipped, ArrayexprSkipped, ProccallSkipped, At
  <1>2. CASE Node.k = "call"
    BY <1>1, <1>2, CallFirst, SkipStep DEF Typed
  <1>3. CASE Node.k # "call"
    <2>1. Node.k \in Operand
      BY <1>1, <1>3 DEF Operand
    <2> QED
      BY <1>1, <2>1, ExprFirst, SkipStep DEF Typed
  <1> QED
    BY <1>2, <1>3

\* What is visited goes on with as much as is known behind it.
LEMMA PushedStep ==
    ASSUME TypeInv, NEW a \in Mode, NEW b \in Mode, First(a, b), source' = source,
           NEW items \in Seq(Item), Then(items), st' \in State, NEW m \in Mode, In(st', m),
           NEW n \in Mode, Runs(items, m, n), Serves(n, b)
    PROVE  StaticsInv'
  <1>1. /\ todo # <<>> /\ In(st, a) /\ Runs(Tail(todo), b, "idle")
    BY DEF First
  <1>2. todo' \in Seq(Item) /\ ModeInv'
    BY <1>1, Pushed
  <1> QED
    BY <1>2 DEF StaticsInv, TypeInv

LEMMA ArrayArgStep ==
    ASSUME TypeInv, NEW a \in Mode, NEW b \in Mode, First(a, b), ArrayArg
    PROVE  StaticsInv'
  <1>1. Node.k = "arg" /\ Then(<<>>) /\ source' = source /\ st' = st
    BY DEF ArrayArg, At
  <1>2. a \in Typed /\ Serves(a, b)
    BY <1>1, EndFirst DEF Ended, SetsType, SetsReturned, Branches, Ends, FunEnds, Typed, Serves
  <1>3. /\ In(st', a) /\ st' \in State
    BY <1>1 DEF First, TypeInv
  <1>4. <<>> \in Seq(Item)
    OBVIOUS
  <1> QED
    BY <1>1, <1>2, <1>3, <1>4, RunsNone, PushedStep

LEMMA ScalarArgStep ==
    ASSUME TypeInv, NEW a \in Mode, NEW b \in Mode, First(a, b), ScalarArg
    PROVE  StaticsInv'
  <1> DEFINE e == Expect(Node.param.type)
             r == Restore(Node.type)
             x == Node.arg
  <1>1. Node.k = "arg" /\ Then(<<e, x, r>>) /\ source' = source /\ st' = st
    BY DEF ScalarArg, At
  <1>2. Node \in Args /\ a \in Typed /\ (b = "type" \/ (Node.type = "void" /\ b = "void"))
    BY <1>1, EndFirst DEF Ended, SetsType, SetsReturned, Branches, Ends, FunEnds, Typed
  <1>3. x \in Expr /\ Node.param.type \in TypeName /\ Node.type \in TypeName
    BY <1>2 DEF Args, Params, TypeName
  <1>4. /\ In(st', a) /\ st' \in State
    BY <1>1 DEF First, TypeInv
  <1>5. /\ e \in Item /\ Step(e, a, "type") /\ x \in Item /\ Step(x, "type", "type")
        /\ r \in Item /\ Step(r, "type", b) /\ "type" \in Mode
    BY <1>2, <1>3, Expected, ExprVisited, Restored, Modes DEF Typed, Passed
  <1> HIDE DEF e, r, x
  <1>6. <<e, x, r>> \in Seq(Item) /\ Runs(<<e, x, r>>, a, b)
    BY <1>5, RunsThree
  <1>7. Serves(b, b)
    BY DEF Serves
  <1> QED
    BY <1>1, <1>4, <1>6, <1>7, PushedStep

LEMMA ArgsPassed ==
    ASSUME NEW args \in Seq(Expr), NEW ps \in Seq(Params), NEW t \in TypeName, NEW m \in Typed,
           m = "void" => t = "void", NEW n \in Nat, n <= Len(args), n <= Len(ps)
    PROVE  /\ [j \in 1..n |-> Arg(args[j], ps[j], t)] \in Seq(Item)
           /\ Runs([j \in 1..n |-> Arg(args[j], ps[j], t)], m, m)
  <1> DEFINE items == [j \in 1..n |-> Arg(args[j], ps[j], t)]
  <1>1. ASSUME NEW j \in 1..n
        PROVE  items[j] \in Item /\ Step(items[j], m, m)
    <2>1. args[j] \in Expr /\ ps[j] \in Params
      <3>1. Len(args) \in Nat /\ Len(ps) \in Nat
        OBVIOUS
      <3>2. j \in 1..Len(args) /\ j \in 1..Len(ps)
        BY <3>1
      <3>3. args[j] \in Expr
        BY <3>2
      <3> QED
        BY <3>2, <3>3
    <2>2. items[j] = Arg(args[j], ps[j], t)
      OBVIOUS
    <2>3. items[j] \in Args /\ items[j].type = t
      BY <2>1, <2>2 DEF Arg, Args
    <2>4. Ended(items[j], m, m)
      BY <2>3 DEF Ended, Typed
    <2> QED
      BY <2>3, <2>4 DEF Item, Step
  <1>2. items \in [1..n -> Item]
    BY <1>1
  <1> HIDE DEF items
  <1>3. items \in Seq(Item) /\ Len(items) = n
    BY <1>2
  <1>4. m \in Mode
    BY Modes
  <1>5. Runs(items, m, m)
    BY <1>1, <1>3, <1>4, RunsAll
  <1> QED
    BY <1>3, <1>5 DEF items

LEMMA ProccallStep ==
    ASSUME TypeInv, NEW a \in Mode, NEW b \in Mode, First(a, b), CA_TCproccall
    PROVE  StaticsInv'
  <1> DEFINE ps == Decl(Node.f).params
             args == Node.args
             both == IF Len(ps) < Len(args) THEN Len(ps) ELSE Len(args)
             s == Takes(st, Decl(Node.f).type)
             items == [j \in 1..both |-> Arg(args[j], ps[j], s.type)]
             m == IF a = "void" THEN "void" ELSE "type"
  <1>1. Node.k = "call" /\ Known(Node.f) /\ source' = source /\ st' = s /\ Then(items)
    BY DEF CA_TCproccall, At
  <1>2. ps \in Seq(Params) /\ Decl(Node.f).type \in TypeName
    BY <1>1, Declared
  <1>3. args \in Seq(Expr) /\ In(st, a) /\ a \in {"any", "type", "void"} /\ m \in {"void", "type"}
        /\ Serves(m, b)
    BY <1>1, CallFirst DEF WellFormed, First, Serves, Typed
  <1>4. s \in State /\ s.type \in TypeName /\ In(s, "type") /\ (a # "any" => s = st)
    BY <1>2, <1>3, Taken
  <1>5. In(s, m) /\ (m = "void" => s.type = "void") /\ m \in Typed /\ m \in Mode
    BY <1>3, <1>4, Modes DEF In, Typed
  <1>6. both \in Nat /\ both <= Len(ps) /\ both <= Len(args)
    BY <1>2, <1>3
  <1>7. items \in Seq(Item) /\ Runs(items, m, m)
    <2> HIDE DEF m, s, ps, args, both
    <2> QED
      BY <1>2, <1>3, <1>4, <1>5, <1>6, ArgsPassed
  <1> HIDE DEF items, m, s
  <1> QED
    BY <1>1, <1>3, <1>4, <1>5, <1>7, PushedStep

\* Sequences that are visited
LEMMA ExprsVisited ==
    ASSUME NEW es \in Seq(Initialiser)
    PROVE  es \in Seq(Item) /\ Runs(es, "type", "type")
  <1>1. ASSUME NEW p \in 1..Len(es)
        PROVE  es[p] \in Item /\ Step(es[p], "type", "type")
    <2>1. es[p] \in Initialiser
      OBVIOUS
    <2> QED
      BY <2>1 DEF Initialiser, Expr, OfKind, Item, Step, Visited, Typed
  <1>2. es \in Seq(Item)
    BY <1>1
  <1>3. "type" \in Mode
    BY Modes
  <1> QED
    BY <1>1, <1>2, <1>3, RunsAll

LEMMA ExprsOnly ==
    ASSUME NEW es \in Seq(Expr)
    PROVE  es \in Seq(Initialiser)
  <1>1. Expr \subseteq Initialiser
    BY DEF Initialiser
  <1> QED
    BY <1>1

LEMMA VoidVisited ==
    ASSUME NEW S, S \subseteq Nodes \/ S \subseteq SetsReturned \cup Branches,
           \A x \in S : Step(x, "void", "void"), NEW s \in Seq(S)
    PROVE  s \in Seq(Item) /\ Runs(s, "void", "void")
  <1>1. S \subseteq Item
    BY DEF Item
  <1>2. s \in Seq(Item) /\ \A p \in 1..Len(s) : s[p] \in S
    BY <1>1
  <1>3. "void" \in Mode
    BY Modes
  <1> QED
    BY <1>2, <1>3, RunsAll

LEMMA StmtsVisited ==
    ASSUME NEW s \in Seq(Stmt)
    PROVE  s \in Seq(Item) /\ Runs(s, "void", "void")
  <1>1. Stmt \subseteq Nodes /\ \A x \in Stmt : Step(x, "void", "void")
    BY DEF Stmt, Step, Visited
  <1> QED
    BY <1>1, VoidVisited

LEMMA ArrayInitStep ==
    ASSUME TypeInv, NEW a \in Mode, NEW b \in Mode, First(a, b), ArrayInit
    PROVE  StaticsInv'
  <1>1. Node.k = "list" /\ Then(Node.es) /\ source' = source /\ st' = st
    BY DEF ArrayInit, At
  <1>2. Node.es \in Seq(Initialiser) /\ a \in Typed /\ b = "type"
    BY <1>1, ListFirst DEF WellFormed
  <1>3. Node.es \in Seq(Item) /\ Runs(Node.es, "type", "type")
    BY <1>2, ExprsVisited
  <1>4. In(st', "type") /\ st' \in State /\ "type" \in Mode /\ Serves("type", b)
    BY <1>1, <1>2, KnownType, Modes DEF First, TypeInv, Serves
  <1> QED
    BY <1>1, <1>3, <1>4, PushedStep

---------------------------------------------------------------------------
\* Statements.
LEMMA VisitStep ==
    ASSUME TypeInv, First("void", "void"), source' = source,
           NEW es \in Seq(Item), NEW rest \in Seq(Item), NEW t \in TypeName, Visit(es, t, rest),
           Runs(es, "type", "type"), Runs(rest, "void", "void")
    PROVE  StaticsInv'
  <1> DEFINE e == Restore(st.type)
  <1>1. In(st, "void") /\ "type" \in Mode /\ "void" \in Mode
    BY Modes DEF First
  <1>2. st.type = "void" /\ st.type \in TypeName
    BY <1>1 DEF In, TypeName
  <1>3. e \in Item /\ Step(e, "type", "void")
    BY <1>2, Restored DEF Passed
  <1>4. st' = [st EXCEPT !.type = t] /\ Then(es \o <<e>> \o rest)
    BY DEF Visit
  <1>5. st' \in State /\ In(st', "type")
    BY <1>1, <1>4, NullAssumption DEF TypeInv, State, In, TypeName
  <1> HIDE DEF e
  <1> DEFINE front == es \o <<e>>
  <1>6. front \in Seq(Item) /\ Runs(front, "type", "void")
    BY <1>1, <1>3, RunsThen
  <1> HIDE DEF front
  <1>7. front \o rest \in Seq(Item) /\ Runs(front \o rest, "type", "void")
    BY <1>1, <1>6, RunsBoth
  <1>8. Then(front \o rest) /\ Serves("void", "void")
    BY <1>4 DEF front, Serves
  <1> QED
    BY <1>1, <1>5, <1>7, <1>8, PushedStep

LEMMA SetReturnedVisited ==
    ASSUME NEW r \in BOOLEAN, NEW s \in Seq(Item), Runs(s, "void", "void")
    PROVE  /\ s \o <<SetReturned(r)>> \in Seq(Item) /\ Runs(s \o <<SetReturned(r)>>, "void", "void")
           /\ <<SetReturned(r)>> \in Seq(Item) /\ Runs(<<SetReturned(r)>>, "void", "void")
  <1>1. SetReturned(r) \in Item /\ Step(SetReturned(r), "void", "void") /\ "void" \in Mode
    BY Modes DEF SetReturned, SetsReturned, Item, Step, Ended
  <1> QED
    BY <1>1, RunsThen, RunsOne

LEMMA LeaveStep ==
    ASSUME TypeInv, First("void", "void"), source' = source, Leave
    PROVE  StaticsInv'
  <1>1. Then(<<>>) /\ st' = st /\ "void" \in Mode /\ Serves("void", "void") /\ <<>> \in Seq(Item)
    BY Modes DEF Leave, Serves
  <1>2. In(st', "void") /\ st' \in State
    BY <1>1 DEF First, TypeInv
  <1> QED
    BY <1>1, <1>2, RunsNone, PushedStep

LEMMA OneVisited ==
    ASSUME NEW e \in Expr
    PROVE  <<e>> \in Seq(Item) /\ Runs(<<e>>, "type", "type")
  <1>1. <<e>> \in Seq(Expr)
    OBVIOUS
  <1> QED
    BY <1>1, ExprsOnly, ExprsVisited

LEMMA NothingVisited == <<>> \in Seq(Item) /\ Runs(<<>>, "void", "void")
  <1>1. "void" \in Mode
    BY Modes
  <1> QED
    BY <1>1, RunsNone

LEMMA RetstatementStep ==
    ASSUME TypeInv, NEW a \in Mode, NEW b \in Mode, First(a, b), CA_TCretstatement
    PROVE  StaticsInv'
  <1> DEFINE rest == <<SetReturned(TRUE)>>
  <1>1. Node.k = "return" /\ source' = source /\ Visit(Node.es, st.ret, rest)
    BY DEF CA_TCretstatement, At
  <1>2. Node.es \in Seq(Expr) /\ a = "void" /\ b = "void"
    BY <1>1, StmtFirst DEF WellFormed
  <1>3. st.ret \in TypeName
    BY <1>2 DEF First, In, TypeInv, State
  <1>4. Node.es \in Seq(Item) /\ Runs(Node.es, "type", "type")
    BY <1>2, ExprsOnly, ExprsVisited
  <1>5. rest \in Seq(Item) /\ Runs(rest, "void", "void")
    BY NothingVisited, SetReturnedVisited
  <1> HIDE DEF rest
  <1> QED
    BY <1>1, <1>2, <1>3, <1>4, <1>5, VisitStep

LEMMA AssignStep ==
    ASSUME TypeInv, NEW a \in Mode, NEW b \in Mode, First(a, b), CA_TCassign
    PROVE  StaticsInv'
  <1>1. Node.k = "assign" /\ source' = source
        /\ ((Known(Node.x) /\ Visit(<<Node.e>>, Decl(Node.x).type, <<>>)) \/ Leave)
    BY DEF CA_TCassign, At
  <1>2. Node.e \in Expr /\ a = "void" /\ b = "void"
    BY <1>1, StmtFirst DEF WellFormed
  <1>3. CASE Leave
    BY <1>1, <1>2, <1>3, LeaveStep
  <1>4. CASE Known(Node.x) /\ Visit(<<Node.e>>, Decl(Node.x).type, <<>>)
    <2>1. Decl(Node.x).type \in TypeName
      BY <1>4, Declared
    <2> QED
      BY <1>1, <1>2, <1>4, <2>1, OneVisited, NothingVisited, VisitStep
  <1> QED
    BY <1>1, <1>3, <1>4

LEMMA ArrayassignStep ==
    ASSUME TypeInv, NEW a \in Mode, NEW b \in Mode, First(a, b), CA_TCarrayassign
    PROVE  StaticsInv'
  <1> DEFINE x == Expect(Decl(Node.a).type)
             end == <<x, Node.e>>
  <1>1. Node.k = "store" /\ source' = source
        /\ ((Known(Node.a) /\ Visit(Node.is \o end, "int", <<>>)) \/ Leave)
    BY DEF CA_TCarrayassign, At
  <1>2. Node.is \in Seq(Expr) /\ Node.e \in Expr /\ a = "void" /\ b = "void"
    BY <1>1, StmtFirst DEF WellFormed
  <1>3. CASE Leave
    BY <1>1, <1>2, <1>3, LeaveStep
  <1>4. CASE Known(Node.a) /\ Visit(Node.is \o end, "int", <<>>)
    <2>1. Decl(Node.a).type \in TypeName /\ "int" \in TypeName /\ "type" \in Mode
      BY <1>4, Declared, Modes DEF TypeName, Types, Number
    <2>2. /\ x \in Item /\ Step(x, "type", "type") /\ Node.e \in Item /\ Step(Node.e, "type", "type")
      BY <1>2, <2>1, Expected, ExprVisited DEF Passed, Typed
    <2> HIDE DEF x
    <2>3. end \in Seq(Item) /\ Runs(end, "type", "type")
      BY <2>1, <2>2, RunsTwo
    <2> HIDE DEF end
    <2>4. Node.is \in Seq(Item) /\ Runs(Node.is, "type", "type")
      BY <1>2, ExprsOnly, ExprsVisited
    <2>5. Node.is \o end \in Seq(Item) /\ Runs(Node.is \o end, "type", "type")
      BY <2>1, <2>3, <2>4, RunsBoth
    <2> QED
      BY <1>1, <1>2, <1>4, <2>1, <2>5, NothingVisited, VisitStep
  <1> QED
    BY <1>1, <1>3, <1>4

LEMMA LoopStep ==
    ASSUME TypeInv, NEW a \in Mode, NEW b \in Mode, First(a, b),
           CA_TCwhileloop \/ CA_TCdowhileloop \/ CA_TCforloop
    PROVE  StaticsInv'
  <1> DEFINE r == <<SetReturned(st.returned)>>
             body == Node.body
  <1>1. /\ Node.k \in {"while", "dowhile", "for"} /\ source' = source
        /\ Node.k = "while" => Visit(<<Node.c>>, "bool", body \o r)
        /\ Node.k = "dowhile" => Visit(<<Node.c>>, "bool", body)
        /\ Node.k = "for" => Visit(<<Node.to, Node.by, Node.from>>, "int", body \o r)
    BY DEF CA_TCwhileloop, CA_TCdowhileloop, CA_TCforloop, At
  <1>2. /\ body \in Seq(Stmt) /\ a = "void" /\ b = "void"
        /\ Node.k \in {"while", "dowhile"} => Node.c \in Expr
        /\ Node.k = "for" => Node.to \in Expr /\ Node.by \in Expr /\ Node.from \in Expr
    BY <1>1, StmtFirst DEF WellFormed
  <1>3. st.returned \in BOOLEAN /\ "bool" \in TypeName /\ "int" \in TypeName
    BY DEF TypeInv, State, TypeName, Types, Number
  <1>4. body \in Seq(Item) /\ Runs(body, "void", "void")
    BY <1>2, StmtsVisited
  <1> HIDE DEF body
  <1>5. body \o r \in Seq(Item) /\ Runs(body \o r, "void", "void")
    BY <1>3, <1>4, SetReturnedVisited
  <1> HIDE DEF r
  <1>6. CASE Node.k \in {"while", "dowhile"}
    <2>1. <<Node.c>> \in Seq(Item) /\ Runs(<<Node.c>>, "type", "type")
      BY <1>2, <1>6, OneVisited
    <2> QED
      BY <1>1, <1>2, <1>3, <1>4, <1>5, <1>6, <2>1, VisitStep
  <1>7. CASE Node.k = "for"
    <2> DEFINE es == <<Node.to, Node.by, Node.from>>
    <2>1. es \in Seq(Expr)
      BY <1>2, <1>7
    <2> HIDE DEF es
    <2>2. es \in Seq(Item) /\ Runs(es, "type", "type")
      BY <2>1, ExprsOnly, ExprsVisited
    <2>3. Visit(es, "int", body \o r)
      BY <1>1, <1>7 DEF es
    <2> QED
      BY <1>1, <1>2, <1>3, <1>5, <2>2, <2>3, VisitStep
  <1> QED
    BY <1>1, <1>6, <1>7

\* What ends a branch and what sets has_return leaves a statement behind.
LEMMA VoidStep ==
    ASSUME TypeInv, NEW a \in Mode, NEW b \in Mode, First(a, b), source' = source,
           a = "void", b = "void", NEW r \in BOOLEAN, st' = [st EXCEPT !.returned = r],
           NEW items \in Seq(Item), Runs(items, "void", "void"), Then(items)
    PROVE  StaticsInv'
  <1>1. In(st', "void") /\ st' \in State
    BY NullAssumption DEF First, TypeInv, State, In
  <1>2. "void" \in Mode /\ Serves("void", "void")
    BY Modes DEF Serves
  <1> QED
    BY <1>1, <1>2, PushedStep

LEMMA IfstatementStep ==
    ASSUME TypeInv, NEW a \in Mode, NEW b \in Mode, First(a, b), CA_TCifstatement
    PROVE  StaticsInv'
  <1> DEFINE r == <<SetReturned(FALSE)>>
             then == Node.then
             x == Later("else", Node, st.returned)
  <1>1. /\ Node.k = "if" /\ source' = source
        /\ Visit(<<Node.c>>, "bool", r \o then \o <<x>>)
    BY DEF CA_TCifstatement, At
  <1>2. Node.c \in Expr /\ then \in Seq(Stmt) /\ Node \in Nodes /\ a = "void" /\ b = "void"
    BY <1>1, StmtFirst DEF WellFormed
  <1>3. "bool" \in TypeName /\ "void" \in Mode /\ st.returned \in BOOLEAN
    BY Modes DEF TypeInv, State, TypeName, Types
  <1>4. x \in Item /\ Step(x, "void", "void")
    BY <1>1, <1>2, <1>3 DEF Later, Branches, Item, Step, Ended
  <1>5. <<Node.c>> \in Seq(Item) /\ Runs(<<Node.c>>, "type", "type")
    BY <1>2, OneVisited
  <1>6. then \in Seq(Item) /\ Runs(then, "void", "void")
    BY <1>2, StmtsVisited
  <1>7. r \in Seq(Item) /\ Runs(r, "void", "void")
    BY NothingVisited, SetReturnedVisited
  <1> HIDE DEF r, then, x
  <1> DEFINE front == r \o then
  <1>8. front \in Seq(Item) /\ Runs(front, "void", "void")
    BY <1>3, <1>6, <1>7, RunsBoth
  <1> HIDE DEF front
  <1>9. front \o <<x>> \in Seq(Item) /\ Runs(front \o <<x>>, "void", "void")
    BY <1>3, <1>4, <1>8, RunsThen
  <1>10. Visit(<<Node.c>>, "bool", front \o <<x>>)
    BY <1>1 DEF front
  <1> QED
    BY <1>1, <1>2, <1>3, <1>5, <1>9, <1>10, VisitStep

LEMMA ElseBlockStep ==
    ASSUME TypeInv, NEW a \in Mode, NEW b \in Mode, First(a, b), ElseBlock
    PROVE  StaticsInv'
  <1> DEFINE x == [k |-> "ifend", before |-> Node.type, then |-> st.returned]
             else == Node.node.else
  <1>1. /\ Node.k = "else" /\ source' = source
        /\ st' = [st EXCEPT !.returned = FALSE] /\ Then(else \o <<x>>)
    BY DEF ElseBlock, At
  <1>2. /\ Node \in Branches /\ Node.node.k = "if" /\ a = "void" /\ b = "void"
    BY <1>1, EndFirst DEF Ended, SetsType, SetsReturned, Args, Ends, FunEnds
  <1>3. Node.node \in Nodes /\ Node.type \in BOOLEAN
    BY <1>1, <1>2 DEF Branches
  <1>4. else \in Seq(Stmt)
    BY <1>2, <1>3, NodesAssumption DEF WellFormed
  <1>5. else \in Seq(Item) /\ Runs(else, "void", "void")
    BY <1>4, StmtsVisited
  <1>6. st.returned \in BOOLEAN /\ "void" \in Mode
    BY Modes DEF TypeInv, State
  <1>7. x \in Item /\ Step(x, "void", "void")
    BY <1>3, <1>6 DEF Branches, Item, Step, Ended
  <1> HIDE DEF x, else
  <1>8. else \o <<x>> \in Seq(Item) /\ Runs(else \o <<x>>, "void", "void")
    BY <1>5, <1>6, <1>7, RunsThen
  <1> QED
    BY <1>1, <1>2, <1>8, VoidStep

LEMMA ReturnedStep ==
    ASSUME TypeInv, NEW a \in Mode, NEW b \in Mode, First(a, b), IfEnd \/ SetHasReturn
    PROVE  StaticsInv'
  <1>1. <<>> \in Seq(Item) /\ Runs(<<>>, "void", "void")
    BY NothingVisited
  <1>2. CASE IfEnd
    <2> DEFINE r == Node.before \/ (Node.then /\ st.returned)
    <2>1. Node.k = "ifend" /\ source' = source /\ Then(<<>>) /\ st' = [st EXCEPT !.returned = r]
      BY <1>2 DEF IfEnd, At
    <2>2. a = "void" /\ b = "void"
      BY <2>1, EndFirst DEF Ended, SetsType, SetsReturned, Args, Ends, FunEnds
    <2> HIDE DEF r
    <2>3. r \in BOOLEAN
      BY DEF r
    <2> QED
      BY <1>1, <2>1, <2>2, <2>3, VoidStep
  <1>3. CASE SetHasReturn
    <2>1. Node.k = "setreturned" /\ source' = source /\ Then(<<>>) /\ st' = [st EXCEPT !.returned = Node.b]
      BY <1>3 DEF SetHasReturn, At
    <2>2. a = "void" /\ b = "void" /\ Node.b \in BOOLEAN
      BY <2>1, EndFirst DEF Ended, SetsType, SetsReturned, Branches, Args, Ends, FunEnds
    <2> QED
      BY <1>1, <2>1, <2>2, VoidStep
  <1> QED
    BY <1>2, <1>3

LEMMA VardecStep ==
    ASSUME TypeInv, NEW a \in Mode, NEW b \in Mode, First(a, b), CA_TCvardec
    PROVE  StaticsInv'
  <1> DEFINE x == Expect(Node.type)
             sizes == Node.sizes
             init == IF Node.init # <<>> /\ Node.init[1].k = "list" /\ sizes = <<>>
                     THEN <<>> ELSE Node.init
  <1>1. /\ Node.k = "vardec" /\ source' = source
        /\ Visit(sizes \o <<x>> \o init, "int", <<>>)
    BY DEF CA_TCvardec, At
  <1>2. /\ sizes \in Seq(Expr) /\ Node.init \in Seq(Initialiser) /\ Node.type \in TypeName
        /\ a = "void" /\ b = "void"
    BY <1>1, StmtFirst DEF WellFormed, TypeName
  <1>3. init \in Seq(Initialiser)
    BY <1>2
  <1>4. x \in Item /\ Step(x, "type", "type") /\ "type" \in Mode /\ "int" \in TypeName
    BY <1>2, Expected, Modes DEF Passed, TypeName, Types, Number
  <1> HIDE DEF x, sizes, init
  <1>5. /\ sizes \in Seq(Item) /\ Runs(sizes, "type", "type")
        /\ init \in Seq(Item) /\ Runs(init, "type", "type")
    BY <1>2, <1>3, ExprsOnly, ExprsVisited
  <1> DEFINE front == sizes \o <<x>>
  <1>6. front \in Seq(Item) /\ Runs(front, "type", "type")
    BY <1>4, <1>5, RunsThen
  <1> HIDE DEF front
  <1>7. front \o init \in Seq(Item) /\ Runs(front \o init, "type", "type")
    BY <1>4, <1>5, <1>6, RunsBoth
  <1>8. Visit(front \o init, "int", <<>>)
    BY <1>1 DEF front
  <1> QED
    BY <1>1, <1>2, <1>4, <1>7, <1>8, NothingVisited, VisitStep

LEMMA FundefStep ==
    ASSUME TypeInv, NEW a \in Mode, NEW b \in Mode, First(a, b), CA_TCfundef
    PROVE  StaticsInv'
  <1> DEFINE x == [k |-> "fundefend", before |-> st]
             variables == Node.vars
             locals == Node.locals
             body == Node.body
  <1>1. /\ Node.k = "fundef" /\ source' = source
        /\ st' = [st EXCEPT !.type = "void", !.ret = Node.result, !.returned = FALSE]
        /\ Then(variables \o locals \o body \o <<x>>)
    BY DEF CA_TCfundef, At
  <1>2. /\ variables \in Seq(OfKind("vardec")) /\ locals \in Seq(OfKind("fundef")) /\ body \in Seq(Stmt)
        /\ Node.result \in TypeName /\ a \in {"void", "idle"} /\ b = a
    BY <1>1, FundefFirst DEF WellFormed, TypeName
  <1>3. st \in State /\ In(st, a) /\ "void" \in Mode
    BY Modes DEF TypeInv, First
  <1>4. x \in Item /\ Step(x, "void", b)
    <2>1. x \in FunEnds /\ x.before = st
      BY <1>3 DEF FunEnds
    <2> QED
      BY <1>2, <1>3, <2>1 DEF Item, Step, Ended
  <1>5. st' \in State /\ In(st', "void")
    BY <1>1, <1>2, <1>3, NullAssumption DEF State, In, TypeName
  <1> HIDE DEF x, variables, locals, body
  <1>6. variables \in Seq(Item) /\ Runs(variables, "void", "void")
    <2>1. OfKind("vardec") \subseteq Nodes /\ \A n \in OfKind("vardec") : Step(n, "void", "void")
      BY DEF OfKind, Step, Visited
    <2> QED
      BY <1>2, <2>1, VoidVisited
  <1>7. locals \in Seq(Item) /\ Runs(locals, "void", "void")
    <2>1. OfKind("fundef") \subseteq Nodes /\ \A n \in OfKind("fundef") : Step(n, "void", "void")
      BY DEF OfKind, Step, Visited
    <2> QED
      BY <1>2, <2>1, VoidVisited
  <1>8. body \in Seq(Item) /\ Runs(body, "void", "void")
    BY <1>2, StmtsVisited
  <1> DEFINE front == variables \o locals
             all == front \o body
  <1>9. front \in Seq(Item) /\ Runs(front, "void", "void")
    BY <1>3, <1>6, <1>7, RunsBoth
  <1> HIDE DEF front
  <1>10. all \in Seq(Item) /\ Runs(all, "void", "void")
    BY <1>3, <1>8, <1>9, RunsBoth
  <1>11. Then(all \o <<x>>)
    BY <1>1 DEF front
  <1> HIDE DEF all
  <1>12. all \o <<x>> \in Seq(Item) /\ Runs(all \o <<x>>, "void", b)
    BY <1>3, <1>4, <1>10, RunsThen
  <1>13. Serves(b, b)
    BY DEF Serves
  <1> QED
    BY <1>1, <1>3, <1>5, <1>11, <1>12, <1>13, PushedStep

LEMMA FundefEndStep ==
    ASSUME TypeInv, NEW a \in Mode, NEW b \in Mode, First(a, b), FundefEnd
    PROVE  StaticsInv'
  <1>1. /\ Node.k = "fundefend" /\ source' = source /\ Then(<<>>)
        /\ st' = [Node.before EXCEPT !.any = st.any]
    BY DEF FundefEnd, At
  <1>2. Node \in FunEnds /\ a = "void" /\ b \in {"void", "idle"} /\ In(Node.before, b)
    BY <1>1, EndFirst DEF Ended, SetsType, SetsReturned, Branches, Args, Ends
  <1>3. Node.before \in State /\ ~Node.before.any /\ ~st.any /\ st \in State
    BY <1>2 DEF FunEnds, In, First, TypeInv
  <1>4. st' = Node.before
    BY <1>1, <1>3 DEF State
  <1>5. st' \in State /\ In(st', b) /\ Serves(b, b) /\ <<>> \in Seq(Item)
    BY <1>2, <1>3, <1>4 DEF Serves
  <1> QED
    BY <1>1, <1>5, RunsNone, PushedStep

---------------------------------------------------------------------------
LEMMA InitInv ==
    ASSUME CA_TCprogram
    PROVE  StaticsInv
  <1>1. source \in Programs /\ todo = <<source.fun>> /\ st = Idle
    BY DEF CA_TCprogram
  <1>2. source.fun \in OfKind("fundef") /\ source.fun \in Item
    BY <1>1, ProgramsAssumption DEF Resolved, OfKind, Item
  <1>3. Idle \in State /\ In(Idle, "idle") /\ "idle" \in Mode
    BY Modes DEF Idle, State, In
  <1>4. Step(source.fun, "idle", "idle")
    BY <1>2 DEF Step, Visited
  <1>5. Runs(todo, "idle", "idle") /\ todo \in Seq(Item)
    BY <1>1, <1>2, <1>3, <1>4, RunsOne
  <1> QED
    BY <1>1, <1>3, <1>5 DEF StaticsInv, TypeInv, ModeInv

LEMMA NextInv ==
    ASSUME StaticsInv, [Next]_vars
    PROVE  StaticsInv'
  <1>1. CASE UNCHANGED vars
    <2>1. source' = source /\ todo' = todo /\ st' = st
      BY <1>1 DEF vars
    <2> QED
      BY <2>1 DEF StaticsInv, TypeInv, ModeInv, Runs
  <1>2. CASE Next
    <2>1. todo # <<>>
      BY <1>2 DEF Next, At, CA_TClit, CA_TCvar, VarSkipped, CA_TCarrayexpr, ArrayexprSkipped,
         CA_TCcast, CastEnd, CA_TCmonop, MonopEnd, CA_TCbinopVoid, CA_TCbinopArithmetic,
         CA_TCbinopComparison, CA_TCbinopLogic, BinopEnd, RestoreType, CA_TCproccall, ArrayArg,
         ScalarArg, ProccallSkipped, ArrayInit, CA_TCretstatement, CA_TCassign, CA_TCarrayassign,
         CA_TCifstatement, ElseBlock, IfEnd, CA_TCwhileloop, CA_TCdowhileloop, CA_TCforloop,
         SetHasReturn, CA_TCvardec, CA_TCfundef, FundefEnd
    <2>2. TypeInv
      BY DEF StaticsInv
    <2>3. PICK a \in Mode, b \in Mode : First(a, b)
      BY <2>1, <2>2, SomeFirst DEF StaticsInv
    <2>4. CASE CA_TClit \/ CA_TCvar
      BY <2>2, <2>3, <2>4, ValueSteps
    <2>5. CASE VarSkipped \/ ArrayexprSkipped \/ ProccallSkipped
      BY <2>2, <2>3, <2>5, SkipSteps
    <2>6. CASE CA_TCarrayexpr
      BY <2>2, <2>3, <2>6, ArrayexprStep
    <2>7. CASE CA_TCcast
      BY <2>2, <2>3, <2>7, CastStep
    <2>8. CASE CastEnd
      BY <2>2, <2>3, <2>8, CastEndStep
    <2>9. CASE CA_TCmonop
      BY <2>2, <2>3, <2>9, MonopStep
    <2>10. CASE MonopEnd
      BY <2>2, <2>3, <2>10, MonopEndStep
    <2>11. CASE CA_TCbinopVoid
      BY <2>2, <2>3, <2>11, BinopVoidStep
    <2>12. CASE CA_TCbinopArithmetic
      BY <2>2, <2>3, <2>12, BinopArithmeticStep
    <2>13. CASE CA_TCbinopComparison
      BY <2>2, <2>3, <2>13, BinopComparisonStep
    <2>14. CASE CA_TCbinopLogic
      BY <2>2, <2>3, <2>14, BinopLogicStep
    <2>15. CASE BinopEnd
      BY <2>2, <2>3, <2>15, BinopEndStep
    <2>16. CASE RestoreType
      BY <2>2, <2>3, <2>16, RestoreStep
    <2>17. CASE CA_TCproccall
      BY <2>2, <2>3, <2>17, ProccallStep
    <2>18. CASE ArrayArg
      BY <2>2, <2>3, <2>18, ArrayArgStep
    <2>19. CASE ScalarArg
      BY <2>2, <2>3, <2>19, ScalarArgStep
    <2>20. CASE ArrayInit
      BY <2>2, <2>3, <2>20, ArrayInitStep
    <2>21. CASE CA_TCretstatement
      BY <2>2, <2>3, <2>21, RetstatementStep
    <2>22. CASE CA_TCassign
      BY <2>2, <2>3, <2>22, AssignStep
    <2>23. CASE CA_TCarrayassign
      BY <2>2, <2>3, <2>23, ArrayassignStep
    <2>24. CASE CA_TCifstatement
      BY <2>2, <2>3, <2>24, IfstatementStep
    <2>25. CASE ElseBlock
      BY <2>2, <2>3, <2>25, ElseBlockStep
    <2>26. CASE CA_TCwhileloop \/ CA_TCdowhileloop \/ CA_TCforloop
      BY <2>2, <2>3, <2>26, LoopStep
    <2>27. CASE IfEnd \/ SetHasReturn
      BY <2>2, <2>3, <2>27, ReturnedStep
    <2>28. CASE CA_TCvardec
      BY <2>2, <2>3, <2>28, VardecStep
    <2>29. CASE CA_TCfundef
      BY <2>2, <2>3, <2>29, FundefStep
    <2>30. CASE FundefEnd
      BY <2>2, <2>3, <2>30, FundefEndStep
    <2> QED
      BY <1>2, <2>4, <2>5, <2>6, <2>7, <2>8, <2>9, <2>10, <2>11, <2>12, <2>13, <2>14, <2>15, <2>16,
         <2>17, <2>18, <2>19, <2>20, <2>21, <2>22, <2>23, <2>24, <2>25, <2>26, <2>27, <2>28, <2>29,
         <2>30 DEF Next
  <1> QED
    BY <1>1, <1>2

\* In front of what is known nothing is given where any type is expected, and
\* the kinds of nodes are met in the modes that their assertions ask for.
LEMMA InvSound ==
    ASSUME StaticsInv
    PROVE  StaticsSound
  <1>1. PICK a \in Mode : In(st, a) /\ Runs(todo, a, "idle")
    BY DEF StaticsInv, ModeInv
  <1>2. st.any => st.type = Null
    BY <1>1 DEF In
  <1>3. CASE Done
    <2>1. Len(todo) = 0
      BY <1>3 DEF Done
    <2>2. a = "idle"
      BY <1>1, <2>1 DEF Runs
    <2> QED
      BY <1>1, <1>2, <1>3, <2>2 DEF In, StaticsSound
  <1>4. CASE ~Done
    <2>1. todo # <<>> /\ TypeInv
      BY <1>4 DEF Done, StaticsInv
    <2>2. PICK c \in Mode, d \in Mode : First(c, d)
      BY <2>1, SomeFirst DEF StaticsInv
    <2>3. In(st, c)
      BY <2>2 DEF First
    <2>4. Node.k \in Expressions => c \in {"any", "type", "void"}
      <3>1. CASE Node.k \in Operand
        BY <2>2, <3>1, ExprFirst DEF Typed
      <3>2. CASE Node.k = "call"
        BY <2>2, <3>2, CallFirst
      <3> QED
        BY <3>1, <3>2 DEF Expressions, Operand
    <2>5. Node.k \in Statements => c = "void"
      BY <2>2, StmtFirst DEF Statements
    <2>6. Node.k \in Expressions => st.any \/ st.type # Null
      BY <2>3, <2>4, NullAssumption DEF In
    <2>7. Node.k \in Statements => ~st.any /\ st.type = "void"
      BY <2>3, <2>5 DEF In
    <2> QED
      BY <1>2, <1>4, <2>6, <2>7 DEF StaticsSound
  <1> QED
    BY <1>3, <1>4

\* What is left of the traversal, from what is known of type and anytype,
\* always leads to the state in which it began: every handler leaves the two
\* as the handlers that come after it need them.
THEOREM StaticsKept == Spec => []StaticsInv
  <1>1. CA_TCprogram => StaticsInv
    BY InitInv
  <1>2. StaticsInv /\ [Next]_vars => StaticsInv'
    BY NextInv
  <1> QED
    BY <1>1, <1>2, PTL DEF Spec

\* No assertion of type checking fails, for a program with any errors: where
\* any type is expected none is given, an expression is visited with an
\* expected type or any, a statement with type void, and when the traversal
\* has ended nothing of a function is left in the static variables.
THEOREM StaticsAlwaysSound == Spec => []StaticsSound
  <1>1. StaticsInv => StaticsSound
    BY InvSound
  <1> QED
    BY <1>1, StaticsKept, PTL
=============================================================================
