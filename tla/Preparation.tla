---------------------------- MODULE Preparation ----------------------------
(***************************************************************************)
(* The traversals that make a checked program ready for code generation,   *)
(* one after the other: HeterogeneousAssignments (for statements; what it  *)
(* does to declarations is in Initialisation), HomogeneousAssignments,     *)
(* ToTernary, ParameterPassing and DimensionReduction.  A program is as in *)
(* SourceProgram.  Numbers stand for floating-point numbers too, and only  *)
(* functions that are not imported take arrays.                            *)
(***************************************************************************)
EXTENDS SourceMeaning

CONSTANT Sources   \* the programs, as a sequence

VARIABLES
  source,    \* the program as it was
  prog,      \* the program as it is
  phase      \* the last traversal

vars == <<source, prog, phase>>

---------------------------------------------------------------------------
Num(v) == [k |-> "num", v |-> v]
Var(x) == [k |-> "var", x |-> x]
Bin(op, l, r) == [k |-> "bin", op |-> op, l |-> l, r |-> r]
Cond(c, t, e) == [k |-> "cond", c |-> c, t |-> t, e |-> e]
Assign(x, e) == [k |-> "assign", x |-> x, e |-> e]

\* The expressions of a node, in the order of the traversals.
Kids(node) ==
  CASE node.k = "elem" -> node.is
    [] node.k \in {"bin", "and", "or"} -> <<node.l, node.r>>
    [] node.k \in {"mon", "cast", "assign", "return"} -> <<node.e>>
    [] node.k = "call" -> node.args
    [] node.k = "cond" -> <<node.c, node.t, node.e>>
    [] node.k = "pop" -> <<node.e, node.by>>
    [] node.k \in {"if", "while", "dowhile"} -> <<node.c>>
    [] node.k = "alloc" -> node.ds
    [] node.k = "store" -> Append(node.is, node.e)
    [] node.k = "for" -> <<node.from, node.to, node.by>>
    [] OTHER -> <<>>

WithKids(node, es) ==
  CASE node.k = "elem" -> [node EXCEPT !.is = es]
    [] node.k \in {"bin", "and", "or"} -> [node EXCEPT !.l = es[1], !.r = es[2]]
    [] node.k \in {"mon", "cast", "assign", "return"} -> [node EXCEPT !.e = es[1]]
    [] node.k = "call" -> [node EXCEPT !.args = es]
    [] node.k = "cond" -> [node EXCEPT !.c = es[1], !.t = es[2], !.e = es[3]]
    [] node.k = "pop" -> [node EXCEPT !.e = es[1], !.by = es[2]]
    [] node.k \in {"if", "while", "dowhile"} -> [node EXCEPT !.c = es[1]]
    [] node.k = "alloc" -> [node EXCEPT !.ds = es]
    [] node.k = "store" -> [node EXCEPT !.is = Front(es), !.e = Last(es)]
    [] node.k = "for" -> [node EXCEPT !.from = es[1], !.to = es[2], !.by = es[3]]
    [] OTHER -> node

\* The blocks of a statement.
Blocks(node) ==
  CASE node.k = "if" -> <<node.then, node.else>>
    [] node.k \in {"while", "dowhile", "for"} -> <<node.body>>
    [] OTHER -> <<>>

WithBlocks(node, bs) ==
  CASE node.k = "if" -> [node EXCEPT !.then = bs[1], !.else = bs[2]]
    [] node.k \in {"while", "dowhile", "for"} -> [node EXCEPT !.body = bs[1]]
    [] OTHER -> node

Indices(node) ==
  CASE node.k = "alloc" -> Len(node.ds)
    [] node.k \in {"elem", "store"} -> Len(node.is)
    [] OTHER -> 0

---------------------------------------------------------------------------
(***************************************************************************)
(* HeterogeneousAssignments.  An index or a dimension that is no number    *)
(* and no variable is put into a variable @temp_n of the function by an    *)
(* assignment in front of the statement; n is counted for each function.   *)
(***************************************************************************)
Temp(n) == "@temp_" \o ToString(n)
Simple(e) == e.k \in {"num", "var"}

\* What is left of a node (es: of a sequence of nodes), the assignments that
\* go in front of the statement, and temp_counter.
Hoisted(h, e) ==
  [h EXCEPT !.es = Append(@, Var(Temp(h.n))), !.pre = Append(@, Assign(Temp(h.n), e)), !.n = @ + 1]

Hoists(node, j, e) == j <= Indices(node) /\ ~Simple(e)

RECURSIVE AAarrayexpr(_, _)
AAarrayexpr(node, n) ==
  LET ks == Kids(node)
      Kid(h, j) ==
        LET q == AAarrayexpr(ks[j], h.n)
            in == [h EXCEPT !.pre = @ \o q.pre, !.n = q.n]
        IN IF Hoists(node, j, ks[j]) THEN Hoisted(in, q.node)
           ELSE [in EXCEPT !.es = Append(@, q.node)]
      all == FoldLeft(Kid, [es |-> <<>>, pre |-> <<>>, n |-> n], [j \in DOMAIN ks |-> j])
  IN [node |-> WithKids(node, all.es), pre |-> all.pre, n |-> all.n]

\* mutant: the bound stays a number whatever the step is
ForPartsAlone(node) ==
  [from |-> node.from.k # "num", to |-> node.to.k # "num", by |-> node.by.k # "num"]

\* The parts of the header of a for loop that are no numbers become variables;
\* the bound has to be one if the step is.
ForParts(node) ==
  [from |-> node.from.k # "num", to |-> node.to.k # "num" \/ node.by.k # "num",
   by |-> node.by.k # "num"]

AAforloop(h) ==
  LET parts == ForParts(h.node)
      Part(g, part) ==
        IF ~parts[part] THEN g
        ELSE [g EXCEPT !.node[part] = Var(Temp(g.n)),
                       !.pre = Append(@, Assign(Temp(g.n), g.node[part])), !.n = @ + 1]
  IN FoldLeft(Part, h, <<"from", "to", "by">>)

\* The expressions come first, except in a do-while loop.
RECURSIVE AAstatements(_, _)
AAstatements(ss, n) ==
  LET Inner(h) ==
        LET Block(g, b) == LET q == AAstatements(b, g.n)
                           IN [bs |-> Append(g.bs, q.ss), n |-> q.n]
            all == FoldLeft(Block, [bs |-> <<>>, n |-> h.n], Blocks(h.node))
        IN [h EXCEPT !.node = WithBlocks(@, all.bs), !.n = all.n]
      Outer(h) ==
        LET q == AAarrayexpr(h.node, h.n)
        IN IF h.node.k = "for" THEN AAforloop(q) ELSE q
      One(g, s) ==
        LET h == [node |-> s, pre |-> <<>>, n |-> g.n]
            q == IF s.k = "dowhile" THEN Outer(Inner(h)) ELSE Inner(Outer(h))
        IN [ss |-> g.ss \o Append(q.pre, q.node), n |-> q.n]
  IN FoldLeft(One, [ss |-> <<>>, n |-> n], ss)

AAfundef(def) ==
  LET q == AAstatements(def.body, 0)
  IN [def EXCEPT !.body = q.ss, !.vars = @ \o [j \in 1..q.n |-> Temp(j - 1)]]

---------------------------------------------------------------------------
\* ToTernary: no operator is left that may not evaluate its second operand,
\* and no conversion from or to a truth value.
CGP_TTbinop(node) ==
  CASE node.k = "and" -> Cond(node.l, node.r, Num(0))
    [] node.k = "or" -> Cond(node.l, Num(1), node.r)
    [] OTHER -> node

CGP_TTcast(node) ==
  CASE node.to = node.from -> node.e
    [] node.to = "bool" /\ node.from = "int" -> Cond(Bin("ne", node.e, Num(0)), Num(1), Num(0))
    [] node.to = "int" /\ node.from = "bool" -> Cond(node.e, Num(1), Num(0))

\* The dimensions of an array with its declaration.
Dims(p, f, a) ==
  LET j == SelectInSeq(Scopes(p, f), LAMBDA s : Contains(Table(p, s), a))
      s == Scopes(p, f)[j]
  IN IF s = Global \/ a \notin DOMAIN p.funs[s].dims THEN <<>> ELSE p.funs[s].dims[a]

\* ParameterPassing: the dimensions of arrays are put in front one by one, so
\* that they stand in reverse order, those of the last array first.
CGP_PPproccall(p, f, node) ==
  [node EXCEPT !.args =
     FoldLeft(LAMBDA new, e : (IF e.k = "var" THEN Reverse(Dims(p, f, e.x)) ELSE <<>>) \o new,
              node.args, node.args)]

\* mutant: the dimensions of a parameter are put in front as they are
PPfunheaderInOrder(def) ==
  LET names(a) == IF a \in DOMAIN def.dims THEN [j \in DOMAIN def.dims[a] |-> def.dims[a][j].x] ELSE <<>>
  IN [def EXCEPT !.params = FoldLeft(LAMBDA new, a : names(a) \o new, @, @)]

CGP_PPfunheader(def) ==
  LET names(a) == IF a \in DOMAIN def.dims THEN [j \in DOMAIN def.dims[a] |-> def.dims[a][j].x] ELSE <<>>
  IN [def EXCEPT !.params = FoldLeft(LAMBDA new, a : Reverse(names(a)) \o new, @, @)]

\* By what an index is multiplied when the next one is added.
Stride(ds, j) == ds[j]

\* DimensionReduction: one index instead of several.
CGP_DRarrayexpr(p, f, node) ==
  LET ds == Dims(p, f, node.a)
      is == node.is
      flat == FoldLeft(LAMBDA e, j : Bin("add", Bin("mul", e, Stride(ds, j)), is[j]), is[1],
                       [j \in 1..(Len(is) - 1) |-> j + 1])
  IN IF Len(is) = 1 THEN node ELSE [node EXCEPT !.is = <<flat>>]

\* HomogeneousAssignments: room for all elements at once.
HAvardec(node) ==
  [node EXCEPT !.ds = <<FoldLeft(LAMBDA e, d : Bin("mul", e, d), Head(node.ds), Tail(node.ds))>>]

\* What a traversal makes of a node of the function f of p.
Rule(t, p, f, node) ==
  CASE t = "HA" /\ node.k = "alloc" -> HAvardec(node)
    [] t = "TT" /\ node.k \in {"and", "or"} -> CGP_TTbinop(node)
    [] t = "TT" /\ node.k = "cast" -> CGP_TTcast(node)
    [] t = "PP" /\ node.k = "call" -> CGP_PPproccall(p, f, node)
    [] t = "DR" /\ node.k \in {"elem", "store"} -> CGP_DRarrayexpr(p, f, node)
    [] OTHER -> node

RECURSIVE Traversed(_, _, _, _)
Traversed(t, p, f, nodes) ==
  [j \in DOMAIN nodes |->
     LET bs == Blocks(nodes[j])
         node == WithBlocks(WithKids(nodes[j], Traversed(t, p, f, Kids(nodes[j]))),
                            [i \in DOMAIN bs |-> Traversed(t, p, f, bs[i])])
     IN Rule(t, p, f, node)]

Bodies(t, p) ==
  [p EXCEPT !.funs = [f \in DOMAIN @ |-> [@[f] EXCEPT !.body = Traversed(t, p, f, @)]]]

---------------------------------------------------------------------------
After(t, next, p) == phase = t /\ phase' = next /\ prog' = p /\ UNCHANGED source

HeterogeneousAssignments ==
  After("checked", "AA", [prog EXCEPT !.funs = [f \in DOMAIN @ |-> AAfundef(@[f])]])

\* The declarations keep the dimensions.
HomogeneousAssignments ==
  LET allocs(def) == {s \in ToSet(def.body) : s.k = "alloc"}
      declared(def) ==
        [def EXCEPT !.dims = @ @@ [a \in {s.a : s \in allocs(def)} |->
                                     (CHOOSE s \in allocs(def) : s.a = a).ds]]
  IN After("AA", "HA", [Bodies("HA", prog) EXCEPT !.funs =
                          [f \in DOMAIN @ |-> [@[f] EXCEPT !.dims = declared(prog.funs[f]).dims]]])

ToTernary == After("HA", "TT", Bodies("TT", prog))

ParameterPassing ==
  After("TT", "PP", [Bodies("PP", prog) EXCEPT !.funs = [f \in DOMAIN @ |-> CGP_PPfunheader(@[f])]])

DimensionReduction == After("PP", "DR", Bodies("DR", prog))

Init == (\E i \in DOMAIN Sources : source = Sources[i]) /\ prog = source /\ phase = "checked"

Next ==
  \/ HeterogeneousAssignments \/ HomogeneousAssignments \/ ToTernary
  \/ ParameterPassing \/ DimensionReduction

Spec == Init /\ [][Next]_vars

---------------------------------------------------------------------------
RECURSIVE Nodes(_)
Nodes(nodes) ==
  UNION {{nodes[j]} \cup Nodes(Kids(nodes[j]))
           \cup UNION {Nodes(b) : b \in ToSet(Blocks(nodes[j]))} : j \in DOMAIN nodes}

(***************************************************************************)
(* A prepared program does what the program did: calls in the same order,  *)
(* with the same values, every element where it was, every dimension in    *)
(* its place at either end of a call (the order in which the traversals of *)
(* CodeGenPreparation move and copy expressions).                          *)
(***************************************************************************)
MeaningKept == phase \in {"AA", "DR"} => Meaning(prog) = Meaning(source)

(***************************************************************************)
(* The assertions of code_gen.c hold for a prepared program: one index per *)
(* element, no && and ||, no conversion of truth values, as many arguments *)
(* as parameters, and the header of a for loop has numbers and variables   *)
(* only, a variable for a bound if the step is one (code_gen.c:1336-1342,  *)
(* 1414, 1716 and the operators of CG_CGbinop and CG_CGcast).              *)
(***************************************************************************)
FitsCodeGen ==
  phase = "DR" => \A f \in DOMAIN prog.funs : \A node \in Nodes(prog.funs[f].body) :
    /\ node.k \notin {"and", "or", "cast"}
    /\ Indices(node) <= 1
    /\ node.k = "call" /\ node.f \in DOMAIN prog.funs =>
         Len(node.args) = Len(prog.funs[node.f].params)
    /\ node.k = "for" =>
         /\ \A e \in ToSet(Kids(node)) : Simple(e)
         /\ node.by.k = "var" => node.to.k = "var"
=============================================================================
