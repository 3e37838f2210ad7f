--------------------------- MODULE SourceMeaning ---------------------------
(***************************************************************************)
(* What a program means: it is run by names, with one activation per call, *)
(* which knows the activation of the function around it.  Operands,        *)
(* arguments and, in an assignment to an element, the value and the indices*)
(* are computed from left to right.  A run r has the activations acts (the *)
(* first one holds the global variables), the arrays heap, each with its   *)
(* dimensions, the calls of imported functions out, the last value v and   *)
(* whether the function has returned.                                      *)
(***************************************************************************)
EXTENDS SourceProgram

RECURSIVE Holder(_, _, _)
Holder(r, a, x) ==
  IF x \in DOMAIN r.acts[a].vars THEN a ELSE Holder(r, r.acts[a].outer, x)

RECURSIVE Activation(_, _, _)
Activation(r, a, f) == IF r.acts[a].fun = f THEN a ELSE Activation(r, r.acts[a].outer, f)

Value(r, a, x) == r.acts[Holder(r, a, x)].vars[x]
Assigned(r, a, x, v) == [r EXCEPT !.acts[Holder(r, a, x)].vars[x] = v]

\* What is computed first, in order, to evaluate or execute a node.
Operands(p, node, f) ==
  CASE node.k = "elem" -> node.is
    [] node.k = "bin" -> <<node.l, node.r>>
    [] node.k \in {"and", "or"} -> <<node.l>>
    [] node.k \in {"mon", "cast", "assign"} -> <<node.e>>
    [] node.k = "call" -> node.args
    [] node.k \in {"cond", "if", "while"} -> <<node.c>>
    [] node.k = "pop" -> IF node.before THEN <<node.by, node.e>> ELSE <<node.e, node.by>>
    [] node.k = "alloc" -> node.ds
    [] node.k = "store" -> <<node.e>> \o node.is
    [] node.k = "for" -> <<node.from, node.to, node.by>>
    [] node.k = "return" -> IF p.funs[f].value = 1 THEN <<node.e>> ELSE <<>>
    [] OTHER -> <<>>

\* The values of the variable of a for loop; the step is not 0.
Values(from, to, by) ==
  LET n == IF by > 0 THEN (to - from + by - 1) \div by ELSE (from - to - by - 1) \div (-by)
  IN [j \in 1..n |-> from + (j - 1) * by]

\* What is executed or evaluated next, once the operands vs are known.
Rest(node, vs) ==
  CASE node.k = "cond" -> <<IF vs[1] = 1 THEN node.t ELSE node.e>>
    [] node.k = "and" -> IF vs[1] = 1 THEN <<node.r>> ELSE <<>>
    [] node.k = "or" -> IF vs[1] = 0 THEN <<node.r>> ELSE <<>>
    [] node.k = "if" -> IF vs[1] = 1 THEN node.then ELSE node.else
    [] node.k = "while" -> IF vs[1] = 1 THEN Append(node.body, node) ELSE <<>>
    [] node.k = "dowhile" ->
         Append(node.body, [k |-> "if", c |-> node.c, then |-> <<node>>, else |-> <<>>])
    [] node.k = "for" ->
         FoldLeft(LAMBDA ss, v : ss \o <<[k |-> "assign", x |-> node.x, e |-> [k |-> "num", v |-> v]]>>
                                    \o node.body, <<>>, Values(vs[1], vs[2], vs[3]))
    [] OTHER -> <<>>

\* Where an element lies; an array may be used as if it had one dimension.
Offset(dims, is) ==
  IF Len(is) = 1 THEN is[1]
  ELSE FoldLeft(LAMBDA at, k : at * dims[k] + is[k], 0, [k \in DOMAIN is |-> k])

\* A node without nodes that are run after its operands, which are vs.
Finished(p, r, a, node, vs) ==
  LET v == vs[1]
      array == Value(r, a, node.a)
      At(is) == Offset(r.heap[array].dims, is) + 1
  IN CASE node.k = "num" -> [r EXCEPT !.v = node.v]
       [] node.k = "var" -> [r EXCEPT !.v = Value(r, a, node.x)]
       [] node.k = "elem" -> [r EXCEPT !.v = r.heap[array].vals[At(vs)]]
       [] node.k = "bin" -> [r EXCEPT !.v = BinaryValue(node.op, v, vs[2])]
       [] node.k \in {"and", "or"} -> [r EXCEPT !.v = v]
       [] node.k = "mon" -> [r EXCEPT !.v = UnaryValue(node.op, v)]
       [] node.k = "cast" -> [r EXCEPT !.v = IF node.to = "bool" THEN Truth(v # 0) ELSE v]
       [] node.k = "pop" -> [r EXCEPT !.v = vs[IF node.before THEN 1 ELSE 2]]
       [] node.k = "call" -> [r EXCEPT !.v = Len(r.out),
                                       !.out = Append(@, [fun |-> node.f, args |-> vs])]
       [] node.k = "assign" -> Assigned(r, a, node.x, v)
       [] node.k = "store" -> [r EXCEPT !.heap[array].vals[At(Tail(vs))] = v]
       [] node.k = "alloc" ->
            [Assigned(r, a, node.a, Len(r.heap) + 1) EXCEPT !.heap = Append(@,
               [dims |-> vs, vals |-> [i \in 1..FoldLeft(LAMBDA n, d : n * d, 1, vs) |-> 0]])]
       [] node.k = "return" -> [r EXCEPT !.returned = TRUE]
       [] OTHER -> r

\* The activation of f that is called with the arguments vs from a.  An array
\* brings its dimensions with it, if they are not passed.
Activated(p, r, a, f, vs) ==
  LET def == p.funs[f]
      Arg(x) == vs[SelectInSeq(def.params, LAMBDA y : y = x)]
      names == UNION {ToSet(def.dims[x]) : x \in DOMAIN def.dims \cap ToSet(def.params)}
      Dim(d) == LET x == CHOOSE y \in DOMAIN def.dims : Contains(def.dims[y], d)
                IN r.heap[Arg(x)].dims[SelectInSeq(def.dims[x], LAMBDA e : e = d)]
  IN [fun |-> f, outer |-> Activation(r, a, def.parent),
      vars |-> [x \in ToSet(Table(p, f)) |-> IF Contains(def.params, x) THEN Arg(x) ELSE 0]
               @@ [x \in {d.x : d \in names} \ ToSet(def.params) |-> Dim([k |-> "var", x |-> x])]]

RECURSIVE Run(_, _, _, _)
Run(p, r, a, nodes) ==
  LET One(n, node) ==
        LET f == n.acts[a].fun
            m == FoldLeft(LAMBDA acc, e : LET q == Run(p, acc.r, a, <<e>>)
                                          IN [r |-> q, vs |-> Append(acc.vs, q.v)],
                          [r |-> n, vs |-> <<>>], Operands(p, node, f))
            called == node.k = "call" /\ node.f \in DOMAIN p.funs
            rest == IF called THEN p.funs[node.f].body ELSE Rest(node, m.vs)
        IN IF rest = <<>> THEN Finished(p, m.r, a, node, m.vs)
           ELSE LET q == Run(p, IF called THEN [m.r EXCEPT !.acts =
                                                  Append(@, Activated(p, m.r, a, node.f, m.vs))]
                                ELSE m.r,
                             IF called THEN Len(m.r.acts) + 1 ELSE a, rest)
                IN IF called THEN [q EXCEPT !.returned = FALSE] ELSE q
  IN FoldLeft(LAMBDA n, node : IF n.returned THEN n ELSE One(n, node), r, nodes)

\* The calls of imported functions, and the result of main.
Meaning(p) ==
  LET start == [acts |-> <<[fun |-> Global, outer |-> 0,
                            vars |-> [x \in ToSet(p.globals) |-> 0]]>>,
                heap |-> <<>>, out |-> <<>>, v |-> 0, returned |-> FALSE]
      end == Run(p, start, 1, <<[k |-> "call", f |-> "main", args |-> <<>>]>>)
  IN Append(end.out, [fun |-> "main", args |-> IF p.funs["main"].value = 1
                                               THEN <<end.v>> ELSE <<>>])
=============================================================================
