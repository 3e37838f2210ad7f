--------------------------- MODULE MCForIterator ---------------------------
(***************************************************************************)
(* Instances of loop extraction: the function f, with the variable i, has  *)
(* loops over i and j up to three deep, with uses of both names in front   *)
(* of, behind and in the headers of the inner loops; its local function g  *)
(* has loops of its own.                                                   *)
(***************************************************************************)
EXTENDS ForIterator, TLC, SequencesExt

X == {"i", "j"}
V(x) == [k |-> "var", x |-> x]
For(x, init, head, body) == [k |-> "for", x |-> x, init |-> init, head |-> head, body |-> body]

Flat == {For(x, <<V(a)>>, <<V(b)>>, <<V("i"), V("j")>>) : x \in X, a \in X, b \in X}
Nested == {For(x, <<>>, <<V("i")>>, <<V("j"), l, V("i")>>) : x \in X, l \in Flat}
Deep == {For(x, <<>>, <<V("j")>>, <<l, V("j"), V("i"), For(y, <<>>, <<V(x)>>, <<V("i"), V("j")>>)>>)
           : x \in X, y \in X, l \in Nested}

Places(seq, at) == [n \in DOMAIN seq |-> Append(at, n)]

\* Every item gets its place in the text; what there is to know about it.
RECURSIVE Placed(_, _, _, _)
Placed(items, at, f, around) ==
  FoldLeft(LAMBDA all, n :
             LET here == Append(at, n)
                 item == items[n]
                 part(seq, k, in) == Placed(seq, Append(here, k), f, in)
                 node(init, head, block) ==
                   here :> [kind |-> item.k, name |-> <<"id", 0, item.x>>, fun |-> f, around |-> around,
                            init |-> Places(init, Append(here, 1)), head |-> Places(head, Append(here, 2)),
                            block |-> Places(block, Append(here, 3))]
             IN all @@ IF item.k # "for" THEN node(<<>>, <<>>, <<>>)
                       ELSE node(item.init, item.head, item.body)
                            @@ part(item.init, 1, around) @@ part(item.head, 2, around)
                            @@ part(item.body, 3, around \cup {here}),
           <<>>, [n \in DOMAIN items |-> n])

Prog(f, g) ==
  LET items == Placed(f, <<1>>, "f", {}) @@ Placed(g, <<2>>, "g", {})
      of(field) == [i \in DOMAIN items |-> items[i][field]]
  IN [main |-> "f",
      vars |-> ("f" :> <<<<"id", 0, "i">>>>) @@ ("g" :> <<>>),
      locals |-> ("f" :> <<"g">>) @@ ("g" :> <<>>),
      within |-> ("f" :> {}) @@ ("g" :> {"f"}),
      body |-> ("f" :> Places(f, <<1>>)) @@ ("g" :> Places(g, <<2>>)),
      kind |-> of("kind"), name |-> of("name"), fun |-> of("fun"), around |-> of("around"),
      init |-> of("init"), head |-> of("head"), block |-> of("block")]

MCPrograms ==
  {Prog(<<V("i"), l, V("i"), For("i", <<>>, <<V("i")>>, <<V("i")>>), V("j")>>,
        <<For("j", <<>>, <<>>, <<V("i"), V("j")>>)>>) : l \in Deep}

\* A call of a function with the name of the variable of a loop around it.
Calling ==
  {Prog(<<For(x, <<>>, <<V("i")>>, <<V("i"), [k |-> "call", x |-> y], V("j")>>)>>, <<l>>)
     : x \in X, y \in X, l \in Nested}
=============================================================================
