---------------------------- MODULE ScopeProgram ----------------------------
(***************************************************************************)
(* The part of a CiviC program that name resolution reads: a tree of       *)
(* scopes (the global one and one per function definition), and for every  *)
(* scope the list of its items in source order.  Expressions are reduced   *)
(* to the names they mention.                                              *)
(*                                                                         *)
(* An item is                                                              *)
(*   "var"     a parameter, an array dimension, a VarDec, GlobalDef or     *)
(*             GlobalDec; "uses" are the names in its initialiser and dims *)
(*   "stmt"    a statement, "uses" are the names in it                     *)
(*   "fundef"  a function definition, "scope" is the scope it opens        *)
(*   "fundec"  an extern function, "params" are its parameters             *)
(***************************************************************************)
EXTENDS Naturals, Sequences

CONSTANTS
    Scope,      \* the symbol tables of the program
    Root,       \* the table of the Program node
    Name,       \* identifiers, and the iterators named by ExtractForIterator
    ForName,    \* the latter: names that begin with "@for"
    Programs    \* the programs to resolve

Use == [ns : {"var", "fun"}, name : Name]

Item == [kind   : {"var", "stmt", "fundef", "fundec"},
         name   : Name,
         scope  : Scope,
         uses   : Seq(Use),
         params : Seq(Name)]

Program == [parent : [Scope -> Scope],          \* the table under "@parent"
            outer  : [Scope -> SUBSET Scope],   \* a scope and all around it
            depth  : [Scope -> Nat],
            items  : [Scope -> Seq(Item)]]

Is(p, s, i, kind) == p.items[s][i].kind = kind

Items(p, s) == DOMAIN p.items[s]

\* The tree of scopes, each but the global one that of a function definition;
\* the order the grammar gives the parts of a function body; and what
\* ExtractForIterator promises of the iterators it names: one declaration
\* before the first use, in the function of the loop.
WellFormed(p) ==
    /\ p \in Program
    /\ p.outer[Root] = {Root} /\ p.depth[Root] = 0
    /\ \A s \in Scope \ {Root} :
          /\ p.parent[s] # s
          /\ p.outer[s] = p.outer[p.parent[s]] \cup {s}
          /\ p.depth[s] = p.depth[p.parent[s]] + 1
          /\ \E i \in Items(p, p.parent[s]) :
                /\ Is(p, p.parent[s], i, "fundef")
                /\ p.items[p.parent[s]][i].scope = s
    /\ \A s \in Scope : \A i \in Items(p, s) :
          /\ Is(p, s, i, "fundef") => /\ p.items[s][i].scope # Root
                                      /\ p.parent[p.items[s][i].scope] = s
          /\ Is(p, s, i, "fundec") => s = Root
          /\ s = Root => ~Is(p, s, i, "stmt")
          /\ ~Is(p, s, i, "var") /\ ~Is(p, s, i, "stmt") =>
                p.items[s][i].uses = <<>>
          /\ ~Is(p, s, i, "fundec") => p.items[s][i].params = <<>>
          /\ s # Root => \A j \in Items(p, s) : j < i =>
                /\ Is(p, s, i, "var") => Is(p, s, j, "var")
                /\ Is(p, s, i, "fundef") => ~Is(p, s, j, "stmt")
          /\ \A j \in Items(p, s) :
                i # j /\ Is(p, s, i, "fundef") /\ Is(p, s, j, "fundef") =>
                   p.items[s][i].scope # p.items[s][j].scope
          /\ \A k \in DOMAIN p.items[s][i].uses :
                p.items[s][i].uses[k].name \in ForName =>
                   /\ p.items[s][i].uses[k].ns = "var"
                   /\ \E j \in Items(p, s) :
                         /\ j < i /\ Is(p, s, j, "var")
                         /\ p.items[s][j].name = p.items[s][i].uses[k].name

ASSUME ScopeAssumption == Root \in Scope /\ ForName \subseteq Name
ASSUME ProgramsAssumption == \A p \in Programs : WellFormed(p)

-----------------------------------------------------------------------------
(* Declarations are named <<scope, item>>, uses <<scope, item, position>>. *)

DeclIds(p) == UNION {{<<s, i>> : i \in {j \in Items(p, s) : ~Is(p, s, j, "stmt")}}
                        : s \in Scope}
UseIds(p) == UNION {UNION {{<<s, i, k>> : k \in DOMAIN p.items[s][i].uses}
                              : i \in Items(p, s)} : s \in Scope}

UseOf(p, u) == p.items[u[1]][u[2]].uses[u[3]]

Nowhere == <<>>     \* the answer to a use of a name nobody declared

\* The declaration a use means, by the rules of the language: of the
\* declarations of the name that it can see, the first of the innermost scope.
\* A variable is seen from its declaration on (its own initialiser excluded)
\* and in all functions within its scope; a function is seen everywhere in
\* the scope that defines it.
Sees(p, u, t, j) ==
    LET use == UseOf(p, u) IN
    /\ p.items[t][j].name = use.name
    /\ IF use.ns = "fun"
       THEN Is(p, t, j, "fundef") \/ Is(p, t, j, "fundec")
       ELSE Is(p, t, j, "var") /\ (t = u[1] => j < u[2])

Meaning(p, u) ==
    LET seen(t) == {j \in Items(p, t) : Sees(p, u, t, j)}
        holders == {t \in p.outer[u[1]] : seen(t) # {}}
    IN  IF holders = {} THEN Nowhere
        ELSE LET t == CHOOSE t \in holders :
                         \A r \in holders : p.depth[r] <= p.depth[t]
             IN <<t, CHOOSE j \in seen(t) : \A i \in seen(t) : j <= i>>
=============================================================================
