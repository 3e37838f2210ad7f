--------------------------- MODULE SourceProgram ---------------------------
(***************************************************************************)
(* A program, as the traversals see it:                                    *)
(*   funs     for every function the function around it (Global for none), *)
(*            its parameters, variables and local functions in order, value*)
(*            (1 if it returns one), dims (for the arrays among its        *)
(*            parameters and variables, expressions for their dimensions;  *)
(*            those of a parameter are names) and body, a sequence of      *)
(*            statements                                                   *)
(*   decls    the functions of the outermost level, in order               *)
(*   globals  the global variables, in order                               *)
(*   externs  the imported functions, in order                             *)
(* Expressions and statements are nodes, records with a kind k:            *)
(*   num v, var x, elem a is (an element), bin op l r, and l r, or l r,    *)
(*   mon op e, cast to from e, call f args, cond c t e, pop e by before,        *)
(*   assign x e, store a is e (to an element), alloc a ds (an array with   *)
(*   its dimensions), return e, if c then else, while c body, dowhile c    *)
(*   body, for x from to by body                                           *)
(***************************************************************************)
EXTENDS Operators, FiniteSets, SequencesExt

CONSTANT Global   \* stands for the scope outside of all functions

\* Where a name is declared.
Table(p, f) ==
  IF f = Global THEN p.globals ELSE p.funs[f].params \o p.funs[f].vars

Functions(p, f) ==
  IF f = Global THEN p.decls \o [j \in DOMAIN p.externs |-> p.externs[j].name]
                ELSE p.funs[f].locals

\* The functions around a function, innermost first.
Around(p) ==
  LET up[d \in Nat, f \in DOMAIN p.funs] ==
        IF d = 0 \/ p.funs[f].parent = Global THEN <<>>
        ELSE <<p.funs[f].parent>> \o up[d - 1, p.funs[f].parent]
  IN [f \in DOMAIN p.funs |-> up[Cardinality(DOMAIN p.funs), f]]

Scopes(p, f) == <<f>> \o Around(p)[f] \o <<Global>>
=============================================================================
