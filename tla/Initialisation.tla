-------------------------- MODULE Initialisation --------------------------
(***************************************************************************)
(* How the initialisers of declarations become statements: InitFunction,   *)
(* HeterogeneousAssignments and HomogeneousAssignments, one after the      *)
(* other, each walking over the declarations of the outermost scope, which *)
(* are initialised by the function __init, or over those of one function.  *)
(* A declaration has                                                       *)
(*   name, kind   scalar, array, or other (functions and imports)          *)
(*   dims         of an array: Num, Var, Expr or the name of a temporary   *)
(*   init         none, value, or list (of an array)                       *)
(*   elems        the number of elements of the list                       *)
(*   indices      how many computed indices the initialiser contains, as   *)
(*                in int x = a[i + 1]                                      *)
(*   exported     the declaration can be used by other modules             *)
(* A statement is known by what it is for: a declaration (of), a stage of  *)
(* its initialisation (what) and a number.                                 *)
(***************************************************************************)
EXTENDS Integers, Sequences, SequencesExt

CONSTANTS
  Programs,   \* the programs: [local, decls]
  Null        \* a pointer to nothing

VARIABLES
  source,     \* the declarations as they are written
  local,      \* they belong to a function
  phase,      \* the traversal
  todo,       \* what it still has to visit
  decls,      \* the declarations with the temporaries put among them
  stmts,      \* the statements of the function
  lastDecl,   \* last_decls or last_vardecs: new declarations go behind it
  lastStmt,   \* init_stmts or last_stmts: new statements go behind it
  lastInit,   \* last_init_decls: where searching goes on
  temps       \* temp_counter

vars == <<source, local, phase, todo, decls, stmts, lastDecl, lastStmt, lastInit, temps>>

---------------------------------------------------------------------------
\* Names, and what stands in their place, are pairs.
Num == <<"num", 0>>
Var == <<"var", 0>>
Expr == <<"expr", 0>>
NoName == <<"", 0>>
IsTemp(d) == d.name[1] = "temp"

Stmt(node, name, of, what, n) == [node |-> node, name |-> name, of |-> of, what |-> what, n |-> n]
Body == Stmt("body", NoName, NoName, "body", 0)

Where(name, ds) == SelectInSeq(ds, LAMBDA d : d.name = name)
Decl(name) == decls[Where(name, decls)]
WhereStmt(s) == SelectInSeq(stmts, LAMBDA t : t = s)

\* Behind a pointer; at the front if it points to nothing (add_stmt, add_vardec).
Behind(seq, at, new) == SubSeq(seq, 1, at) \o new \o SubSeq(seq, at + 1, Len(seq))

AddDecl(new) == decls' = Behind(decls, IF lastDecl = Null THEN 0 ELSE Where(lastDecl, decls), <<new>>)

AddStmts(last, new) ==
  /\ stmts' = Behind(stmts, IF last = Null THEN 0 ELSE WhereStmt(last), new)
  /\ lastStmt' = IF new = <<>> THEN last ELSE Last(new)

(***************************************************************************)
(* search_last_init_stmts: declarations and statements of __init are gone  *)
(* through side by side until the declaration is found; the statement in   *)
(* front of it is the last one that belongs to an earlier declaration.     *)
(***************************************************************************)
Search(arrays, ds, name) ==
  LET first == IF lastStmt = Null THEN 1 ELSE WhereStmt(lastStmt)
      from == IF lastInit = Null THEN 1 ELSE Where(lastInit, ds)
      found(d, s) == [stmt |-> IF s = first THEN Null ELSE stmts[s - 1], decl |-> ds[d].name]
      walk[d \in 1..(Len(ds) + 1), s \in 1..(Len(stmts) + 1)] ==
        IF d > Len(ds) THEN [stmt |-> Null, decl |-> lastInit]
        ELSE IF ds[d].kind = "other" \/ (ds[d].kind = "array" /\ ~arrays) THEN walk[d + 1, s]
        ELSE IF ds[d].name = name \/ s > Len(stmts) THEN found(d, s)
        ELSE IF stmts[s].node \in {"for", "arrayassign"} THEN walk[d, s + 1]
        ELSE IF stmts[s].name = ds[d].name THEN walk[d + 1, s + 1]
        ELSE walk[d + 1, s]
  IN IF stmts = <<>> THEN [stmt |-> Null, decl |-> lastInit] ELSE walk[from, first]

---------------------------------------------------------------------------
Task(d, what, n) == [of |-> d.name, what |-> what, n |-> n]
Flat(tasks(_), ds) == FoldLeft(LAMBDA all, d : all \o tasks(d), <<>>, ds)

\* mutant: only computed dimensions of exported arrays get a variable
NeedsTempUnlessNumber(dim, exported) == dim # Num /\ (dim = Expr \/ exported)

\* A computed dimension gets a variable, of an exported array any.
NeedsTemp(dim, exported) == dim = Expr \/ exported

\* HeterogeneousAssignments comes to the dimensions of an array, then to the
\* indices in its initialiser that get a temporary: all that are not a number
\* or a variable, and those too if the array is exported.  Where the initialiser
\* of a scalar stands depends on whether InitFunction has moved it.
Hoists(d) ==
  LET wanted == SelectSeq([k \in DOMAIN d.dims |-> k], LAMBDA k : NeedsTemp(d.dims[k], d.exported))
  IN [j \in DOMAIN wanted |-> Task(d, "dim", wanted[j])]
     \o (IF d.kind = "array" \/ local THEN [j \in 1..d.indices |-> Task(d, "index", j)] ELSE <<>>)
     \o <<Task(d, "end", 0)>>

Moved(d) == IF d.kind = "scalar" /\ ~local THEN [j \in 1..d.indices |-> Task(d, "index", j)] ELSE <<>>

Visits(d) == <<Task(d, "visit", 0)>>

\* The next traversal; __init is visited last.
StartAA ==
  /\ phase = "IF" /\ todo = <<>>
  /\ phase' = "AA"
  /\ todo' = Flat(Hoists, decls) \o Flat(Moved, decls)
  /\ lastDecl' = Null /\ lastStmt' = Null /\ lastInit' = Null /\ temps' = 0
  /\ UNCHANGED <<source, local, decls, stmts>>

StartHA ==
  /\ phase = "AA" /\ todo = <<>>
  /\ phase' = "HA"
  /\ todo' = Flat(Visits, decls)
  /\ lastDecl' = Null /\ lastStmt' = Null /\ lastInit' = Null
  /\ UNCHANGED <<source, local, decls, stmts, temps>>

Finish ==
  /\ phase = "HA" /\ todo = <<>> /\ phase' = "done"
  /\ UNCHANGED <<source, local, todo, decls, stmts, lastDecl, lastStmt, lastInit, temps>>

At(p, whats) == phase = p /\ todo # <<>> /\ Head(todo).what \in whats /\ todo' = Tail(todo)
Cur == Decl(Head(todo).of)

Assign(d) == Stmt("assign", d.name, d.name, "init", 0)

---------------------------------------------------------------------------
\* Initialisers of global scalars are moved to __init.
IFglobaldef ==
  /\ At("IF", {"visit"})
  /\ IF Cur.kind = "scalar" /\ Cur.init # "none" /\ ~local
     THEN AddStmts(lastStmt, <<Assign(Cur)>>) ELSE UNCHANGED <<stmts, lastStmt>>
  /\ UNCHANGED <<source, local, phase, decls, lastDecl, lastInit, temps>>

\* A dimension or an index becomes a variable @temp_k.
Temp == [name |-> <<"temp", temps>>, kind |-> "scalar", dims |-> <<>>, elems |-> 0, indices |-> 0,
         init |-> "none", exported |-> FALSE, of |-> Head(todo).of, what |-> Head(todo).what,
         n |-> Head(todo).n]

WithTemp(ds) ==
  IF Head(todo).what = "dim" THEN [ds EXCEPT ![Where(Head(todo).of, ds)].dims[Head(todo).n] = Temp.name]
  ELSE ds

\* Of the outermost scope: a global variable that __init assigns to.
AAarrayexprGlobal ==
  /\ ~local /\ At("AA", {"dim", "index"})
  /\ LET at == IF lastDecl = Null THEN 0 ELSE Where(lastDecl, decls)
         ds == Behind(decls, at, <<Temp>>)
     IN /\ decls' = WithTemp(ds)
        /\ AddStmts(Search(FALSE, ds, Temp.name).stmt,
                    <<Stmt("assign", Temp.name, Temp.of, Temp.what, Temp.n)>>)
  /\ lastDecl' = Temp.name /\ lastInit' = Temp.name
  /\ temps' = temps + 1
  /\ UNCHANGED <<source, local, phase>>

\* Of a function: a variable with an initialiser, in front.
AAarrayexprLocal ==
  /\ local /\ At("AA", {"dim", "index"})
  /\ decls' = WithTemp(Behind(decls, IF lastDecl = Null THEN 0 ELSE Where(lastDecl, decls),
                              <<[Temp EXCEPT !.init = "value"]>>))
  /\ lastDecl' = Temp.name
  /\ temps' = temps + 1
  /\ UNCHANGED <<source, local, phase, stmts, lastStmt, lastInit>>

AAdeclarations ==
  /\ At("AA", {"end"})
  /\ lastDecl' = Head(todo).of
  /\ UNCHANGED <<source, local, phase, decls, stmts, lastStmt, lastInit, temps>>

\* Room for an array, then its elements, one by one or in a loop.
Filled(d) ==
  <<Stmt("assign", <<"dims", d.name>>, d.name, "dims", 0), Stmt("assign", d.name, d.name, "alloc", 0)>>
  \o CASE d.init = "list" -> [j \in 1..d.elems |-> Stmt("arrayassign", d.name, d.name, "elem", j)]
       [] d.init = "value" -> <<Stmt("assign", <<"expr", d.name>>, d.name, "expr", 0),
                                Stmt("for", NoName, d.name, "loop", 0)>>
       [] d.init = "none" -> <<>>

\* mutant: an array is put right behind the one before it
SearchedNot(d) == [stmt |-> lastStmt, decl |-> lastInit]

\* The place of an array in __init.
Searched(d) == Search(TRUE, decls, d.name)

HAvardecArray ==
  /\ At("HA", {"visit"}) /\ Cur.kind = "array"
  /\ LET s == IF local THEN [stmt |-> lastStmt, decl |-> lastInit] ELSE Searched(Cur)
     IN AddStmts(s.stmt, Filled(Cur)) /\ lastInit' = s.decl
  /\ UNCHANGED <<source, local, phase, decls, lastDecl, temps>>

HAvardec ==
  /\ At("HA", {"visit"}) /\ Cur.kind # "array"
  /\ IF Cur.kind = "scalar" /\ Cur.init # "none" /\ local
     THEN AddStmts(lastStmt, <<IF ~IsTemp(Cur) THEN Assign(Cur)
                               ELSE Stmt("assign", Cur.name, Cur.of, Cur.what, Cur.n)>>)
     ELSE UNCHANGED <<stmts, lastStmt>>
  /\ UNCHANGED <<source, local, phase, decls, lastDecl, lastInit, temps>>

---------------------------------------------------------------------------
Init ==
  /\ \E p \in Programs : source = p.decls /\ local = p.local
  /\ phase = "IF" /\ todo = Flat(Visits, source)
  /\ decls = source
  /\ stmts = IF local THEN <<Body>> ELSE <<>>
  /\ lastDecl = Null /\ lastStmt = Null /\ lastInit = Null /\ temps = 0

Next ==
  \/ IFglobaldef \/ StartAA \/ AAarrayexprGlobal \/ AAarrayexprLocal \/ AAdeclarations
  \/ StartHA \/ HAvardecArray \/ HAvardec \/ Finish

Spec == Init /\ [][Next]_vars

---------------------------------------------------------------------------
\* What a declaration needs, in order: the variables for its dimensions and
\* indices, then its value.
Needed(d) ==
  LET dims == SelectSeq([k \in DOMAIN d.dims |-> k], LAMBDA k : d.dims[k] = Expr \/ d.exported)
      of(what, n) == [of |-> d.name, what |-> what, n |-> n]
  IN [j \in DOMAIN dims |-> of("dim", dims[j])] \o [j \in 1..d.indices |-> of("index", j)]
     \o CASE d.kind = "scalar" /\ d.init # "none" -> <<of("init", 0)>>
          [] d.kind = "array" -> [j \in DOMAIN Filled(d) |-> of(Filled(d)[j].what, Filled(d)[j].n)]
          [] OTHER -> <<>>

(***************************************************************************)
(* Whatever the three traversals put between each other's statements, in   *)
(* the end everything is initialised once, in the order of the             *)
(* declarations, dimensions and indices before what uses them, and in      *)
(* front of the statements of the function (search_last_init_stmts and the *)
(* pointers last_stmts, init_stmts, last_decls and last_init_decls).       *)
(***************************************************************************)
InitInOrder ==
  phase = "done" =>
    [j \in DOMAIN stmts |-> [of |-> stmts[j].of, what |-> stmts[j].what, n |-> stmts[j].n]]
      = Flat(Needed, source) \o (IF local THEN <<[of |-> NoName, what |-> "body", n |-> 0]>> ELSE <<>>)

(***************************************************************************)
(* "If the global def is exported we need dimension variables for module   *)
(* linkage": each dimension of an exported array is a variable of its own, *)
(* declared in front of the array (CGP_AAarrayexpr).                       *)
(***************************************************************************)
LinkageDims ==
  phase \in {"HA", "done"} =>
    \A i, j \in DOMAIN decls : decls[i].exported /\ decls[j].exported =>
      \A k \in DOMAIN decls[i].dims : \A l \in DOMAIN decls[j].dims :
        /\ Where(decls[i].dims[k], decls) \in 1..(i - 1)
        /\ decls[i].dims[k] = decls[j].dims[l] => i = j /\ k = l
=============================================================================
