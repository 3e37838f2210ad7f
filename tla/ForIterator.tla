---------------------------- MODULE ForIterator ----------------------------
(***************************************************************************)
(* ExtractForIterator: the variable of a for loop becomes a variable of    *)
(* the function, with a name of its own, before names are resolved.        *)
(*                                                                         *)
(* A program consists of functions and of items, the nodes of its tree:    *)
(*   "var"   a variable that is used                                       *)
(*   "call"  the name of a function that is called                         *)
(*   "for"   a loop: the names in its start value (init), those in its     *)
(*           bound and step (head), and its block                          *)
(* name tells which name stands where.  The name @for2_i is                *)
(* <<"for", 2, "i">>, what the source calls i is <<"id", 0, "i">>.  Other  *)
(* statements do nothing but hold variables and are left out.              *)
(***************************************************************************)
EXTENDS Integers, Sequences, Functions

CONSTANTS
  Programs,   \* the programs
  Ident,      \* identifiers
  Null        \* no name, no function

Source == {"id"} \X {0} \X Ident
ForName == {"for"} \X Nat \X Ident

Header(p, l) == Range(p.head[l]) \cup Range(p.init[l])

\* An item is one of some others, or a part of one of them.
Holds(p, items, v) ==
  \E i \in Range(items) : i = v \/ i \in p.around[v] \/ (p.kind[i] = "for" /\ v \in Header(p, i))

\* The tree: around are the loops whose blocks an item is in, within the
\* functions a function is local to.
WellFormed(p) ==
  LET Fun == DOMAIN p.body
      Id == DOMAIN p.kind
  IN
  /\ p.main \in Fun /\ p.vars \in [Fun -> Seq(Source)]
  /\ p.locals \in [Fun -> Seq(Fun)] /\ p.body \in [Fun -> Seq(Id)]
  /\ p.kind \in [Id -> {"var", "call", "for"}] /\ p.name \in [Id -> Source]
  /\ p.init \in [Id -> Seq(Id)] /\ p.head \in [Id -> Seq(Id)] /\ p.block \in [Id -> Seq(Id)]
  /\ p.fun \in [Id -> Fun] /\ p.around \in [Id -> SUBSET Id] /\ p.within \in [Fun -> SUBSET Fun]
  /\ \A f \in Fun :
       /\ IsInjective(p.body[f]) /\ IsInjective(p.locals[f])
       /\ \A i \in Range(p.body[f]) : p.fun[i] = f /\ p.around[i] = {}
       /\ \A g \in Range(p.locals[f]) : p.within[g] = p.within[f] \cup {f}
       /\ f = p.main \/ p.main \in p.within[f]
       /\ \A g \in p.within[f] :
            /\ g \notin p.within[g] /\ p.within[g] \subseteq p.within[f]
            /\ \A h \in p.within[f] : g = h \/ g \in p.within[h] \/ h \in p.within[g]
            /\ \E h \in Range(p.locals[g]) : h = f \/ h \in p.within[f]
  /\ \A i \in Id :
       /\ Holds(p, p.body[p.fun[i]], i)
       /\ \A l \in p.around[i] :
            /\ p.kind[l] = "for" /\ p.fun[l] = p.fun[i]
            /\ l \notin p.around[l] /\ p.around[l] \subseteq p.around[i]
            /\ \A m \in p.around[i] : l = m \/ l \in p.around[m] \/ m \in p.around[l]
            /\ Holds(p, p.block[l], i)
       /\ p.kind[i] = "for" =>
            /\ IsInjective(p.block[i])
            /\ \A j \in Range(p.block[i]) : p.fun[j] = p.fun[i] /\ p.around[j] = p.around[i] \cup {i}
            /\ \A j \in Header(p, i) :
                 p.fun[j] = p.fun[i] /\ p.around[j] = p.around[i] /\ p.kind[j] # "for"

ASSUME NullAssumption == Null \notin Source
ASSUME ProgramsAssumption == \A p \in Programs : WellFormed(p) /\ Null \notin DOMAIN p.body

VARIABLES
  source,     \* the program
  todo,       \* the rest of the traversal
  name,       \* what stands where
  vardecs,    \* the variables of each function
  fun,        \* the function whose body is visited (funbody)
  oldName, newName,   \* old_for_name, new_for_name
  counter     \* for_counter

vars == <<source, todo, name, vardecs, fun, oldName, newName, counter>>

Fundef(f) == [k |-> "fundef", fun |-> f]
Back(f, n) == [k |-> "back", fun |-> f, counter |-> n]
Visit(i) == [k |-> "visit", id |-> i]
Enter(l) == [k |-> "enter", id |-> l]
Again(l, old, new) == [k |-> "again", id |-> l, old |-> old, new |-> new]
Clear(l) == [k |-> "clear", id |-> l]

Each(Task(_), seq) == [j \in 1..Len(seq) |-> Task(seq[j])]

Item == Head(todo)
At(k) == todo # <<>> /\ Item.k = k
AtItem(kinds) == At("visit") /\ source.kind[Item.id] \in kinds
Then(tasks) == todo' = tasks \o Tail(todo)
Names(old, new) == oldName' = old /\ newName' = new

---------------------------------------------------------------------------
\* The local functions are visited before the statements; each function
\* counts its loops from 0.
CA_EFIfundef ==
  /\ At("fundef")
  /\ fun' = Item.fun /\ counter' = 0
  /\ Then(Each(Fundef, source.locals[Item.fun]) \o Each(Visit, source.body[Item.fun])
          \o <<Back(fun, counter)>>)
  /\ UNCHANGED <<source, name, vardecs, oldName, newName>>

EndFundef ==
  /\ At("back")
  /\ fun' = Item.fun /\ counter' = Item.counter
  /\ Then(<<>>)
  /\ UNCHANGED <<source, name, vardecs, oldName, newName>>

\* The parts of the header belong to the loops around.
CA_EFIforloop ==
  /\ AtItem({"for"})
  /\ Then(Each(Visit, source.head[Item.id]) \o Each(Visit, source.init[Item.id]) \o <<Enter(Item.id)>>)
  /\ UNCHANGED <<source, name, vardecs, fun, oldName, newName, counter>>

Renamed(l) == name[l][1] = "for"

ForloopAgain ==
  /\ At("enter") /\ Renamed(Item.id)
  /\ Then(Each(Visit, source.block[Item.id]))
  /\ UNCHANGED <<source, name, vardecs, fun, oldName, newName, counter>>

\* mutant: the block is visited once
RevisitsNever(l, old, new) == <<Clear(l)>>

\* Loops in the block leave no names behind them, so it is visited twice.
Revisits(l, old, new) == <<Again(l, old, new)>>

\* mutant: only loops over variables of different names are told apart
NewNameByBase(old) == <<"for", 0, old[3]>>

NewName(old) == <<"for", counter, old[3]>>

ForloopFirst ==
  /\ At("enter") /\ ~Renamed(Item.id)
  /\ LET old == name[Item.id]
         new == NewName(old)
     IN /\ name' = [name EXCEPT ![Item.id] = new]
        /\ vardecs' = [vardecs EXCEPT ![fun] = Append(@, new)]
        /\ Names(old, new)
        /\ Then(Each(Visit, source.block[Item.id]) \o Revisits(Item.id, old, new))
  /\ counter' = counter + 1
  /\ UNCHANGED <<source, fun>>

\* The names are cleared and set again.
ForloopSecond ==
  /\ At("again")
  /\ Names(Item.old, Item.new)
  /\ Then(Each(Visit, source.block[Item.id]) \o <<Clear(Item.id)>>)
  /\ UNCHANGED <<source, name, vardecs, fun, counter>>

ForloopEnd ==
  /\ At("clear")
  /\ Names(Null, Null) /\ Then(<<>>)
  /\ UNCHANGED <<source, name, vardecs, fun, counter>>

\* The name of a called function is a Var, too.
CA_EFIvar ==
  /\ AtItem({"var", "call"})
  /\ name' = IF oldName # Null /\ name[Item.id] = oldName
             THEN [name EXCEPT ![Item.id] = newName] ELSE name
  /\ Then(<<>>)
  /\ UNCHANGED <<source, vardecs, fun, oldName, newName, counter>>
---------------------------------------------------------------------------
Init ==
  /\ source \in Programs
  /\ todo = <<Fundef(source.main)>>
  /\ name = source.name
  /\ vardecs = source.vars
  /\ fun = Null /\ counter = 0 /\ oldName = Null /\ newName = Null

Next ==
  \/ CA_EFIfundef \/ EndFundef \/ CA_EFIforloop \/ ForloopAgain \/ ForloopFirst
  \/ ForloopSecond \/ ForloopEnd \/ CA_EFIvar

Spec == Init /\ [][Next]_vars

---------------------------------------------------------------------------
Fun == DOMAIN source.body
Id == DOMAIN source.kind
Loop == {i \in Id : source.kind[i] = "for"}
Loops(f) == {l \in Loop : source.fun[l] = f}

\* The innermost loop over the name of an item around it, if there is one.
Iterated(i) ==
  LET around == {l \in source.around[i] : source.name[l] = source.name[i]}
  IN {l \in around : \A m \in around : m = l \/ m \in source.around[l]}

(***************************************************************************)
(* "Replace all variables inside the block, but ensure the shadowing": a   *)
(* variable becomes that of the innermost loop over its name whose block   *)
(* it is in, and stays what it is where there is none, in the headers of   *)
(* loops as well (the two visits of a block and the names CA_EFIforloop    *)
(* leaves behind).                                                         *)
(***************************************************************************)
ShadowingKept ==
  todo = <<>> => \A i \in Id : source.kind[i] = "var" =>
    IF Iterated(i) = {} THEN name[i] = source.name[i] ELSE \A l \in Iterated(i) : name[i] = name[l]

(***************************************************************************)
(* No two loops of a function share their variable, whatever they are      *)
(* nested in, and the function declares the variable of each loop once,    *)
(* behind its own variables; in the end no loop is left out (for_counter,  *)
(* last_vardecs and what tells that a loop has been renamed).              *)
(***************************************************************************)
LoopVarsOwn ==
  \A f \in Fun :
    LET loops == {l \in Loops(f) : Renamed(l)}
        own == 1..Len(source.vars[f])
        new == (1..Len(vardecs[f])) \ own
    IN /\ own \subseteq 1..Len(vardecs[f]) /\ \A j \in own : vardecs[f][j] = source.vars[f][j]
       /\ {vardecs[f][j] : j \in new} = {name[l] : l \in loops}
       /\ \A j, k \in new : vardecs[f][j] = vardecs[f][k] => j = k
       /\ \A l, m \in loops : name[l] = name[m] => l = m
       /\ todo = <<>> => loops = Loops(f)

(***************************************************************************)
(* "Replace all variables inside the block": the functions that are called *)
(* there keep their names (extract_for_iterator.c:96).                     *)
(***************************************************************************)
CallsKept ==
  \A i \in Id : source.kind[i] = "call" => name[i] = source.name[i]
=============================================================================
