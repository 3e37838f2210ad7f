------------------------- MODULE ForIteratorProofs -------------------------
(***************************************************************************)
(* ForIterator: for every program, whatever its functions and loops are    *)
(* nested in, each loop gets a variable of its own and each use the one of *)
(* the loop it meant.                                                      *)
(***************************************************************************)
EXTENDS ForIterator, TLAPS

Name == Source \cup ForName

Task ==
  [k : {"fundef"}, fun : Fun] \cup [k : {"back"}, fun : Fun \cup {Null}, counter : Nat]
  \cup [k : {"visit"}, id : Id] \cup [k : {"enter", "clear"}, id : Loop]
  \cup [k : {"again"}, id : Loop, old : Source, new : ForName]

TypeInv ==
  /\ source \in Programs /\ todo \in Seq(Task)
  /\ name \in [Id -> Name] /\ vardecs \in [Fun -> Seq(Name)]
  /\ fun \in Fun \cup {Null} /\ counter \in Nat
  /\ oldName \in Source \cup {Null} /\ (oldName # Null => newName \in ForName)

\* The visits a task leads to, but for the second one of a block that is
\* visited twice
Visits(t) == t.k \in {"visit", "enter"}
Covers(t, i) ==
  \/ t.k = "fundef" /\ (t.fun = source.fun[i] \/ t.fun \in source.within[source.fun[i]])
  \/ Visits(t) /\ (t.id = i \/ t.id \in source.around[i])
  \/ t.k = "visit" /\ source.kind[t.id] = "for" /\ i \in Header(source, t.id)

\* A loop whose block is being visited for the first or the second time
Works(t) == t.k \in {"again", "clear"}
Busy(l) == \E q \in DOMAIN todo : Works(todo[q]) /\ todo[q].id = l
Done(l) == Renamed(l) /\ ~Busy(l)

\* The functions on the stack are those around the current one.
FunsNested ==
  /\ fun = Null => Len(todo) <= 1
  /\ \A q \in DOMAIN todo : todo[q].k = "back" =>
       /\ todo[q].fun = Null => q = Len(todo)
       /\ todo[q].fun # Null => todo[q].fun \in source.within[fun]
       /\ \A r \in (q + 1)..Len(todo) : todo[r].k = "back" /\ todo[r].fun # Null =>
            todo[r].fun \in source.within[todo[q].fun]

\* Each part of the stack belongs to one function.
OfFun(t, f) ==
  /\ t.k = "fundef" /\ f # Null => source.within[t.fun] = source.within[f] \cup {f}
  /\ Visits(t) \/ Works(t) => source.fun[t.id] = f

InFun ==
  /\ \A q \in DOMAIN todo : (\A s \in 1..(q - 1) : todo[s].k # "back") => OfFun(todo[q], fun)
  /\ \A q, r \in DOMAIN todo :
       q < r /\ todo[q].k = "back" /\ (\A s \in (q + 1)..(r - 1) : todo[s].k # "back") =>
         OfFun(todo[r], todo[q].fun)

\* No loop is left out, and none is visited before it is renamed but once.
AllDue == \A l \in Loop : Renamed(l) \/ \E q \in DOMAIN todo : Covers(todo[q], l)

DueOnce ==
  \A l \in Loop : ~Renamed(l) =>
    \A q, r \in DOMAIN todo : Covers(todo[q], l) /\ Covers(todo[r], l) => q = r

FunsFirst ==
  \A l \in Loop : Renamed(l) =>
    \A q \in DOMAIN todo : todo[q].k = "fundef" => ~Covers(todo[q], l)

\* The loops of a function have taken the numbers before its counter.
Counters ==
  \A l \in Loop : Renamed(l) =>
    /\ source.fun[l] = fun => name[l][2] < counter
    /\ \A q \in DOMAIN todo : todo[q].k = "back" /\ todo[q].fun = source.fun[l] =>
         name[l][2] < todo[q].counter

\* Loops are renamed before those in them, and done after them.
Outward ==
  /\ \A l \in Loop : Renamed(l) => \A m \in source.around[l] : Renamed(m)
  /\ \A q \in DOMAIN todo :
       /\ Visits(todo[q]) => \A m \in source.around[todo[q].id] : Renamed(m)
       /\ Works(todo[q]) => Renamed(todo[q].id)

DoneInside == \A l, m \in Loop : Done(l) /\ l \in source.around[m] => Done(m)

\* What is visited before the end of a visit of a block is in the block.
LoopsNested ==
  \A q \in DOMAIN todo : Works(todo[q]) => \A r \in 1..(q - 1) :
    /\ Visits(todo[r]) \/ Works(todo[r])
    /\ todo[q].id \in source.around[todo[r].id]

\* A renamed loop is only visited again when it is done, and so are the loops
\* between a visit and the loop that is at work.
VisitsDone ==
  \A q \in DOMAIN todo :
    Visits(todo[q]) /\ todo[q].id \in Loop /\ Renamed(todo[q].id) => Done(todo[q].id)

Between ==
  \A q \in DOMAIN todo : Works(todo[q]) => \A r \in 1..(q - 1) :
    Visits(todo[r]) /\ (\A s \in (r + 1)..(q - 1) : ~Works(todo[s])) =>
      \A m \in source.around[todo[r].id] : todo[q].id \in source.around[m] => Done(m)

\* The first visit of a block renames the loops in it, the second one what
\* they have left of the uses of the loop variable.
FirstVisit ==
  \A q \in DOMAIN todo : todo[q].k = "again" =>
    /\ todo[q].old = source.name[todo[q].id] /\ todo[q].new = name[todo[q].id]
    /\ \A l \in Loop : todo[q].id \in source.around[l] /\ ~Renamed(l) =>
         \E r \in 1..(q - 1) : Covers(todo[r], l)

Settled(i) == name[i] # source.name[i]
Same(i, l) == i \in Id \ Loop /\ l \in source.around[i] /\ source.name[i] = source.name[l]

SecondVisit ==
  \A q \in DOMAIN todo : todo[q].k = "clear" =>
    /\ oldName = source.name[todo[q].id]
    /\ \A l \in Loop : todo[q].id \in source.around[l] => Done(l)
    /\ \A i \in Id : Same(i, todo[q].id) => Settled(i) \/ \E r \in 1..(q - 1) : Covers(todo[r], i)

DoneSettled == \A l \in Loop : Done(l) => \A i \in Id : Same(i, l) => Settled(i)

\* The names that are replaced are those of the innermost loop at work.
CurrentNames ==
  oldName # Null => \E q \in DOMAIN todo :
    /\ Works(todo[q]) /\ \A r \in 1..(q - 1) : Visits(todo[r])
    /\ oldName = source.name[todo[q].id] /\ newName = name[todo[q].id]

\* Names are replaced by those of the loops they mean.
LoopNames == \A l \in Loop : Renamed(l) \/ name[l] = source.name[l]

UseNames ==
  \A i \in Id \ Loop :
    name[i] = source.name[i] \/ \E l \in Iterated(i) : Renamed(l) /\ name[i] = name[l]

FunInv == FunsNested /\ InFun /\ AllDue /\ DueOnce /\ FunsFirst
OwnInv == TypeInv /\ FunInv /\ LoopNames /\ Counters /\ LoopVarsOwn
WorkInv == Outward /\ DoneInside /\ LoopsNested /\ VisitsDone /\ Between
NameInv == FirstVisit /\ SecondVisit /\ DoneSettled /\ CurrentNames /\ UseNames
IteratorInv == OwnInv /\ WorkInv /\ NameInv

---------------------------------------------------------------------------
(* The tree                                                                *)

\* A program as it is assumed to be
LEMMA Types ==
    ASSUME source \in Programs
    PROVE  /\ source.main \in Fun /\ source.vars \in [Fun -> Seq(Source)]
           /\ source.locals \in [Fun -> Seq(Fun)] /\ source.body \in [Fun -> Seq(Id)]
           /\ source.kind \in [Id -> {"var", "call", "for"}] /\ source.name \in [Id -> Source]
           /\ source.init \in [Id -> Seq(Id)] /\ source.head \in [Id -> Seq(Id)]
           /\ source.block \in [Id -> Seq(Id)]
           /\ source.fun \in [Id -> Fun] /\ source.around \in [Id -> SUBSET Id]
           /\ source.within \in [Fun -> SUBSET Fun]
           /\ Null \notin Fun /\ Null \notin Source
  BY ProgramsAssumption, NullAssumption DEF WellFormed, Fun, Id

LEMMA FunctionTree ==
    ASSUME source \in Programs, NEW f \in Fun
    PROVE  /\ IsInjective(source.body[f]) /\ IsInjective(source.locals[f])
           /\ \A i \in Range(source.body[f]) : source.fun[i] = f /\ source.around[i] = {}
           /\ \A g \in Range(source.locals[f]) : source.within[g] = source.within[f] \cup {f}
           /\ f = source.main \/ source.main \in source.within[f]
           /\ \A g \in source.within[f] :
                /\ g \notin source.within[g] /\ source.within[g] \subseteq source.within[f]
                /\ \A h \in source.within[f] :
                      g = h \/ g \in source.within[h] \/ h \in source.within[g]
                /\ \E h \in Range(source.locals[g]) : h = f \/ h \in source.within[f]
  BY ProgramsAssumption DEF WellFormed, Fun, Id

LEMMA ItemTree ==
    ASSUME source \in Programs, NEW i \in Id
    PROVE  /\ Holds(source, source.body[source.fun[i]], i)
           /\ \A l \in source.around[i] :
                /\ l \in Loop /\ source.fun[l] = source.fun[i]
                /\ l \notin source.around[l] /\ source.around[l] \subseteq source.around[i]
                /\ \A m \in source.around[i] :
                      l = m \/ l \in source.around[m] \/ m \in source.around[l]
                /\ Holds(source, source.block[l], i)
  <1>1. source.around[i] \subseteq Id
    BY Types
  <1> QED
    BY <1>1, ProgramsAssumption DEF WellFormed, Fun, Id, Loop

LEMMA Parts ==
    ASSUME source \in Programs, NEW l \in Loop
    PROVE  /\ IsInjective(source.block[l])
           /\ \A j \in Range(source.block[l]) :
                source.fun[j] = source.fun[l] /\ source.around[j] = source.around[l] \cup {l}
           /\ \A j \in Header(source, l) :
                /\ source.fun[j] = source.fun[l] /\ source.around[j] = source.around[l]
                /\ j \notin Loop
  BY ProgramsAssumption DEF WellFormed, Fun, Id, Loop

\* An item is not in its own block, nor in one of a loop that is in it.
LEMMA Apart ==
    ASSUME source \in Programs, NEW i \in Id, NEW j \in Id, i \in source.around[j]
    PROVE  i \in Loop /\ j \notin source.around[i] /\ i # j /\ source.around[i] \subseteq source.around[j]
  BY ItemTree

LEMMA FunApart ==
    ASSUME source \in Programs, NEW f \in Fun
    PROVE  /\ f \notin source.within[f]
           /\ \A g \in source.within[f] :
                g \in Fun /\ f \notin source.within[g] /\ source.within[g] \subseteq source.within[f]
  BY FunctionTree, Types

---------------------------------------------------------------------------
(* The tasks                                                               *)

LEMMA Kinds ==
    ASSUME NEW t \in Task
    PROVE  /\ t.k \in {"fundef", "back", "visit", "enter", "again", "clear"}
           /\ t.k = "fundef" => t.fun \in Fun
           /\ t.k = "back" => t.fun \in Fun \cup {Null} /\ t.counter \in Nat
           /\ t.k = "visit" => t.id \in Id
           /\ t.k \in {"enter", "again", "clear"} => t.id \in Loop
           /\ t.k = "again" => t.old \in Source /\ t.new \in ForName
  BY DEF Task

LEMMA Tasks ==
    /\ \A f \in Fun : Fundef(f) \in Task
    /\ \A f \in Fun \cup {Null}, n \in Nat : Back(f, n) \in Task
    /\ \A i \in Id : Visit(i) \in Task
    /\ \A l \in Loop : Enter(l) \in Task /\ Clear(l) \in Task
    /\ \A l \in Loop, old \in Source, new \in ForName : Again(l, old, new) \in Task
  BY DEF Task, Fundef, Back, Visit, Enter, Clear, Again

LEMMA Joined ==
    ASSUME NEW S, NEW s \in Seq(S), NEW t \in Seq(S)
    PROVE  /\ s \o t \in Seq(S) /\ Len(s \o t) = Len(s) + Len(t)
           /\ Len(s) \in Nat /\ Len(t) \in Nat
           /\ \A p \in 1..Len(s) : (s \o t)[p] = s[p]
           /\ \A p \in (Len(s) + 1)..(Len(s) + Len(t)) :
                 p - Len(s) \in 1..Len(t) /\ (s \o t)[p] = t[p - Len(s)]
  OBVIOUS

LEMMA Ended ==
    ASSUME NEW S, NEW s \in Seq(S), NEW e \in S
    PROVE  /\ s \o <<e>> \in Seq(S) /\ Len(s \o <<e>>) = Len(s) + 1 /\ Len(s) \in Nat
           /\ \A p \in 1..Len(s) : (s \o <<e>>)[p] = s[p]
           /\ (s \o <<e>>)[Len(s) + 1] = e
  OBVIOUS

\* What a step does to the tasks: new ones take the place of the first.
Shift(new) ==
  /\ Len(new) \in Nat /\ Len(todo) \in Nat \ {0}
  /\ todo' \in Seq(Task) /\ Len(todo') = Len(new) + Len(todo) - 1
  /\ \A p \in 1..Len(new) : todo'[p] = new[p]
  /\ \A p \in (Len(new) + 1)..Len(todo') :
        p - Len(new) + 1 \in 2..Len(todo) /\ todo'[p] = todo[p - Len(new) + 1]
  /\ \A p \in 2..Len(todo) :
        p + Len(new) - 1 \in (Len(new) + 1)..Len(todo') /\ todo'[p + Len(new) - 1] = todo[p]

LEMMA Shifted ==
    ASSUME todo \in Seq(Task), todo # <<>>, NEW new \in Seq(Task), Then(new)
    PROVE  Shift(new)
  <1>1. Tail(todo) \in Seq(Task) /\ Len(Tail(todo)) = Len(todo) - 1 /\ Len(todo) \in Nat \ {0}
    OBVIOUS
  <1>2. \A p \in 1..Len(Tail(todo)) : Tail(todo)[p] = todo[p + 1]
    OBVIOUS
  <1>3. todo' \in Seq(Task) /\ Len(todo') = Len(new) + Len(Tail(todo)) /\ Len(new) \in Nat
    BY <1>1 DEF Then
  <1>4. \A p \in 1..Len(todo') :
          todo'[p] = IF p <= Len(new) THEN new[p] ELSE Tail(todo)[p - Len(new)]
    BY <1>1 DEF Then
  <1>5. ASSUME NEW p \in (Len(new) + 1)..Len(todo')
        PROVE  p - Len(new) + 1 \in 2..Len(todo) /\ todo'[p] = todo[p - Len(new) + 1]
    <2>1. p - Len(new) \in 1..Len(Tail(todo)) /\ ~(p <= Len(new)) /\ p \in 1..Len(todo')
      BY <1>1, <1>3
    <2> QED
      BY <1>1, <1>2, <1>4, <2>1
  <1>6. ASSUME NEW p \in 2..Len(todo)
        PROVE  /\ p + Len(new) - 1 \in (Len(new) + 1)..Len(todo')
               /\ todo'[p + Len(new) - 1] = todo[p]
    <2>1. p + Len(new) - 1 \in (Len(new) + 1)..Len(todo') /\ (p + Len(new) - 1) - Len(new) + 1 = p
      BY <1>1, <1>3
    <2> QED
      BY <1>5, <2>1
  <1>7. \A p \in 1..Len(new) : todo'[p] = new[p]
    BY <1>1, <1>3, <1>4
  <1> QED
    BY <1>1, <1>3, <1>5, <1>6, <1>7 DEF Shift

LEMMA Lengths ==
    ASSUME NEW new, Shift(new)
    PROVE  /\ Len(new) \in Nat /\ Len(todo) \in Nat \ {0} /\ Len(todo') \in Nat
           /\ Len(todo') = Len(new) + Len(todo) - 1 /\ DOMAIN todo' = 1..Len(todo')
  BY DEF Shift

LEMMA Stack ==
    ASSUME TypeInv, NEW new, Shift(new)
    PROVE  /\ DOMAIN todo = 1..Len(todo) /\ DOMAIN todo' = 1..Len(todo') /\ Len(new) \in Nat
           /\ Len(todo) \in Nat \ {0} /\ 1 \in 1..Len(todo) /\ todo # <<>>
  <1>1. Len(new) \in Nat /\ Len(todo) \in Nat \ {0} /\ DOMAIN todo' = 1..Len(todo')
    BY Lengths
  <1>2. DOMAIN todo = 1..Len(todo)
    BY DEF TypeInv
  <1> QED
    BY <1>1, <1>2

LEMMA NewOrOld ==
    ASSUME NEW new, Shift(new), NEW q \in 1..Len(todo')
    PROVE  \/ q \in 1..Len(new) /\ todo'[q] = new[q]
           \/ \E r \in 2..Len(todo) : q = r + Len(new) - 1 /\ todo'[q] = todo[r]
  <1>1. CASE q \in 1..Len(new)
    BY <1>1 DEF Shift
  <1>2. CASE q \notin 1..Len(new)
    <2>1. q \in (Len(new) + 1)..Len(todo')
      BY <1>2, Lengths
    <2>2. q - Len(new) + 1 \in 2..Len(todo) /\ todo'[q] = todo[q - Len(new) + 1]
      BY <2>1 DEF Shift
    <2>3. q = (q - Len(new) + 1) + Len(new) - 1
      BY Lengths
    <2> QED
      BY <2>2, <2>3
  <1> QED
    BY <1>1, <1>2

LEMMA Moved ==
    ASSUME NEW new, Shift(new), NEW r \in 2..Len(todo)
    PROVE  \E q \in 1..Len(todo') : q = r + Len(new) - 1 /\ todo'[q] = todo[r] /\ q > Len(new)
  <1>1. r + Len(new) - 1 \in (Len(new) + 1)..Len(todo') /\ todo'[r + Len(new) - 1] = todo[r]
    BY DEF Shift
  <1>2. r + Len(new) - 1 \in 1..Len(todo') /\ r + Len(new) - 1 > Len(new)
    BY <1>1, Lengths
  <1> QED
    BY <1>1, <1>2

LEMMA VisitTasks ==
    ASSUME source \in Programs, NEW s \in Seq(Id)
    PROVE  /\ Each(Visit, s) \in Seq(Task) /\ Len(Each(Visit, s)) = Len(s)
           /\ \A p \in 1..Len(s) : Each(Visit, s)[p] = Visit(s[p])
  BY Tasks DEF Each

\* What an expansion visits is covered by it, each loop once.
LEMMA Siblings ==
    ASSUME source \in Programs, NEW s \in Seq(Id), IsInjective(s), NEW A \in SUBSET Id,
           \A j \in Range(s) : source.around[j] = A,
           NEW p \in 1..Len(s), NEW q \in 1..Len(s), NEW l \in Loop,
           Covers(Visit(s[p]), l), Covers(Visit(s[q]), l)
    PROVE  p = q
  <1>1. s[p] \in Range(s) /\ s[q] \in Range(s) /\ s[p] \in Id /\ s[q] \in Id
    BY DEF Range
  <1>2. \A j \in Id : source.kind[j] = "for" => l \notin Header(source, j)
    BY Parts DEF Loop
  <1>3. (s[p] = l \/ s[p] \in source.around[l]) /\ (s[q] = l \/ s[q] \in source.around[l])
    BY <1>1, <1>2 DEF Covers, Visits, Visit
  <1>4. \A i \in source.around[l] : i \in Loop /\ i \notin source.around[i]
    BY ItemTree DEF Loop
  <1>5. l \in Id /\ l \notin source.around[l]
    BY <1>4 DEF Loop
  <1>6. s[p] = s[q] \/ s[p] \in source.around[s[q]] \/ s[q] \in source.around[s[p]]
    BY <1>3, <1>5, ItemTree
  <1>7. s[p] = s[q]
    BY <1>1, <1>3, <1>4, <1>5, <1>6
  <1> QED
    BY <1>7 DEF IsInjective

LEMMA HeldCovered ==
    ASSUME source \in Programs, NEW s \in Seq(Id), NEW i \in Id
    PROVE  Holds(source, s, i) <=> \E p \in 1..Len(s) : Covers(Visit(s[p]), i)
  BY DEF Holds, Covers, Visits, Visit, Range

---------------------------------------------------------------------------
(* What the steps push                                                     *)

\* The block of a loop, and then the end of its visit
PushesBlock(new, l, last) ==
  /\ Shift(new) /\ l \in Loop
  /\ Len(new) = Len(source.block[l]) + 1 /\ new[Len(new)] = last
  /\ \A p \in 1..(Len(new) - 1) : new[p] = Visit(source.block[l][p])

LEMMA BlockPushed ==
    ASSUME TypeInv, todo # <<>>, NEW l \in Loop, NEW last \in Task,
           Then(Each(Visit, source.block[l]) \o <<last>>)
    PROVE  \E new \in Seq(Task) : PushesBlock(new, l, last)
  <1> DEFINE b == Each(Visit, source.block[l])
             new == b \o <<last>>
  <1>1. source.block[l] \in Seq(Id)
    BY Types DEF Loop, TypeInv
  <1>2. b \in Seq(Task) /\ Len(b) = Len(source.block[l])
    BY <1>1, VisitTasks DEF TypeInv
  <1>3. \A p \in 1..Len(source.block[l]) : b[p] = Visit(source.block[l][p])
    BY <1>1, VisitTasks DEF TypeInv
  <1>4. Then(new)
    OBVIOUS
  <1> HIDE DEF b
  <1>5. new \in Seq(Task) /\ Len(new) = Len(b) + 1 /\ new[Len(new)] = last
    BY <1>2
  <1>6. \A p \in 1..(Len(new) - 1) : new[p] = b[p]
    BY <1>2
  <1> HIDE DEF new
  <1>7. Shift(new)
    BY <1>4, <1>5, Shifted DEF TypeInv
  <1>8. \A p \in 1..(Len(new) - 1) : new[p] = Visit(source.block[l][p])
    BY <1>2, <1>3, <1>5, <1>6
  <1> QED
    BY <1>2, <1>5, <1>7, <1>8 DEF PushesBlock

PushesFunction(new, f, back) ==
  LET a == Len(source.locals[f])
      b == Len(source.body[f])
  IN /\ Shift(new) /\ f \in Fun /\ a \in Nat /\ b \in Nat
     /\ Len(new) = a + b + 1 /\ new[Len(new)] = back
     /\ \A p \in 1..a : new[p] = Fundef(source.locals[f][p])
     /\ \A p \in (a + 1)..(a + b) : p - a \in 1..b /\ new[p] = Visit(source.body[f][p - a])

LEMMA FunctionPushed ==
    ASSUME TypeInv, CA_EFIfundef
    PROVE  \E new \in Seq(Task) : PushesFunction(new, todo[1].fun, Back(fun, counter))
  <1> DEFINE f == todo[1].fun
             ls == Each(Fundef, source.locals[f])
             is == Each(Visit, source.body[f])
             last == Back(fun, counter)
             new == ls \o is \o <<last>>
  <1>1. todo[1] \in Task /\ todo[1].k = "fundef" /\ Then(new)
    BY DEF TypeInv, CA_EFIfundef, At, Item
  <1>2. f \in Fun
    BY <1>1, Kinds
  <1> HIDE DEF f
  <1>3. source.locals[f] \in Seq(Fun) /\ source.body[f] \in Seq(Id)
    BY <1>2, Types DEF TypeInv
  <1>4. /\ ls \in Seq(Task) /\ Len(ls) = Len(source.locals[f])
        /\ \A p \in 1..Len(ls) : ls[p] = Fundef(source.locals[f][p])
    BY <1>3, Tasks DEF Each
  <1>5. /\ is \in Seq(Task) /\ Len(is) = Len(source.body[f])
        /\ \A p \in 1..Len(is) : is[p] = Visit(source.body[f][p])
    BY <1>3, VisitTasks DEF TypeInv
  <1>6. last \in Task
    BY Tasks DEF TypeInv
  <1> HIDE DEF ls, is, last
  <1> DEFINE mid == ls \o is
  <1>7. /\ mid \in Seq(Task) /\ Len(mid) = Len(ls) + Len(is)
        /\ \A p \in 1..Len(ls) : mid[p] = ls[p]
        /\ \A p \in (Len(ls) + 1)..(Len(ls) + Len(is)) : mid[p] = is[p - Len(ls)]
    <2>1. ls \in Seq(Task) /\ is \in Seq(Task)
      BY <1>4, <1>5
    <2> QED
      BY <2>1, Joined, Zenon
  <1> HIDE DEF mid
  <1>8. /\ new \in Seq(Task) /\ Len(new) = Len(mid) + 1 /\ new[Len(new)] = last
        /\ \A p \in 1..Len(mid) : new[p] = mid[p]
    <2>1. new = mid \o <<last>>
      BY DEF mid
    <2> HIDE DEF new
    <2> QED
      BY <1>6, <1>7, <2>1, Ended
  <1>9. Len(ls) \in Nat /\ Len(is) \in Nat
    BY <1>4, <1>5
  <1> HIDE DEF new
  <1>10. Shift(new)
    <2>1. Then(new)
      BY <1>1 DEF new, ls, is, last
    <2> QED
      BY <1>8, <2>1, Shifted DEF TypeInv, CA_EFIfundef, At
  <1>11. \A p \in 1..Len(ls) : new[p] = Fundef(source.locals[f][p])
    BY <1>4, <1>7, <1>8, <1>9
  <1>12. ASSUME NEW p \in (Len(ls) + 1)..(Len(ls) + Len(is))
         PROVE  p - Len(ls) \in 1..Len(is) /\ new[p] = Visit(source.body[f][p - Len(ls)])
    <2>1. p - Len(ls) \in 1..Len(is) /\ p \in 1..Len(mid)
      BY <1>7, <1>9
    <2> QED
      BY <1>5, <1>7, <1>8, <2>1
  <1>13. PushesFunction(new, f, last)
    BY <1>2, <1>4, <1>5, <1>7, <1>8, <1>9, <1>10, <1>11, <1>12 DEF PushesFunction
  <1> QED
    BY <1>8, <1>13 DEF f, last

Pops == Shift(<<>>)

LEMMA Popped ==
    ASSUME TypeInv, todo # <<>>, Then(<<>>)
    PROVE  Pops
  <1>1. <<>> \in Seq(Task)
    OBVIOUS
  <1> QED
    BY <1>1, Shifted DEF TypeInv, Pops

\* A visit that only leads to more visits
Expands(new) ==
  LET i == todo[1].id
  IN
  /\ Shift(new) /\ Visits(todo[1]) /\ i \in Id
  /\ \A p \in 1..Len(new) :
       /\ Visits(new[p]) /\ new[p].id \in Id /\ source.fun[new[p].id] = source.fun[i]
       /\ \/ source.around[new[p].id] = source.around[i]
          \/ i \in Loop /\ Renamed(i) /\ source.around[new[p].id] = source.around[i] \cup {i}
       /\ new[p].id \in Loop =>
            new[p].id = i \/ (i \in Loop /\ Renamed(i) /\ i \in source.around[new[p].id])
  /\ \A j \in Id : Covers(todo[1], j) =>
       \/ j = i /\ (j \in Loop => Renamed(j))
       \/ \E p \in 1..Len(new) : Covers(new[p], j)
  /\ \A l \in Loop : \A p \in 1..Len(new) : Covers(new[p], l) =>
       Covers(todo[1], l) /\ \A q \in 1..Len(new) : Covers(new[q], l) => p = q
  /\ UNCHANGED <<source, vardecs, fun, oldName, newName, counter>>
  /\ name' \in [Id -> Name] /\ \A l \in Loop : name'[l] = name[l]
  /\ \A j \in Id \ Loop : \/ name'[j] = name[j]
                          \/ /\ j = i /\ oldName # Null
                             /\ name[j] = oldName /\ name'[j] = newName
  /\ i \notin Loop /\ oldName # Null /\ name[i] = oldName => name'[i] = newName

LEMMA First ==
    ASSUME TypeInv, NEW k, At(k)
    PROVE  /\ todo # <<>> /\ Item = todo[1] /\ todo[1] \in Task /\ todo[1].k = k
           /\ Len(todo) \in Nat /\ 1 \in DOMAIN todo /\ DOMAIN todo = 1..Len(todo)
  BY DEF TypeInv, At, Item

LEMMA ForloopExpands ==
    ASSUME TypeInv, CA_EFIforloop
    PROVE  \E new \in Seq(Task) : Expands(new)
  <1> DEFINE l == todo[1].id
             h == Each(Visit, source.head[l])
             s == Each(Visit, source.init[l])
             mid == h \o s
             new == mid \o <<Enter(l)>>
  <1>1. /\ Item = todo[1] /\ todo[1] \in Task /\ todo[1].k = "visit" /\ l \in Loop /\ todo # <<>>
        /\ l \in Id
    BY First, Kinds, Zenon DEF CA_EFIforloop, AtItem, Loop
  <1>2. source \in Programs
    BY DEF TypeInv
  <1>3. Then(new)
    BY <1>1 DEF CA_EFIforloop
  <1> HIDE DEF l
  <1>4. source.head[l] \in Seq(Id) /\ source.init[l] \in Seq(Id)
    BY <1>1, <1>2, Types
  <1>5. /\ h \in Seq(Task) /\ Len(h) = Len(source.head[l])
        /\ \A p \in 1..Len(h) : h[p] = Visit(source.head[l][p])
    BY <1>2, <1>4, VisitTasks
  <1>6. /\ s \in Seq(Task) /\ Len(s) = Len(source.init[l])
        /\ \A p \in 1..Len(s) : s[p] = Visit(source.init[l][p])
    BY <1>2, <1>4, VisitTasks
  <1>7. Enter(l) \in Task
    BY <1>1, Tasks
  <1> HIDE DEF h, s
  <1>8. /\ mid \in Seq(Task) /\ Len(mid) = Len(h) + Len(s) /\ Len(h) \in Nat /\ Len(s) \in Nat
        /\ \A p \in 1..Len(h) : mid[p] = h[p]
        /\ \A p \in (Len(h) + 1)..(Len(h) + Len(s)) : p - Len(h) \in 1..Len(s) /\ mid[p] = s[p - Len(h)]
    <2>1. h \in Seq(Task) /\ s \in Seq(Task)
      BY <1>5, <1>6
    <2> QED
      BY <2>1, Joined, Zenon
  <1> HIDE DEF mid
  <1>9. /\ new \in Seq(Task) /\ Len(new) = Len(mid) + 1 /\ Len(mid) \in Nat
        /\ \A p \in 1..Len(mid) : new[p] = mid[p]
        /\ new[Len(mid) + 1] = Enter(l)
    <2>1. mid \in Seq(Task)
      BY <1>8
    <2> QED
      BY <1>7, <2>1, Ended, Zenon
  <1> HIDE DEF new
  <1>10. Shift(new)
    BY <1>1, <1>3, <1>9, Shifted DEF TypeInv
  <1>11. ASSUME NEW p \in 1..Len(mid)
         PROVE  \E j \in Header(source, l) : j \in Id /\ new[p] = Visit(j)
    <2>1. CASE p \in 1..Len(h)
      <3>1. new[p] = Visit(source.head[l][p]) /\ p \in 1..Len(source.head[l])
        BY <1>5, <1>8, <1>9, <2>1
      <3> QED
        BY <1>4, <3>1 DEF Header, Range
    <2>2. CASE p \notin 1..Len(h)
      <3>1. p \in (Len(h) + 1)..(Len(h) + Len(s))
        BY <1>8, <2>2
      <3>2. new[p] = Visit(source.init[l][p - Len(h)]) /\ p - Len(h) \in 1..Len(source.init[l])
        BY <1>6, <1>8, <1>9, <3>1
      <3> QED
        BY <1>4, <3>2 DEF Header, Range
    <2> QED
      BY <2>1, <2>2
  <1>12. ASSUME NEW j \in Header(source, l)
         PROVE  \E p \in 1..Len(mid) : new[p] = Visit(j)
    <2>1. CASE j \in Range(source.head[l])
      <3>1. PICK p \in 1..Len(source.head[l]) : j = source.head[l][p]
        BY <1>4, <2>1 DEF Range
      <3>2. p \in 1..Len(h) /\ p \in 1..Len(mid)
        BY <1>5, <1>8
      <3> QED
        BY <1>5, <1>8, <1>9, <3>1, <3>2
    <2>2. CASE j \in Range(source.init[l])
      <3>1. PICK p \in 1..Len(source.init[l]) : j = source.init[l][p]
        BY <1>4, <2>2 DEF Range
      <3>2. /\ p + Len(h) \in (Len(h) + 1)..(Len(h) + Len(s)) /\ p + Len(h) \in 1..Len(mid)
            /\ p + Len(h) - Len(h) = p /\ p \in 1..Len(s)
        BY <1>6, <1>8
      <3>3. mid[p + Len(h)] = s[p]
        BY <1>8, <3>2
      <3> QED
        BY <1>6, <1>9, <3>1, <3>2, <3>3
    <2> QED
      BY <2>1, <2>2 DEF Header
  <1>13. ASSUME NEW p \in 1..Len(new), new[p] # Enter(l)
         PROVE  \E j \in Header(source, l) : j \in Id /\ new[p] = Visit(j)
    <2>1. p \in 1..Len(mid)
      BY <1>9, <1>13
    <2> QED
      BY <1>11, <2>1
  <1>14. Len(mid) + 1 \in 1..Len(new) /\ \A p \in 1..Len(new) : new[p] = Enter(l) => p = Len(mid) + 1
    <2>1. \A p \in 1..Len(mid) : new[p] # Enter(l)
      <3>1. \A j : Visit(j).k # Enter(l).k
        BY DEF Visit, Enter
      <3> QED
        BY <1>11, <3>1
    <2> QED
      BY <1>9, <2>1
  <1>15. \A j \in Header(source, l) : /\ source.fun[j] = source.fun[l] /\ j \notin Loop
                                      /\ source.around[j] = source.around[l]
    BY <1>1, <1>2, Parts
  <1>16. ASSUME NEW p \in 1..Len(new)
         PROVE  /\ Visits(new[p]) /\ new[p].id \in Id /\ source.fun[new[p].id] = source.fun[l]
                /\ source.around[new[p].id] = source.around[l]
                /\ new[p].id \in Loop => new[p].id = l
    <2>1. CASE new[p] = Enter(l)
      BY <1>1, <2>1 DEF Enter, Visits
    <2>2. CASE new[p] # Enter(l)
      <3>1. PICK j \in Header(source, l) : j \in Id /\ new[p] = Visit(j)
        BY <1>13, <2>2
      <3>2. new[p].k = "visit" /\ new[p].id = j
        BY <3>1 DEF Visit
      <3> QED
        BY <1>15, <3>1, <3>2 DEF Visits
    <2> QED
      BY <2>1, <2>2
  <1>17. ASSUME NEW j \in Id, Covers(todo[1], j)
         PROVE  \E p \in 1..Len(new) : Covers(new[p], j)
    <2>1. j = l \/ l \in source.around[j] \/ j \in Header(source, l)
      BY <1>1, <1>17 DEF Covers, Visits, l
    <2>2. CASE j = l \/ l \in source.around[j]
      <3>1. Covers(Enter(l), j)
        BY <2>2 DEF Covers, Visits, Enter
      <3> QED
        BY <1>9, <1>14, <3>1
    <2>3. CASE j \in Header(source, l)
      <3>1. PICK p \in 1..Len(mid) : new[p] = Visit(j)
        BY <1>12, <2>3
      <3> QED
        BY <1>9, <3>1 DEF Covers, Visits, Visit
    <2> QED
      BY <2>1, <2>2, <2>3
  <1>18. ASSUME NEW m \in Loop, NEW p \in 1..Len(new), Covers(new[p], m)
         PROVE  Covers(todo[1], m) /\ p = Len(mid) + 1
    <2>1. CASE new[p] = Enter(l)
      <3>1. m = l \/ l \in source.around[m]
        BY <1>18, <2>1 DEF Covers, Visits, Enter
      <3> QED
        BY <1>1, <1>14, <2>1, <3>1 DEF Covers, Visits, l
    <2>2. CASE new[p] # Enter(l)
      <3>1. PICK j \in Header(source, l) : j \in Id /\ new[p] = Visit(j)
        BY <1>13, <2>2
      <3>2. j \notin Loop
        BY <1>15
      <3>3. j = m \/ j \in source.around[m]
        BY <1>18, <3>1, <3>2 DEF Covers, Visits, Visit, Loop
      <3> QED
        BY <1>2, <3>2, <3>3, ItemTree DEF Loop
    <2> QED
      BY <2>1, <2>2
  <1>19. /\ UNCHANGED <<source, vardecs, fun, oldName, newName, counter>>
         /\ name' \in [Id -> Name] /\ name' = name
    BY DEF CA_EFIforloop, TypeInv
  <1>20. Expands(new)
    BY <1>1, <1>10, <1>16, <1>17, <1>18, <1>19 DEF Expands, Visits, l
  <1> QED
    BY <1>9, <1>20

\* A block that is pushed covers what is in it, each loop once.
LEMMA BlockCovers ==
    ASSUME source \in Programs, NEW l \in Loop, NEW b, b = source.block[l],
           NEW new, \A p \in 1..Len(b) : new[p] = Visit(b[p])
    PROVE  /\ Len(b) \in Nat
           /\ \A p \in 1..Len(b) :
                /\ new[p].k = "visit" /\ new[p].id \in Id /\ source.fun[new[p].id] = source.fun[l]
                /\ source.around[new[p].id] = source.around[l] \cup {l}
           /\ \A i \in Id : l \in source.around[i] => \E p \in 1..Len(b) : Covers(new[p], i)
           /\ \A m \in Loop : \A p, q \in 1..Len(b) :
                Covers(new[p], m) => l \in source.around[m] /\ (Covers(new[q], m) => p = q)
  <1>1. b \in Seq(Id) /\ l \in Id
    BY Types DEF Loop
  <1>2. /\ IsInjective(b)
        /\ \A j \in Range(b) : /\ source.fun[j] = source.fun[l]
                               /\ source.around[j] = source.around[l] \cup {l}
    BY Parts
  <1>3. \A p \in 1..Len(b) : b[p] \in Range(b) /\ b[p] \in Id
    BY <1>1 DEF Range
  <1>4. ASSUME NEW p \in 1..Len(b)
        PROVE  /\ new[p].k = "visit" /\ new[p].id \in Id /\ source.fun[new[p].id] = source.fun[l]
               /\ source.around[new[p].id] = source.around[l] \cup {l}
    <2>1. new[p].k = "visit" /\ new[p].id = b[p]
      <3>1. new[p] = Visit(b[p])
        OBVIOUS
      <3> QED
        BY <3>1 DEF Visit
    <2> QED
      BY <1>2, <1>3, <2>1
  <1>5. ASSUME NEW i \in Id, l \in source.around[i]
        PROVE  \E p \in 1..Len(b) : Covers(new[p], i)
    <2>1. Holds(source, b, i)
      BY <1>5, ItemTree
    <2> QED
      BY <1>1, <2>1, HeldCovered
  <1>6. ASSUME NEW m \in Loop, NEW p \in 1..Len(b), Covers(new[p], m)
        PROVE  l \in source.around[m]
    <2>1. Covers(Visit(b[p]), m) /\ m \in Id
      BY <1>6 DEF Loop
    <2>2. b[p] = m \/ b[p] \in source.around[m]
      <3>1. source.kind[b[p]] = "for" => m \notin Header(source, b[p])
        BY <1>3, Parts DEF Loop
      <3> QED
        BY <2>1, <3>1 DEF Covers, Visits, Visit
    <2>3. l \in source.around[b[p]]
      BY <1>2, <1>3
    <2> QED
      BY <2>1, <2>2, <2>3, ItemTree
  <1>7. ASSUME NEW m \in Loop, NEW p \in 1..Len(b), NEW q \in 1..Len(b),
               Covers(new[p], m), Covers(new[q], m)
        PROVE  p = q
    <2>1. source.around[l] \cup {l} \in SUBSET Id
      BY <1>1, Types
    <2>2. Covers(Visit(b[p]), m) /\ Covers(Visit(b[q]), m)
      BY <1>7
    <2> QED
      BY <1>1, <1>2, <2>1, <2>2, Siblings
  <1>8. Len(b) \in Nat
    BY <1>1
  <1> QED
    BY <1>4, <1>5, <1>6, <1>7, <1>8

LEMMA AgainExpands ==
    ASSUME TypeInv, ForloopAgain
    PROVE  \E new \in Seq(Task) : Expands(new)
  <1> DEFINE l == todo[1].id
             new == Each(Visit, source.block[l])
  <1>1. /\ Item = todo[1] /\ todo[1] \in Task /\ todo[1].k = "enter" /\ l \in Loop /\ todo # <<>>
        /\ l \in Id
    BY First, Kinds, Zenon DEF ForloopAgain, Loop
  <1>2. source \in Programs
    BY DEF TypeInv
  <1>3. Then(new) /\ Renamed(l)
    BY <1>1 DEF ForloopAgain
  <1> HIDE DEF l
  <1>4. source.block[l] \in Seq(Id)
    BY <1>1, <1>2, Types
  <1>5. /\ new \in Seq(Task) /\ Len(new) = Len(source.block[l])
        /\ \A p \in 1..Len(source.block[l]) : new[p] = Visit(source.block[l][p])
    BY <1>2, <1>4, VisitTasks
  <1> HIDE DEF new
  <1>6. Shift(new)
    BY <1>1, <1>3, <1>5, Shifted DEF TypeInv
  <1>7. /\ \A p \in 1..Len(new) :
             /\ new[p].k = "visit" /\ new[p].id \in Id /\ source.fun[new[p].id] = source.fun[l]
             /\ source.around[new[p].id] = source.around[l] \cup {l}
        /\ \A i \in Id : l \in source.around[i] => \E p \in 1..Len(new) : Covers(new[p], i)
        /\ \A m \in Loop : \A p, q \in 1..Len(new) :
             Covers(new[p], m) => l \in source.around[m] /\ (Covers(new[q], m) => p = q)
    <2> DEFINE b == source.block[l]
    <2>1. Len(new) = Len(b) /\ \A p \in 1..Len(b) : new[p] = Visit(b[p])
      BY <1>5
    <2> HIDE DEF b
    <2>2. b = source.block[l]
      BY DEF b
    <2>3. /\ \A p \in 1..Len(b) :
               /\ new[p].k = "visit" /\ new[p].id \in Id /\ source.fun[new[p].id] = source.fun[l]
               /\ source.around[new[p].id] = source.around[l] \cup {l}
          /\ \A i \in Id : l \in source.around[i] => \E p \in 1..Len(b) : Covers(new[p], i)
          /\ \A m \in Loop : \A p, q \in 1..Len(b) :
               Covers(new[p], m) => l \in source.around[m] /\ (Covers(new[q], m) => p = q)
      BY <1>1, <1>2, <2>1, <2>2, BlockCovers
    <2> QED
      BY <2>1, <2>3
  <1>8. \A j \in Id : Covers(todo[1], j) <=> (j = l \/ l \in source.around[j])
    BY <1>1 DEF Covers, Visits, l
  <1>9. /\ UNCHANGED <<source, vardecs, fun, oldName, newName, counter>>
        /\ name' \in [Id -> Name] /\ name' = name
    BY DEF ForloopAgain, TypeInv
  <1>10. \A m \in Loop : m \in Id
    BY DEF Loop
  <1>11. Expands(new)
    BY <1>1, <1>3, <1>6, <1>7, <1>8, <1>9, <1>10 DEF Expands, Visits, l
  <1> QED
    BY <1>5, <1>11

LEMMA VarExpands ==
    ASSUME TypeInv, CA_EFIvar
    PROVE  \E new \in Seq(Task) : Expands(new)
  <1> DEFINE i == todo[1].id
  <1>1. /\ Item = todo[1] /\ todo[1] \in Task /\ todo[1].k = "visit" /\ i \in Id \ Loop
        /\ todo # <<>> /\ source.kind[i] # "for"
    <2>1. /\ Item = todo[1] /\ todo[1] \in Task /\ todo[1].k = "visit" /\ todo # <<>>
          /\ source.kind[i] \in {"var", "call"}
      BY First, Zenon DEF CA_EFIvar, AtItem
    <2> QED
      BY <2>1, Kinds DEF Loop
  <1>2. /\ UNCHANGED <<source, vardecs, fun, oldName, newName, counter>> /\ Then(<<>>)
        /\ name' = IF oldName # Null /\ name[i] = oldName THEN [name EXCEPT ![i] = newName] ELSE name
    BY <1>1 DEF CA_EFIvar
  <1>3. Shift(<<>>)
    BY <1>1, <1>2, Popped DEF Pops
  <1>4. \A j \in Id : Covers(todo[1], j) => j = i
    <2>1. \A j \in Id : i \notin source.around[j]
      BY <1>1, ItemTree DEF TypeInv
    <2> QED
      BY <1>1, <2>1 DEF Covers, Visits
  <1>5. /\ name \in [Id -> Name] /\ (oldName # Null => newName \in Name)
    BY DEF TypeInv, Name
  <1>6. /\ name' \in [Id -> Name] /\ \A l \in Loop : name'[l] = name[l]
        /\ \A j \in Id \ Loop : \/ name'[j] = name[j]
                                \/ /\ j = i /\ oldName # Null
                                   /\ name[j] = oldName /\ name'[j] = newName
        /\ oldName # Null /\ name[i] = oldName => name'[i] = newName
    BY <1>1, <1>2, <1>5 DEF Loop
  <1>7. Len(<<>>) = 0 /\ <<>> \in Seq(Task)
    OBVIOUS
  <1>8. Expands(<<>>)
    BY <1>1, <1>2, <1>3, <1>4, <1>6, <1>7 DEF Expands, Visits
  <1> QED
    BY <1>7, <1>8

\* The source stays what it is, and so does what is defined by it.
LEMMA SourceKept ==
    ASSUME Next
    PROVE  source' = source
  BY DEF Next, CA_EFIfundef, EndFundef, CA_EFIforloop, ForloopAgain, ForloopFirst, ForloopSecond,
         ForloopEnd, CA_EFIvar

LEMMA Constant ==
    ASSUME source' = source
    PROVE  /\ Fun' = Fun /\ Id' = Id /\ Loop' = Loop /\ Task' = Task
           /\ \A i : Iterated(i)' = Iterated(i)
  <1>1. Fun' = Fun /\ Id' = Id
    BY DEF Fun, Id
  <1>2. Loop' = Loop
    BY <1>1 DEF Loop
  <1>3. \A i : Iterated(i)' = Iterated(i)
    BY DEF Iterated
  <1> QED
    BY <1>1, <1>2, <1>3 DEF Task

\* The loop that is renamed, before and after
FirstVisited(new) ==
  LET l == todo[1].id
  IN
  /\ todo[1].k = "enter" /\ l \in Loop /\ ~Renamed(l) /\ source.fun[l] \in Fun
  /\ PushesBlock(new, l, Again(l, name[l], NewName(name[l])))
  /\ name[l] \in Source /\ NewName(name[l]) \in ForName
  /\ name' = [name EXCEPT ![l] = NewName(name[l])]
  /\ vardecs' = [vardecs EXCEPT ![fun] = Append(@, NewName(name[l]))]
  /\ oldName' = name[l] /\ newName' = NewName(name[l])
  /\ counter' = counter + 1
  /\ UNCHANGED <<source, fun>>

LEMMA LoopOrSource ==
    ASSUME TypeInv, NEW i \in Id
    PROVE  IF Renamed(i) THEN name[i] \in ForName ELSE name[i] \in Source
  <1>1. name[i] \in Source \/ name[i] \in ForName
    BY DEF TypeInv, Name
  <1>2. name[i] \in Source => name[i][1] = "id"
    BY DEF Source
  <1>3. name[i] \in ForName => name[i][1] = "for"
    BY DEF ForName
  <1> QED
    BY <1>1, <1>2, <1>3 DEF Renamed

LEMMA FirstVisits ==
    ASSUME TypeInv, ForloopFirst
    PROVE  \E new \in Seq(Task) : FirstVisited(new)
  <1> DEFINE l == todo[1].id
  <1>1. /\ Item = todo[1] /\ todo[1] \in Task /\ todo[1].k = "enter" /\ l \in Loop /\ todo # <<>>
        /\ l \in Id
    BY First, Kinds, Zenon DEF ForloopFirst, Loop
  <1>2. /\ ~Renamed(l)
        /\ name' = [name EXCEPT ![l] = NewName(name[l])]
        /\ vardecs' = [vardecs EXCEPT ![fun] = Append(@, NewName(name[l]))]
        /\ oldName' = name[l] /\ newName' = NewName(name[l])
        /\ counter' = counter + 1
        /\ UNCHANGED <<source, fun>>
        /\ Then(Each(Visit, source.block[l]) \o <<Again(l, name[l], NewName(name[l]))>>)
    BY <1>1 DEF ForloopFirst, Names, Revisits
  <1>3. name[l] \in Source
    BY <1>1, <1>2, LoopOrSource
  <1>4. NewName(name[l]) \in ForName
    BY <1>3 DEF NewName, Source, ForName, TypeInv
  <1>5. Again(l, name[l], NewName(name[l])) \in Task
    BY <1>1, <1>3, <1>4, Tasks
  <1>6. source.fun[l] \in Fun
    BY <1>1, Types DEF TypeInv
  <1> HIDE DEF l
  <1>7. PICK new \in Seq(Task) : PushesBlock(new, l, Again(l, name[l], NewName(name[l])))
    BY <1>1, <1>2, <1>5, BlockPushed
  <1> QED
    BY <1>1, <1>2, <1>3, <1>4, <1>6, <1>7 DEF FirstVisited, l

SecondVisited(new) ==
  LET l == todo[1].id
  IN
  /\ todo[1].k = "again" /\ l \in Loop
  /\ PushesBlock(new, l, Clear(l))
  /\ oldName' = todo[1].old /\ newName' = todo[1].new
  /\ todo[1].old \in Source /\ todo[1].new \in ForName
  /\ UNCHANGED <<source, name, vardecs, fun, counter>>

LEMMA SecondVisits ==
    ASSUME TypeInv, ForloopSecond
    PROVE  \E new \in Seq(Task) : SecondVisited(new)
  <1> DEFINE l == todo[1].id
  <1>1. /\ Item = todo[1] /\ todo[1] \in Task /\ todo[1].k = "again" /\ l \in Loop /\ todo # <<>>
        /\ todo[1].old \in Source /\ todo[1].new \in ForName
    BY First, Kinds, Zenon DEF ForloopSecond
  <1>2. /\ oldName' = todo[1].old /\ newName' = todo[1].new
        /\ UNCHANGED <<source, name, vardecs, fun, counter>>
        /\ Then(Each(Visit, source.block[l]) \o <<Clear(l)>>)
    BY <1>1 DEF ForloopSecond, Names
  <1>3. Clear(l) \in Task
    BY <1>1, Tasks
  <1> HIDE DEF l
  <1>4. PICK new \in Seq(Task) : PushesBlock(new, l, Clear(l))
    BY <1>1, <1>2, <1>3, BlockPushed
  <1> QED
    BY <1>1, <1>2, <1>4 DEF SecondVisited, l

LEMMA FunVisits ==
    ASSUME TypeInv, CA_EFIfundef
    PROVE  /\ todo[1].k = "fundef" /\ fun' = todo[1].fun /\ fun' \in Fun /\ counter' = 0
           /\ UNCHANGED <<source, name, vardecs, oldName, newName>>
  <1>1. Item = todo[1] /\ todo[1] \in Task /\ todo[1].k = "fundef"
    BY First, Zenon DEF CA_EFIfundef
  <1> QED
    BY <1>1, Kinds DEF CA_EFIfundef

LEMMA FunEnds ==
    ASSUME TypeInv, EndFundef
    PROVE  /\ todo[1].k = "back" /\ fun' = todo[1].fun /\ fun' \in Fun \cup {Null}
           /\ counter' = todo[1].counter /\ counter' \in Nat /\ Pops
           /\ UNCHANGED <<source, name, vardecs, oldName, newName>>
  <1>1. Item = todo[1] /\ todo[1] \in Task /\ todo[1].k = "back" /\ todo # <<>>
    BY First, Zenon DEF EndFundef
  <1> QED
    BY <1>1, Kinds, Popped DEF EndFundef

LEMMA LoopEnds ==
    ASSUME TypeInv, ForloopEnd
    PROVE  /\ todo[1].k = "clear" /\ todo[1].id \in Loop /\ oldName' = Null /\ newName' = Null /\ Pops
           /\ UNCHANGED <<source, name, vardecs, fun, counter>>
  <1>1. Item = todo[1] /\ todo[1] \in Task /\ todo[1].k = "clear" /\ todo # <<>>
    BY First, Zenon DEF ForloopEnd
  <1> QED
    BY <1>1, Kinds, Popped DEF ForloopEnd, Names

\* All that a step can be
LEMMA Steps ==
    ASSUME TypeInv, Next
    PROVE  \/ CA_EFIfundef \/ EndFundef \/ ForloopEnd
           \/ \E new \in Seq(Task) : Expands(new)
           \/ \E new \in Seq(Task) : FirstVisited(new)
           \/ \E new \in Seq(Task) : SecondVisited(new)
  BY ForloopExpands, AgainExpands, VarExpands, FirstVisits, SecondVisits DEF Next

LEMMA TypeStep ==
    ASSUME TypeInv, Next
    PROVE  TypeInv'
  <1>1. /\ source \in Programs /\ todo \in Seq(Task)
        /\ name \in [Id -> Name] /\ vardecs \in [Fun -> Seq(Name)]
        /\ fun \in Fun \cup {Null} /\ counter \in Nat
        /\ oldName \in Source \cup {Null} /\ (oldName # Null => newName \in ForName)
    BY DEF TypeInv
  <1>2. source' = source
    BY SourceKept
  <1>3. Fun' = Fun /\ Id' = Id /\ Loop' = Loop /\ Task' = Task
    BY <1>2, Constant, Zenon
  <1>4. /\ todo' \in Seq(Task) /\ name' \in [Id -> Name] /\ vardecs' \in [Fun -> Seq(Name)]
        /\ fun' \in Fun \cup {Null} /\ counter' \in Nat
        /\ oldName' \in Source \cup {Null} /\ (oldName' # Null => newName' \in ForName)
    <2>1. CASE CA_EFIfundef
      <3>1. todo' \in Seq(Task)
        BY <2>1, FunctionPushed DEF PushesFunction, Shift
      <3> QED
        BY <1>1, <2>1, <3>1, FunVisits
    <2>2. CASE EndFundef
      BY <1>1, <2>2, FunEnds DEF Pops, Shift
    <2>3. CASE ForloopEnd
      BY <1>1, <2>3, LoopEnds DEF Pops, Shift
    <2>4. CASE \E new \in Seq(Task) : Expands(new)
      BY <1>1, <2>4 DEF Expands, Shift
    <2>5. CASE \E new \in Seq(Task) : FirstVisited(new)
      <3>1. PICK new \in Seq(Task) : FirstVisited(new)
        BY <2>5
      <3> DEFINE l == todo[1].id
                 n == NewName(name[l])
      <3>2. /\ todo' \in Seq(Task) /\ name[l] \in Source /\ n \in ForName
            /\ name' = [name EXCEPT ![l] = n] /\ vardecs' = [vardecs EXCEPT ![fun] = Append(@, n)]
            /\ oldName' = name[l] /\ newName' = n /\ counter' = counter + 1 /\ fun' = fun
        BY <3>1 DEF FirstVisited, PushesBlock, Shift
      <3> HIDE DEF n, l
      <3>3. n \in Name
        BY <3>2 DEF Name
      <3>4. name' \in [Id -> Name]
        BY <1>1, <3>2, <3>3
      <3>5. vardecs' \in [Fun -> Seq(Name)]
        <4>1. ASSUME NEW f \in Fun
              PROVE  Append(vardecs[f], n) \in Seq(Name)
          <5>1. vardecs[f] \in Seq(Name)
            BY <1>1
          <5> QED
            BY <3>3, <5>1
        <4> QED
          BY <1>1, <3>2, <4>1
      <3> QED
        BY <1>1, <3>2, <3>4, <3>5
    <2>6. CASE \E new \in Seq(Task) : SecondVisited(new)
      BY <1>1, <2>6 DEF SecondVisited, PushesBlock, Shift
    <2> QED
      BY <2>1, <2>2, <2>3, <2>4, <2>5, <2>6, Steps
  <1> QED
    BY <1>1, <1>2, <1>3, <1>4 DEF TypeInv

---------------------------------------------------------------------------
(* Functions                                                               *)

\* A step within a function
Plain(new) ==
  /\ Shift(new) /\ (Visits(todo[1]) \/ Works(todo[1])) /\ todo[1].id \in Id
  /\ \A p \in 1..Len(new) : /\ Visits(new[p]) \/ Works(new[p])
                            /\ source.fun[new[p].id] = source.fun[todo[1].id]
  /\ fun' = fun

LEMMA PlainSteps ==
    ASSUME TypeInv, Next
    PROVE  CA_EFIfundef \/ EndFundef \/ \E new \in Seq(Task) : Plain(new)
  <1>1. source \in Programs
    BY DEF TypeInv
  <1>2. ASSUME NEW l \in Loop, NEW new, NEW last, Works(last), last.id = l, PushesBlock(new, l, last)
        PROVE  \A p \in 1..Len(new) : /\ Visits(new[p]) \/ Works(new[p])
                                      /\ source.fun[new[p].id] = source.fun[l]
    <2>1. Len(new) = Len(source.block[l]) + 1
      BY <1>2 DEF PushesBlock
    <2>2. /\ Len(source.block[l]) \in Nat
          /\ \A p \in 1..Len(source.block[l]) :
               new[p].k = "visit" /\ source.fun[new[p].id] = source.fun[l]
      <3> DEFINE b == source.block[l]
      <3>1. \A p \in 1..Len(b) : new[p] = Visit(b[p])
        <4>1. Len(b) \in Nat
          BY <1>1, Types DEF Loop
        <4> QED
          BY <1>2, <4>1 DEF PushesBlock
      <3>2. b = source.block[l]
        OBVIOUS
      <3> HIDE DEF b
      <3>3. /\ Len(b) \in Nat
            /\ \A p \in 1..Len(b) : new[p].k = "visit" /\ source.fun[new[p].id] = source.fun[l]
        BY <1>1, <3>1, <3>2, BlockCovers
      <3> QED
        BY <3>3 DEF b
    <2>3. new[Len(new)] = last
      BY <1>2 DEF PushesBlock
    <2> QED
      BY <1>2, <2>1, <2>2, <2>3 DEF Visits
  <1>3. CASE ForloopEnd
    <2>1. Len(<<>>) = 0 /\ <<>> \in Seq(Task)
      OBVIOUS
    <2>2. Plain(<<>>)
      BY <1>3, <2>1, LoopEnds DEF Plain, Pops, Works, Loop
    <2> QED
      BY <2>1, <2>2
  <1>4. CASE \E new \in Seq(Task) : Expands(new)
    BY <1>4 DEF Expands, Plain
  <1>5. CASE \E new \in Seq(Task) : FirstVisited(new)
    <2>1. PICK new \in Seq(Task) : FirstVisited(new)
      BY <1>5
    <2> DEFINE l == todo[1].id
               last == Again(l, name[l], NewName(name[l]))
    <2>2. /\ l \in Loop /\ PushesBlock(new, l, last) /\ fun' = fun /\ todo[1].k = "enter"
      BY <2>1 DEF FirstVisited
    <2>3. last.id = l /\ Works(last)
      BY DEF Again, Works
    <2> HIDE DEF last
    <2>4. \A p \in 1..Len(new) : /\ Visits(new[p]) \/ Works(new[p])
                                 /\ source.fun[new[p].id] = source.fun[l]
      BY <1>2, <2>2, <2>3
    <2>5. Plain(new)
      BY <2>2, <2>4 DEF Plain, PushesBlock, Visits, Loop
    <2> QED
      BY <2>5
  <1>6. CASE \E new \in Seq(Task) : SecondVisited(new)
    <2>1. PICK new \in Seq(Task) : SecondVisited(new)
      BY <1>6
    <2> DEFINE l == todo[1].id
               last == Clear(l)
    <2>2. /\ l \in Loop /\ PushesBlock(new, l, last) /\ fun' = fun /\ todo[1].k = "again"
      BY <2>1 DEF SecondVisited
    <2>3. last.id = l /\ Works(last)
      BY DEF Clear, Works
    <2> HIDE DEF last
    <2>4. \A p \in 1..Len(new) : /\ Visits(new[p]) \/ Works(new[p])
                                 /\ source.fun[new[p].id] = source.fun[l]
      BY <1>2, <2>2, <2>3
    <2>5. Plain(new)
      BY <2>2, <2>4 DEF Plain, PushesBlock, Works, Loop
    <2> QED
      BY <2>5
  <1> QED
    BY <1>3, <1>4, <1>5, <1>6, Steps

\* The function of the first task
LEMMA InCurrent ==
    ASSUME TypeInv, InFun, todo # <<>>
    PROVE  OfFun(todo[1], fun) /\ Len(todo) \in Nat \ {0} /\ 1 \in DOMAIN todo
  <1>1. Len(todo) \in Nat \ {0} /\ 1 \in DOMAIN todo
    BY DEF TypeInv
  <1>2. \A s \in 1..(1 - 1) : todo[s].k # "back"
    OBVIOUS
  <1> QED
    BY <1>1, <1>2 DEF InFun

\* What the start of a function leads to
LEMMA FunctionPushes ==
    ASSUME source \in Programs, NEW f, NEW back, NEW new, PushesFunction(new, f, back)
    PROVE  \A p \in 1..(Len(new) - 1) :
             \/ /\ new[p].k = "fundef" /\ new[p].fun \in Fun
                /\ source.within[new[p].fun] = source.within[f] \cup {f}
             \/ /\ new[p].k = "visit" /\ new[p].id \in Id
                /\ source.fun[new[p].id] = f /\ source.around[new[p].id] = {}
  <1> DEFINE a == Len(source.locals[f])
             b == Len(source.body[f])
  <1>1. /\ f \in Fun /\ a \in Nat /\ b \in Nat /\ Len(new) = a + b + 1
        /\ \A p \in 1..a : new[p] = Fundef(source.locals[f][p])
        /\ \A p \in (a + 1)..(a + b) : p - a \in 1..b /\ new[p] = Visit(source.body[f][p - a])
    BY DEF PushesFunction
  <1>2. source.locals[f] \in Seq(Fun) /\ source.body[f] \in Seq(Id)
    BY <1>1, Types
  <1>3. /\ \A i \in Range(source.body[f]) : source.fun[i] = f /\ source.around[i] = {}
        /\ \A g \in Range(source.locals[f]) : source.within[g] = source.within[f] \cup {f}
    BY <1>1, FunctionTree
  <1>4. ASSUME NEW p \in 1..a
        PROVE  /\ new[p].k = "fundef" /\ new[p].fun \in Fun
               /\ source.within[new[p].fun] = source.within[f] \cup {f}
    <2>1. new[p].k = "fundef" /\ new[p].fun = source.locals[f][p]
      <3>1. new[p] = Fundef(source.locals[f][p])
        BY <1>1
      <3> QED
        BY <3>1 DEF Fundef
    <2>2. source.locals[f][p] \in Fun /\ source.locals[f][p] \in Range(source.locals[f])
      BY <1>2 DEF Range
    <2> QED
      BY <1>3, <2>1, <2>2
  <1>5. ASSUME NEW p \in (a + 1)..(a + b)
        PROVE  /\ new[p].k = "visit" /\ new[p].id \in Id
               /\ source.fun[new[p].id] = f /\ source.around[new[p].id] = {}
    <2>1. p - a \in 1..b /\ new[p] = Visit(source.body[f][p - a])
      BY <1>1
    <2>2. new[p].k = "visit" /\ new[p].id = source.body[f][p - a]
      BY <2>1 DEF Visit
    <2>3. source.body[f][p - a] \in Id /\ source.body[f][p - a] \in Range(source.body[f])
      BY <1>2, <2>1 DEF Range
    <2> QED
      BY <1>3, <2>2, <2>3
  <1> HIDE DEF a, b
  <1>6. ASSUME NEW p \in 1..(Len(new) - 1)
        PROVE  p \in 1..a \/ p \in (a + 1)..(a + b)
    BY <1>1
  <1> QED
    BY <1>4, <1>5, <1>6

LEMMA FunctionLength ==
    ASSUME NEW f, NEW back, NEW new, PushesFunction(new, f, back)
    PROVE  Shift(new) /\ Len(new) \in Nat \ {0} /\ new[Len(new)] = back
  <1>1. \E a, b \in Nat : Len(new) = a + b + 1
    BY DEF PushesFunction
  <1>2. Len(new) \in Nat \ {0}
    BY <1>1
  <1>3. Shift(new) /\ new[Len(new)] = back
    BY DEF PushesFunction
  <1> QED
    BY <1>2, <1>3

LEMMA SomeTask ==
    ASSUME Next
    PROVE  todo # <<>>
  BY DEF Next, CA_EFIfundef, EndFundef, CA_EFIforloop, ForloopAgain, ForloopFirst, ForloopSecond,
         ForloopEnd, CA_EFIvar, AtItem, At

\* No other function starts or ends in a step within one.
LEMMA PlainOld ==
    ASSUME NEW new, Plain(new), NEW q \in 1..Len(todo'), todo'[q].k \in {"fundef", "back"}
    PROVE  \E r \in 2..Len(todo) : q = r + Len(new) - 1 /\ todo'[q] = todo[r]
  <1>1. Shift(new) /\ \A p \in 1..Len(new) : new[p].k \notin {"fundef", "back"}
    BY DEF Plain, Visits, Works
  <1> QED
    BY <1>1, NewOrOld

LEMMA PlainInFun ==
    ASSUME TypeInv, InFun, NEW new, Plain(new)
    PROVE  source.fun[todo[1].id] = fun /\ fun \in Fun /\ fun # Null
  <1>1. todo # <<>> /\ (Visits(todo[1]) \/ Works(todo[1])) /\ todo[1].id \in Id
    BY Lengths DEF Plain
  <1>2. source.fun[todo[1].id] = fun
    BY <1>1, InCurrent DEF OfFun
  <1> QED
    BY <1>1, <1>2, Types DEF TypeInv

LEMMA FunsNestedStep ==
    ASSUME TypeInv, FunsNested, InFun, Next
    PROVE  FunsNested'
  <1>1. source' = source /\ source \in Programs /\ todo \in Seq(Task) /\ DOMAIN todo = 1..Len(todo)
    BY SourceKept DEF TypeInv
  <1>2. todo # <<>>
    BY SomeTask
  <1>3. /\ fun = Null => Len(todo) <= 1
        /\ \A q \in 1..Len(todo) : todo[q].k = "back" =>
             /\ todo[q].fun = Null => q = Len(todo)
             /\ todo[q].fun # Null => todo[q].fun \in source.within[fun]
             /\ \A r \in (q + 1)..Len(todo) : todo[r].k = "back" /\ todo[r].fun # Null =>
                  todo[r].fun \in source.within[todo[q].fun]
    BY <1>1 DEF FunsNested
  <1>4. OfFun(todo[1], fun) /\ Len(todo) \in Nat \ {0}
    BY <1>2, InCurrent
  <1>5. /\ DOMAIN todo' = 1..Len(todo')
        /\ fun' = Null => Len(todo') <= 1
        /\ \A q \in 1..Len(todo') : todo'[q].k = "back" =>
             /\ todo'[q].fun = Null => q = Len(todo')
             /\ todo'[q].fun # Null => todo'[q].fun \in source.within[fun']
             /\ \A r \in (q + 1)..Len(todo') : todo'[r].k = "back" /\ todo'[r].fun # Null =>
                  todo'[r].fun \in source.within[todo'[q].fun]
    <2>1. CASE \E new \in Seq(Task) : Plain(new)
      <3>1. PICK new \in Seq(Task) : Plain(new)
        BY <2>1
      <3>2. /\ fun' = fun /\ fun # Null /\ Len(new) \in Nat /\ Len(todo') = Len(new) + Len(todo) - 1
            /\ DOMAIN todo' = 1..Len(todo')
        BY <3>1, PlainInFun, Lengths DEF Plain
      <3>3. ASSUME NEW q \in 1..Len(todo'), todo'[q].k = "back"
            PROVE  /\ todo'[q].fun = Null => q = Len(todo')
                   /\ todo'[q].fun # Null => todo'[q].fun \in source.within[fun]
        <4>1. PICK p \in 2..Len(todo) : q = p + Len(new) - 1 /\ todo'[q] = todo[p]
          BY <3>1, <3>3, PlainOld
        <4> QED
          BY <1>3, <1>4, <3>2, <3>3, <4>1
      <3>4. ASSUME NEW q \in 1..Len(todo'), todo'[q].k = "back",
                   NEW r \in (q + 1)..Len(todo'), todo'[r].k = "back", todo'[r].fun # Null
            PROVE  todo'[r].fun \in source.within[todo'[q].fun]
        <4>1. PICK p \in 2..Len(todo) : q = p + Len(new) - 1 /\ todo'[q] = todo[p]
          BY <3>1, <3>4, PlainOld
        <4>2. r \in 1..Len(todo')
          OBVIOUS
        <4>3. PICK s \in 2..Len(todo) : r = s + Len(new) - 1 /\ todo'[r] = todo[s]
          BY <3>1, <3>4, <4>2, PlainOld
        <4>4. p \in 1..Len(todo) /\ s \in (p + 1)..Len(todo)
          BY <1>4, <3>2, <4>1, <4>3
        <4> QED
          BY <1>3, <3>4, <4>1, <4>3, <4>4
      <3> QED
        BY <3>2, <3>3, <3>4
    <2>2. CASE EndFundef
      <3>1. todo[1].k = "back" /\ fun' = todo[1].fun /\ Pops
        BY <2>2, FunEnds
      <3>2. Len(<<>>) = 0
        OBVIOUS
      <3>3. /\ todo' \in Seq(Task) /\ Len(todo') = Len(todo) - 1
            /\ \A q \in 1..Len(todo') : q + 1 \in 2..Len(todo) /\ todo'[q] = todo[q + 1]
        BY <1>4, <3>1, <3>2 DEF Pops, Shift
      <3>4. ASSUME NEW q \in 1..Len(todo'), todo'[q].k = "back"
            PROVE  /\ todo'[q].fun = Null => q = Len(todo')
                   /\ todo'[q].fun # Null => todo'[q].fun \in source.within[fun']
                   /\ \A r \in (q + 1)..Len(todo') : todo'[r].k = "back" /\ todo'[r].fun # Null =>
                        todo'[r].fun \in source.within[todo'[q].fun]
        <4>1. q + 1 \in 2..Len(todo) /\ todo'[q] = todo[q + 1] /\ q + 1 \in 1..Len(todo)
          BY <1>4, <3>3, <3>4
        <4>2. todo'[q].fun = Null => q = Len(todo')
          BY <1>3, <1>4, <3>3, <3>4, <4>1
        <4>3. 1 \in 1..Len(todo) /\ q + 1 \in (1 + 1)..Len(todo)
          BY <1>4, <4>1
        <4>4. todo'[q].fun # Null => todo'[q].fun \in source.within[fun']
          BY <1>3, <3>1, <3>4, <4>1, <4>3
        <4>5. ASSUME NEW r \in (q + 1)..Len(todo'), todo'[r].k = "back", todo'[r].fun # Null
              PROVE  todo'[r].fun \in source.within[todo'[q].fun]
          <5>1. r \in 1..Len(todo') /\ r + 1 \in ((q + 1) + 1)..Len(todo)
            BY <1>4, <3>3, <4>1
          <5>2. todo'[r] = todo[r + 1]
            BY <3>3, <5>1
          <5> QED
            BY <1>3, <3>4, <4>1, <4>5, <5>1, <5>2
        <4> QED
          BY <4>2, <4>4, <4>5
      <3>5. fun' = Null => Len(todo') <= 1
        <4>1. 1 \in 1..Len(todo) /\ (1 = Len(todo) => Len(todo') <= 1)
          BY <1>4, <3>3
        <4>2. fun' = Null => 1 = Len(todo)
          BY <1>3, <3>1, <4>1
        <4> QED
          BY <4>1, <4>2
      <3>6. DOMAIN todo' = 1..Len(todo')
        BY <3>3
      <3> QED
        BY <3>4, <3>5, <3>6
    <2>3. CASE CA_EFIfundef
      <3> DEFINE g == todo[1].fun
                 back == Back(fun, counter)
      <3>1. todo[1].k = "fundef" /\ fun' = g /\ g \in Fun
        BY <2>3, FunVisits
      <3>2. PICK new \in Seq(Task) : PushesFunction(new, g, back)
        BY <2>3, FunctionPushed
      <3>3. back.k = "back" /\ back.fun = fun
        BY DEF Back
      <3> HIDE DEF g, back
      <3>4. /\ Shift(new) /\ new[Len(new)] = back
            /\ Len(new) \in Nat \ {0} /\ Len(todo') = Len(new) + Len(todo) - 1
            /\ DOMAIN todo' = 1..Len(todo')
        BY <3>2, FunctionLength, Lengths
      <3>5. \A p \in 1..(Len(new) - 1) : new[p].k # "back"
        BY <1>1, <3>2, FunctionPushes
      <3>6. fun # Null => fun \in source.within[g] /\ source.within[fun] \subseteq source.within[g]
        BY <1>4, <3>1 DEF OfFun, g
      <3>7. g # Null
        BY <1>1, <3>1, Types
      <3>8. ASSUME NEW q \in 1..Len(todo'), todo'[q].k = "back"
            PROVE  \/ q = Len(new) /\ todo'[q] = back
                   \/ \E p \in 2..Len(todo) : q = p + Len(new) - 1 /\ todo'[q] = todo[p] /\ fun # Null
        <4>1. CASE q \in 1..Len(new) /\ todo'[q] = new[q]
          BY <3>4, <3>5, <3>8, <4>1
        <4>2. CASE \E p \in 2..Len(todo) : q = p + Len(new) - 1 /\ todo'[q] = todo[p]
          BY <1>3, <1>4, <4>2
        <4> QED
          BY <3>4, <4>1, <4>2, NewOrOld
      <3>9. ASSUME NEW q \in 1..Len(todo'), todo'[q].k = "back",
                   NEW r \in (q + 1)..Len(todo'), todo'[r].k = "back", todo'[r].fun # Null
            PROVE  todo'[r].fun \in source.within[todo'[q].fun]
        <4>1. r \in 1..Len(todo') /\ (q = Len(new) => r # Len(new)) /\ q < r
          BY <3>4
        <4>2. PICK s \in 2..Len(todo) : r = s + Len(new) - 1 /\ todo'[r] = todo[s] /\ fun # Null
          <5>1. r = Len(new) => q \in 1..(Len(new) - 1)
            BY <3>4, <4>1
          <5>2. q \in 1..(Len(new) - 1) => todo'[q] = new[q]
            BY <3>4 DEF Shift
          <5>3. r # Len(new)
            BY <3>5, <3>9, <5>1, <5>2
          <5> QED
            BY <3>8, <3>9, <4>1, <5>3
        <4>3. todo[s].fun \in source.within[fun]
          BY <1>3, <1>4, <3>9, <4>2
        <4>4. CASE q = Len(new) /\ todo'[q] = back
          BY <3>3, <4>2, <4>3, <4>4
        <4>5. CASE \E p \in 2..Len(todo) : q = p + Len(new) - 1 /\ todo'[q] = todo[p]
          <5>1. PICK p \in 2..Len(todo) : q = p + Len(new) - 1 /\ todo'[q] = todo[p]
            BY <4>5
          <5>2. p \in 1..Len(todo) /\ s \in (p + 1)..Len(todo)
            BY <1>4, <3>4, <4>1, <4>2, <5>1
          <5> QED
            BY <1>3, <3>9, <4>2, <5>1, <5>2
        <4> QED
          BY <3>8, <3>9, <4>4, <4>5
      <3>10. ASSUME NEW q \in 1..Len(todo'), todo'[q].k = "back"
             PROVE  /\ todo'[q].fun = Null => q = Len(todo')
                    /\ todo'[q].fun # Null => todo'[q].fun \in source.within[g]
        <4>1. CASE q = Len(new) /\ todo'[q] = back
          BY <1>3, <1>4, <3>3, <3>4, <3>6, <4>1
        <4>2. CASE \E p \in 2..Len(todo) : q = p + Len(new) - 1 /\ todo'[q] = todo[p] /\ fun # Null
          <5>1. PICK p \in 2..Len(todo) : q = p + Len(new) - 1 /\ todo'[q] = todo[p] /\ fun # Null
            BY <4>2
          <5>2. p \in 1..Len(todo) /\ todo[p].k = "back"
            BY <1>4, <3>10, <5>1
          <5>3. todo[p].fun = Null => p = Len(todo)
            BY <1>3, <5>2
          <5>4. todo[p].fun # Null => todo[p].fun \in source.within[fun]
            BY <1>3, <5>2
          <5>5. p = Len(todo) => q = Len(todo')
            BY <1>4, <3>4, <5>1
          <5> QED
            BY <3>6, <5>1, <5>3, <5>4, <5>5
        <4> QED
          BY <3>8, <3>10, <4>1, <4>2
      <3> QED
        BY <3>1, <3>4, <3>7, <3>9, <3>10
    <2> QED
      BY <2>1, <2>2, <2>3, PlainSteps
  <1> QED
    BY <1>1, <1>5 DEF FunsNested

LEMMA InFunStep ==
    ASSUME TypeInv, InFun, Next
    PROVE  InFun'
  <1>1. source' = source /\ source \in Programs /\ Len(todo) \in Nat /\ DOMAIN todo = 1..Len(todo)
    BY SourceKept DEF TypeInv
  <1>2. OfFun(todo[1], fun) /\ Len(todo) \in Nat \ {0}
    BY SomeTask, InCurrent
  <1>3. /\ \A q \in 1..Len(todo) : (\A s \in 1..(q - 1) : todo[s].k # "back") => OfFun(todo[q], fun)
        /\ \A q, r \in 1..Len(todo) :
             q < r /\ todo[q].k = "back" /\ (\A s \in (q + 1)..(r - 1) : todo[s].k # "back") =>
               OfFun(todo[r], todo[q].fun)
    BY <1>1 DEF InFun
  <1>4. /\ DOMAIN todo' = 1..Len(todo')
        /\ \A q \in 1..Len(todo') :
             (\A s \in 1..(q - 1) : todo'[s].k # "back") => OfFun(todo'[q], fun')
        /\ \A q, r \in 1..Len(todo') :
             q < r /\ todo'[q].k = "back" /\ (\A s \in (q + 1)..(r - 1) : todo'[s].k # "back") =>
               OfFun(todo'[r], todo'[q].fun)
    <2>1. ASSUME NEW new, Shift(new), NEW p \in 2..Len(todo), NEW t \in 2..Len(todo),
                 NEW q, q = p + Len(new) - 1, NEW r, r = t + Len(new) - 1,
                 \A s \in (q + 1)..(r - 1) : todo'[s].k # "back"
          PROVE  \A s \in (p + 1)..(t - 1) : todo[s].k # "back"
      <3> SUFFICES ASSUME NEW s \in (p + 1)..(t - 1)
                   PROVE  todo[s].k # "back"
        OBVIOUS
      <3>1. s \in 2..Len(todo)
        BY <1>1
      <3>2. PICK n \in 1..Len(todo') : n = s + Len(new) - 1 /\ todo'[n] = todo[s]
        BY <2>1, <3>1, Moved
      <3>3. n \in (q + 1)..(r - 1)
        BY SMTT(20), <2>1, <3>2, Lengths
      <3> QED
        BY <2>1, <3>2, <3>3
    <2>2. ASSUME NEW new, Shift(new), NEW r \in 2..Len(todo),
                 \A s \in (Len(new) + 1)..(r + Len(new) - 1 - 1) : todo'[s].k # "back"
          PROVE  \A s \in 2..(r - 1) : todo[s].k # "back"
      <3> SUFFICES ASSUME NEW s \in 2..(r - 1)
                   PROVE  todo[s].k # "back"
        OBVIOUS
      <3>1. s \in 2..Len(todo)
        BY <1>1
      <3>2. PICK p \in 1..Len(todo') : p = s + Len(new) - 1 /\ todo'[p] = todo[s]
        BY <2>2, <3>1, Moved
      <3>3. p \in (Len(new) + 1)..(r + Len(new) - 1 - 1)
        BY <2>2, <3>2, Lengths
      <3> QED
        BY <2>2, <3>2, <3>3
    <2>3. CASE \E new \in Seq(Task) : Plain(new)
      <3>1. PICK new \in Seq(Task) : Plain(new)
        BY <2>3
      <3>2. /\ fun' = fun /\ fun # Null /\ Shift(new) /\ DOMAIN todo' = 1..Len(todo')
            /\ Len(new) \in Nat /\ todo[1].k # "back" /\ source.fun[todo[1].id] = fun
            /\ \A p \in 1..Len(new) : (Visits(new[p]) \/ Works(new[p])) /\ source.fun[new[p].id] = fun
        BY <3>1, PlainInFun, Lengths DEF Plain, Visits, Works
      <3>3. \A p \in 1..Len(new) : OfFun(new[p], fun)
        BY <3>2 DEF OfFun, Visits, Works
      <3>4. ASSUME NEW q \in 1..Len(todo'), \A s \in 1..(q - 1) : todo'[s].k # "back"
            PROVE  OfFun(todo'[q], fun)
        <4>1. CASE q \in 1..Len(new) /\ todo'[q] = new[q]
          BY <3>3, <4>1
        <4>2. CASE \E r \in 2..Len(todo) : q = r + Len(new) - 1 /\ todo'[q] = todo[r]
          <5>1. PICK r \in 2..Len(todo) : q = r + Len(new) - 1 /\ todo'[q] = todo[r]
            BY <4>2
          <5>2. \A s \in (Len(new) + 1)..(r + Len(new) - 1 - 1) : todo'[s].k # "back"
            BY <3>2, <3>4, <5>1
          <5>3. \A s \in 2..(r - 1) : todo[s].k # "back"
            BY <2>2, <3>2, <5>2
          <5>4. \A s \in 1..(r - 1) : todo[s].k # "back"
            BY <3>2, <5>3
          <5> QED
            BY <1>3, <5>1, <5>4
        <4> QED
          BY <3>2, <4>1, <4>2, NewOrOld
      <3>5. ASSUME NEW q \in 1..Len(todo'), NEW r \in 1..Len(todo'), q < r, todo'[q].k = "back",
                   \A s \in (q + 1)..(r - 1) : todo'[s].k # "back"
            PROVE  OfFun(todo'[r], todo'[q].fun)
        <4>1. PICK p \in 2..Len(todo) : q = p + Len(new) - 1 /\ todo'[q] = todo[p]
          BY <3>1, <3>5, PlainOld
        <4>2. r \notin 1..Len(new)
          BY <3>2, <3>5, <4>1
        <4>3. PICK t \in 2..Len(todo) : r = t + Len(new) - 1 /\ todo'[r] = todo[t]
          BY <3>2, <4>2, NewOrOld
        <4>4. p < t /\ p \in 1..Len(todo) /\ t \in 1..Len(todo)
          BY <3>2, <3>5, <4>1, <4>3
        <4>5. \A s \in (p + 1)..(t - 1) : todo[s].k # "back"
          <5>1. ASSUME NEW s \in (p + 1)..(t - 1)
                PROVE  s \in 2..Len(todo) /\ s + Len(new) - 1 \in (q + 1)..(r - 1)
            BY <3>2, <3>5, <4>1, <4>3
          <5>2. \A s \in 2..Len(todo) : todo'[s + Len(new) - 1] = todo[s]
            BY <3>2 DEF Shift
          <5> QED
            BY <3>5, <5>1, <5>2
        <4> QED
          BY <1>3, <3>5, <4>1, <4>3, <4>4, <4>5
      <3> QED
        BY <3>2, <3>4, <3>5
    <2>4. CASE EndFundef
      <3>1. todo[1].k = "back" /\ fun' = todo[1].fun /\ Pops
        BY <2>4, FunEnds
      <3>2. Len(<<>>) = 0
        OBVIOUS
      <3>3. /\ DOMAIN todo' = 1..Len(todo') /\ Len(todo') = Len(todo) - 1
            /\ \A q \in 1..Len(todo') : q + 1 \in 2..Len(todo) /\ todo'[q] = todo[q + 1]
        BY <1>2, <3>1, <3>2 DEF Pops, Shift
      <3>4. ASSUME NEW q \in 1..Len(todo'), \A s \in 1..(q - 1) : todo'[s].k # "back"
            PROVE  OfFun(todo'[q], todo[1].fun)
        <4>1. \A s \in 2..(q + 1 - 1) : todo[s].k # "back"
          <5> SUFFICES ASSUME NEW s \in 2..(q + 1 - 1)
                       PROVE  todo[s].k # "back"
            OBVIOUS
          <5>1. s - 1 \in 1..(q - 1) /\ s - 1 \in 1..Len(todo') /\ (s - 1) + 1 = s
            BY <1>2, <3>3
          <5> QED
            BY <3>3, <3>4, <5>1
        <4>2. q + 1 \in 1..Len(todo) /\ 1 < q + 1 /\ 1 \in 1..Len(todo) /\ 1 + 1 = 2
          BY <1>2, <3>3
        <4> QED
          BY <1>3, <3>1, <3>3, <4>1, <4>2
      <3>5. ASSUME NEW q \in 1..Len(todo'), NEW r \in 1..Len(todo'), q < r, todo'[q].k = "back",
                   \A s \in (q + 1)..(r - 1) : todo'[s].k # "back"
            PROVE  OfFun(todo'[r], todo'[q].fun)
        <4>1. \A s \in (q + 1 + 1)..(r + 1 - 1) : todo[s].k # "back"
          <5> SUFFICES ASSUME NEW s \in (q + 1 + 1)..(r + 1 - 1)
                       PROVE  todo[s].k # "back"
            OBVIOUS
          <5>1. s - 1 \in (q + 1)..(r - 1) /\ s - 1 \in 1..Len(todo') /\ (s - 1) + 1 = s
            BY <1>2, <3>3
          <5> QED
            BY <3>3, <3>5, <5>1
        <4>2. q + 1 \in 1..Len(todo) /\ r + 1 \in 1..Len(todo) /\ q + 1 < r + 1
          BY <1>2, <3>3, <3>5
        <4> QED
          BY <1>3, <3>3, <3>5, <4>1, <4>2
      <3> QED
        BY <3>1, <3>3, <3>4, <3>5
    <2>5. CASE CA_EFIfundef
      <3> DEFINE g == todo[1].fun
                 back == Back(fun, counter)
      <3>1. todo[1].k = "fundef" /\ fun' = g /\ g \in Fun
        BY <2>5, FunVisits
      <3>2. PICK new \in Seq(Task) : PushesFunction(new, g, back)
        BY <2>5, FunctionPushed
      <3>3. back.k = "back" /\ back.fun = fun
        BY DEF Back
      <3> HIDE DEF g, back
      <3>4. /\ Shift(new) /\ new[Len(new)] = back
            /\ Len(new) \in Nat \ {0} /\ Len(todo') = Len(new) + Len(todo) - 1
            /\ DOMAIN todo' = 1..Len(todo')
        BY <3>2, FunctionLength, Lengths
      <3>5. \A p \in 1..(Len(new) - 1) : new[p].k # "back" /\ OfFun(new[p], g)
        BY <1>1, <3>2, FunctionPushes DEF OfFun, Visits, Works
      <3>6. todo'[Len(new)] = back /\ Len(new) \in 1..Len(todo')
        <4>1. Len(new) \in 1..Len(new)
          BY <3>4
        <4>2. todo'[Len(new)] = new[Len(new)]
          BY <3>4, <4>1 DEF Shift
        <4> QED
          BY <1>2, <3>4, <4>2
      <3>7. ASSUME NEW q \in 1..Len(todo'), \A s \in 1..(q - 1) : todo'[s].k # "back"
            PROVE  OfFun(todo'[q], g)
        <4>1. q \in 1..Len(new)
          BY <3>3, <3>4, <3>6, <3>7
        <4>2. todo'[q] = new[q]
          BY <3>4, <4>1 DEF Shift
        <4>3. OfFun(back, g)
          BY <3>3 DEF OfFun, Visits, Works
        <4> QED
          BY <3>4, <3>5, <4>1, <4>2, <4>3
      <3>8. ASSUME NEW q \in 1..Len(todo'), NEW r \in 1..Len(todo'), q < r, todo'[q].k = "back",
                   \A s \in (q + 1)..(r - 1) : todo'[s].k # "back"
            PROVE  OfFun(todo'[r], todo'[q].fun)
        <4>1. q \notin 1..(Len(new) - 1)
          <5>1. q \in 1..(Len(new) - 1) => todo'[q] = new[q]
            BY <3>4 DEF Shift
          <5> QED
            BY <3>5, <3>8, <5>1
        <4>2. r \notin 1..Len(new)
          BY <3>4, <3>8, <4>1
        <4>3. PICK t \in 2..Len(todo) : r = t + Len(new) - 1 /\ todo'[r] = todo[t]
          BY <3>4, <4>2, NewOrOld
        <4>4. CASE q = Len(new)
          <5>1. \A s \in (Len(new) + 1)..(t + Len(new) - 1 - 1) : todo'[s].k # "back"
            BY <3>8, <4>3, <4>4
          <5>2. \A s \in 2..(t - 1) : todo[s].k # "back"
            BY <2>2, <3>4, <5>1
          <5>3. \A s \in 1..(t - 1) : todo[s].k # "back"
            BY <3>1, <5>2
          <5> QED
            BY <1>3, <3>3, <3>6, <4>3, <4>4, <5>3
        <4>5. CASE q # Len(new)
          <5>1. q \notin 1..Len(new)
            BY <3>4, <4>1, <4>5
          <5>2. PICK p \in 2..Len(todo) : q = p + Len(new) - 1 /\ todo'[q] = todo[p]
            BY <3>4, <5>1, NewOrOld
          <5>3. p < t /\ p \in 1..Len(todo) /\ t \in 1..Len(todo)
            BY <3>4, <3>8, <4>3, <5>2
          <5>4. \A s \in (p + 1)..(t - 1) : todo[s].k # "back"
            BY <2>1, <3>4, <3>8, <4>3, <5>2
          <5> QED
            BY <1>3, <3>8, <4>3, <5>2, <5>3, <5>4
        <4> QED
          BY <4>4, <4>5
      <3> QED
        BY <3>1, <3>4, <3>7, <3>8
    <2> QED
      BY <2>3, <2>4, <2>5, PlainSteps
  <1> QED
    BY <1>1, <1>4 DEF InFun, OfFun, Visits, Works

---------------------------------------------------------------------------
(* What is still due                                                       *)

\* What a step covers was covered by the task it takes away, as far as it is
\* not renamed yet.
StaysDue(new) ==
  /\ Shift(new)
  /\ \A l \in Loop :
       /\ ~Renamed(l)' => ~Renamed(l)
       /\ ~Renamed(l) /\ Renamed(l)' => Covers(todo[1], l) /\ todo[1].k = "enter"
       /\ ~Renamed(l)' /\ Covers(todo[1], l) => \E p \in 1..Len(new) : Covers(new[p], l)
       /\ \A p \in 1..Len(new) :
            /\ ~Renamed(l)' /\ Covers(new[p], l) =>
                 Covers(todo[1], l) /\ \A q \in 1..Len(new) : Covers(new[q], l) => p = q
            /\ new[p].k = "fundef" /\ Covers(new[p], l) => todo[1].k = "fundef" /\ Covers(todo[1], l)

LEMMA ExpandsStaysDue ==
    ASSUME TypeInv, NEW new, Expands(new)
    PROVE  StaysDue(new)
  <1>1. \A l \in Loop : l \in Id /\ (Renamed(l)' <=> Renamed(l))
    BY DEF Expands, Renamed, Loop
  <1>2. \A p \in 1..Len(new) : new[p].k # "fundef"
    BY DEF Expands, Visits
  <1> QED
    BY <1>1, <1>2 DEF StaysDue, Expands

LEMMA PopsStaysDue ==
    ASSUME Pops, todo[1].k \in {"back", "clear"}, name' = name
    PROVE  StaysDue(<<>>)
  <1>1. Len(<<>>) = 0 /\ \A l \in Loop : ~Covers(todo[1], l) /\ (Renamed(l)' <=> Renamed(l))
    BY DEF Covers, Visits, Renamed
  <1> QED
    BY <1>1 DEF StaysDue, Pops

\* The tasks of a block that is pushed
LEMMA PushedBlock ==
    ASSUME source \in Programs, NEW new, NEW l, NEW last, PushesBlock(new, l, last)
    PROVE  /\ Len(new) \in Nat \ {0} /\ new[Len(new)] = last
           /\ \A p \in 1..(Len(new) - 1) :
                /\ new[p].k = "visit" /\ new[p].id \in Id /\ source.fun[new[p].id] = source.fun[l]
                /\ source.around[new[p].id] = source.around[l] \cup {l}
           /\ \A i \in Id : l \in source.around[i] => \E p \in 1..(Len(new) - 1) : Covers(new[p], i)
           /\ \A m \in Loop : \A p, q \in 1..(Len(new) - 1) :
                Covers(new[p], m) => l \in source.around[m] /\ (Covers(new[q], m) => p = q)
  <1> DEFINE b == source.block[l]
  <1>1. /\ l \in Loop /\ Len(new) \in Nat /\ Len(new) = Len(b) + 1 /\ new[Len(new)] = last
        /\ \A p \in 1..(Len(new) - 1) : new[p] = Visit(b[p])
    BY DEF PushesBlock, Shift
  <1>2. b = source.block[l] /\ b \in Seq(Id)
    BY <1>1, Types DEF Loop
  <1> HIDE DEF b
  <1>3. Len(b) \in Nat /\ Len(new) - 1 = Len(b)
    BY <1>1, <1>2
  <1>4. \A p \in 1..Len(b) : new[p] = Visit(b[p])
    BY <1>1, <1>3
  <1>5. /\ \A p \in 1..Len(b) :
             /\ new[p].k = "visit" /\ new[p].id \in Id /\ source.fun[new[p].id] = source.fun[l]
             /\ source.around[new[p].id] = source.around[l] \cup {l}
        /\ \A i \in Id : l \in source.around[i] => \E p \in 1..Len(b) : Covers(new[p], i)
        /\ \A m \in Loop : \A p, q \in 1..Len(b) :
             Covers(new[p], m) => l \in source.around[m] /\ (Covers(new[q], m) => p = q)
    BY <1>1, <1>2, <1>4, BlockCovers
  <1>6. Len(new) \in Nat \ {0}
    BY <1>1, <1>3
  <1> QED
    BY <1>1, <1>3, <1>5, <1>6

LEMMA FirstStaysDue ==
    ASSUME TypeInv, NEW new, FirstVisited(new)
    PROVE  StaysDue(new)
  <1> DEFINE l == todo[1].id
             last == Again(l, name[l], NewName(name[l]))
  <1>1. /\ source \in Programs /\ l \in Loop /\ todo[1].k = "enter" /\ ~Renamed(l)
        /\ PushesBlock(new, l, last) /\ name \in [Id -> Name]
        /\ name' = [name EXCEPT ![l] = NewName(name[l])]
    BY DEF FirstVisited, TypeInv
  <1>2. last.k = "again"
    BY DEF Again
  <1> HIDE DEF last
  <1>3. /\ Len(new) \in Nat \ {0} /\ new[Len(new)] = last
        /\ \A p \in 1..(Len(new) - 1) : new[p].k = "visit"
        /\ \A i \in Id : l \in source.around[i] => \E p \in 1..(Len(new) - 1) : Covers(new[p], i)
        /\ \A m \in Loop : \A p, q \in 1..(Len(new) - 1) :
             Covers(new[p], m) => l \in source.around[m] /\ (Covers(new[q], m) => p = q)
    BY <1>1, PushedBlock
  <1>4. \A m \in Loop : Covers(todo[1], m) <=> (m = l \/ l \in source.around[m])
    BY <1>1 DEF Covers, Visits
  <1>5. \A m \in Loop : Renamed(m)' <=> (m = l \/ Renamed(m))
    BY <1>1 DEF Renamed, NewName, Loop
  <1>6. \A m \in Loop : ~Covers(new[Len(new)], m)
    BY <1>2, <1>3 DEF Covers, Visits
  <1>7. \A p \in 1..Len(new) : p # Len(new) => p \in 1..(Len(new) - 1)
    BY <1>3
  <1>8. \A p \in 1..(Len(new) - 1) : p \in 1..Len(new)
    BY <1>3
  <1>9. \A m \in Loop : m \in Id
    BY DEF Loop
  <1>10. Shift(new)
    BY <1>1 DEF PushesBlock
  <1> HIDE DEF l
  <1>11. ASSUME NEW m \in Loop, NEW p \in 1..Len(new), Covers(new[p], m)
         PROVE  Covers(todo[1], m) /\ \A q \in 1..Len(new) : Covers(new[q], m) => p = q
    BY <1>3, <1>4, <1>6, <1>7, <1>11
  <1>12. ASSUME NEW m \in Loop, ~Renamed(m)', Covers(todo[1], m)
         PROVE  \E p \in 1..Len(new) : Covers(new[p], m)
    BY <1>3, <1>4, <1>5, <1>8, <1>9, <1>12
  <1>13. \A p \in 1..Len(new) : new[p].k # "fundef"
    BY <1>2, <1>3, <1>7
  <1> QED
    BY <1>1, <1>4, <1>5, <1>10, <1>11, <1>12, <1>13 DEF StaysDue

\* The second visit of a block comes when its loops are renamed.
LEMMA SecondStaysDue ==
    ASSUME TypeInv, FirstVisit, NEW new, SecondVisited(new)
    PROVE  StaysDue(new)
  <1> DEFINE l == todo[1].id
             last == Clear(l)
  <1>1. /\ source \in Programs /\ l \in Loop /\ todo[1].k = "again"
        /\ PushesBlock(new, l, last) /\ name' = name
    BY DEF SecondVisited, TypeInv
  <1>2. last.k = "clear"
    BY DEF Clear
  <1>3. 1 \in DOMAIN todo /\ \A r \in 1..(1 - 1) : FALSE
    BY <1>1 DEF PushesBlock, Shift, TypeInv
  <1>4. \A m \in Loop : l \in source.around[m] => Renamed(m)
    BY <1>1, <1>3 DEF FirstVisit
  <1> HIDE DEF last
  <1>5. /\ Len(new) \in Nat \ {0} /\ new[Len(new)] = last
        /\ \A p \in 1..(Len(new) - 1) : new[p].k = "visit"
        /\ \A m \in Loop : \A p \in 1..(Len(new) - 1) : Covers(new[p], m) => l \in source.around[m]
    BY <1>1, PushedBlock
  <1>6. \A m \in Loop : ~Covers(todo[1], m) /\ ~Covers(new[Len(new)], m)
    BY <1>1, <1>2, <1>5 DEF Covers, Visits
  <1>7. \A m \in Loop : Renamed(m)' <=> Renamed(m)
    BY <1>1 DEF Renamed
  <1>8. \A p \in 1..Len(new) : p # Len(new) => p \in 1..(Len(new) - 1)
    BY <1>5
  <1>9. Shift(new)
    BY <1>1 DEF PushesBlock
  <1>10. \A m \in Loop : \A p \in 1..Len(new) : Covers(new[p], m) => Renamed(m)
    BY <1>4, <1>5, <1>6, <1>8
  <1>11. \A p \in 1..Len(new) : new[p].k # "fundef"
    BY <1>2, <1>5, <1>8
  <1> QED
    BY <1>6, <1>7, <1>9, <1>10, <1>11 DEF StaysDue

LEMMA FunStaysDue ==
    ASSUME TypeInv, NEW g, NEW back, NEW new, PushesFunction(new, g, back), back.k = "back",
           todo[1].k = "fundef", todo[1].fun = g, name' = name
    PROVE  StaysDue(new)
  <1> DEFINE a == Len(source.locals[g])
             b == Len(source.body[g])
  <1>1. /\ g \in Fun /\ a \in Nat /\ b \in Nat /\ Len(new) = a + b + 1 /\ new[Len(new)] = back
        /\ \A p \in 1..a : new[p] = Fundef(source.locals[g][p])
        /\ \A p \in (a + 1)..(a + b) : p - a \in 1..b /\ new[p] = Visit(source.body[g][p - a])
        /\ Shift(new)
    BY DEF PushesFunction
  <1>2. source \in Programs
    BY DEF TypeInv
  <1>3. source.locals[g] \in Seq(Fun) /\ source.body[g] \in Seq(Id)
    BY <1>1, <1>2, Types
  <1>4. /\ \A i \in Range(source.body[g]) : source.fun[i] = g /\ source.around[i] = {}
        /\ \A h \in Range(source.locals[g]) : source.within[h] = source.within[g] \cup {g}
        /\ IsInjective(source.locals[g]) /\ IsInjective(source.body[g])
    BY <1>1, <1>2, FunctionTree
  <1>5. ASSUME NEW p \in 1..a
        PROVE  /\ source.locals[g][p] \in Fun
               /\ source.within[source.locals[g][p]] = source.within[g] \cup {g}
    <2>1. source.locals[g][p] \in Fun /\ source.locals[g][p] \in Range(source.locals[g])
      BY <1>3 DEF Range
    <2> QED
      BY <1>4, <2>1
  <1>6. \A m \in Loop : m \in Id /\ source.fun[m] \in Fun
    BY <1>2, Types DEF Loop
  <1>7. \A m \in Loop : Covers(todo[1], m) <=> (g = source.fun[m] \/ g \in source.within[source.fun[m]])
    BY DEF Covers, Visits
  <1>8. ASSUME NEW p \in 1..a, NEW m \in Loop
        PROVE  Covers(new[p], m) <=> (\/ source.locals[g][p] = source.fun[m]
                                      \/ source.locals[g][p] \in source.within[source.fun[m]])
    <2> DEFINE h == source.locals[g][p]
    <2>1. new[p] = Fundef(h)
      BY <1>1
    <2> HIDE DEF h
    <2>2. new[p].k = "fundef" /\ new[p].fun = h
      BY <2>1 DEF Fundef
    <2>3. Covers(new[p], m) <=> (h = source.fun[m] \/ h \in source.within[source.fun[m]])
      BY <2>2 DEF Covers, Visits
    <2> QED
      BY <2>3 DEF h
  <1>9. ASSUME NEW p \in (a + 1)..(a + b), NEW m \in Loop, Covers(new[p], m)
        PROVE  source.fun[m] = g
    <2> DEFINE i == source.body[g][p - a]
    <2>1. p - a \in 1..b /\ new[p] = Visit(i)
      BY <1>1
    <2>2. i \in Id /\ i \in Range(source.body[g])
      BY <1>3, <2>1 DEF Range
    <2> HIDE DEF i
    <2>3. source.kind[i] = "for" => m \notin Header(source, i)
      BY <1>2, <2>2, Parts DEF Loop
    <2>4. i = m \/ i \in source.around[m]
      BY <1>9, <2>1, <2>3 DEF Covers, Visits, Visit
    <2> QED
      BY <1>2, <1>4, <1>6, <2>2, <2>4, ItemTree
  <1>10. ASSUME NEW p \in 1..a, NEW m \in Loop, Covers(new[p], m)
         PROVE  g \in source.within[source.fun[m]] /\ source.fun[m] # g
    <2> DEFINE h == source.locals[g][p]
               F == source.fun[m]
    <2>1. h \in Fun /\ F \in Fun /\ g \in source.within[h] /\ (h = F \/ h \in source.within[F])
      BY <1>5, <1>6, <1>8, <1>10
    <2> HIDE DEF h, F
    <2>2. h \in source.within[F] => source.within[h] \subseteq source.within[F]
      BY <1>2, <2>1, FunApart
    <2>3. g \in source.within[F]
      BY <2>1, <2>2
    <2>4. F # g
      BY <1>2, <2>1, <2>3, FunApart
    <2> QED
      BY <2>3, <2>4 DEF F
  <1>11. ASSUME NEW p \in 1..a, NEW q \in 1..a, NEW m \in Loop, Covers(new[p], m), Covers(new[q], m)
         PROVE  p = q
    <2> DEFINE h == source.locals[g][p]
               k == source.locals[g][q]
               F == source.fun[m]
    <2>1. /\ h \in Fun /\ k \in Fun /\ F \in Fun
          /\ source.within[h] = source.within[g] \cup {g} /\ source.within[k] = source.within[g] \cup {g}
          /\ h = F \/ h \in source.within[F]
          /\ k = F \/ k \in source.within[F]
      BY <1>5, <1>6, <1>8, <1>11
    <2>2. p \in DOMAIN source.locals[g] /\ q \in DOMAIN source.locals[g]
      BY <1>3
    <2>3. h = k => p = q
      BY <1>4, <2>2 DEF IsInjective
    <2> HIDE DEF h, k, F
    <2>4. h \notin source.within[h] /\ k \notin source.within[k]
      BY <1>2, <2>1, FunApart
    <2>5. h = k \/ h \in source.within[k] \/ k \in source.within[h]
      BY <1>2, <2>1, FunctionTree
    <2> QED
      BY <2>1, <2>3, <2>4, <2>5
  <1>12. ASSUME NEW p \in (a + 1)..(a + b), NEW q \in (a + 1)..(a + b), NEW m \in Loop,
                Covers(new[p], m), Covers(new[q], m)
         PROVE  p = q
    <2> DEFINE s == source.body[g]
    <2>1. /\ p - a \in 1..b /\ new[p] = Visit(s[p - a])
          /\ q - a \in 1..b /\ new[q] = Visit(s[q - a])
      BY <1>1
    <2>2. s \in Seq(Id) /\ IsInjective(s) /\ {} \in SUBSET Id /\ \A j \in Range(s) : source.around[j] = {}
      BY <1>3, <1>4
    <2>3. Covers(Visit(s[p - a]), m) /\ Covers(Visit(s[q - a]), m) /\ Len(s) = b
      BY <1>12, <2>1
    <2> HIDE DEF s
    <2>4. p - a = q - a
      BY <1>2, <2>1, <2>2, <2>3, Siblings
    <2> QED
      BY <1>1, <2>4
  <1> HIDE DEF a, b
  <1>0. /\ \A p \in 1..a : p \in 1..Len(new)
        /\ \A p \in 1..b : p + a \in (a + 1)..(a + b) /\ p + a - a = p /\ p + a \in 1..Len(new)
    BY <1>1
  <1>13. ASSUME NEW m \in Loop, g = source.fun[m] \/ g \in source.within[source.fun[m]]
         PROVE  \E p \in 1..Len(new) : Covers(new[p], m)
    <2>1. CASE g = source.fun[m]
      <3>1. Holds(source, source.body[g], m)
        BY <1>2, <1>6, <2>1, ItemTree
      <3>2. PICK p \in 1..b : Covers(Visit(source.body[g][p]), m)
        BY <1>2, <1>3, <1>6, <3>1, HeldCovered DEF b
      <3>3. p + a \in (a + 1)..(a + b) /\ p + a - a = p /\ p + a \in 1..Len(new)
        BY <1>0
      <3>4. new[p + a] = Visit(source.body[g][p])
        BY <1>1, <3>3
      <3> QED
        BY <3>2, <3>3, <3>4
    <2>2. CASE g \in source.within[source.fun[m]]
      <3>1. PICK h \in Range(source.locals[g]) :
               h = source.fun[m] \/ h \in source.within[source.fun[m]]
        BY <1>2, <1>6, <2>2, FunctionTree
      <3>2. PICK p \in 1..a : h = source.locals[g][p]
        BY <1>3 DEF Range, a
      <3>3. p \in 1..Len(new)
        BY <1>0
      <3> QED
        BY <1>8, <3>1, <3>2, <3>3
    <2> QED
      BY <1>13, <2>1, <2>2
  <1>14. \A m \in Loop : ~Covers(new[Len(new)], m)
    BY <1>1 DEF Covers, Visits
  <1>15. \A p \in 1..Len(new) : p = Len(new) \/ p \in 1..a \/ p \in (a + 1)..(a + b)
    BY <1>1
  <1>16. ASSUME NEW m \in Loop, NEW p \in 1..Len(new), Covers(new[p], m)
         PROVE  Covers(todo[1], m) /\ \A q \in 1..Len(new) : Covers(new[q], m) => p = q
    BY <1>7, <1>9, <1>10, <1>11, <1>12, <1>14, <1>15, <1>16
  <1>17. \A m \in Loop : Renamed(m)' <=> Renamed(m)
    BY DEF Renamed
  <1> QED
    BY <1>1, <1>7, <1>13, <1>16, <1>17 DEF StaysDue

LEMMA StayDue ==
    ASSUME TypeInv, FirstVisit, Next
    PROVE  \E new \in Seq(Task) : StaysDue(new)
  <1>1. <<>> \in Seq(Task)
    OBVIOUS
  <1>2. CASE CA_EFIfundef
    BY <1>2, FunctionPushed, FunVisits, FunStaysDue DEF Back
  <1>3. CASE EndFundef
    BY <1>1, <1>3, FunEnds, PopsStaysDue
  <1>4. CASE ForloopEnd
    BY <1>1, <1>4, LoopEnds, PopsStaysDue
  <1> QED
    BY <1>2, <1>3, <1>4, ExpandsStaysDue, FirstStaysDue, SecondStaysDue, Steps

\* Where a task that covers a loop has gone, and where it comes from
LEMMA DueMoved ==
    ASSUME source \in Programs, source' = source, NEW new, StaysDue(new),
           NEW l \in Loop, ~Renamed(l)'
    PROVE  /\ \A q \in 1..Len(todo) : Covers(todo[q], l) =>
                \E p \in 1..Len(todo') : Covers(todo'[p], l)
           /\ \A p \in 1..Len(todo') : Covers(todo'[p], l) =>
                \/ p \in 1..Len(new) /\ todo'[p] = new[p] /\ Covers(new[p], l) /\ Covers(todo[1], l)
                \/ \E q \in 2..Len(todo) :
                     p = q + Len(new) - 1 /\ todo'[p] = todo[q] /\ Covers(todo[q], l)
  <1>1. Shift(new) /\ Len(new) \in Nat /\ Len(todo) \in Nat \ {0} /\ Len(todo') \in Nat
        /\ Len(todo') = Len(new) + Len(todo) - 1
    BY Lengths DEF StaysDue
  <1>2. ASSUME NEW q \in 1..Len(todo), Covers(todo[q], l)
        PROVE  \E p \in 1..Len(todo') : Covers(todo'[p], l)
    <2>1. CASE q = 1
      <3>1. PICK p \in 1..Len(new) : Covers(new[p], l)
        BY <1>2, <2>1 DEF StaysDue
      <3>2. todo'[p] = new[p] /\ p \in 1..Len(todo')
        BY <1>1 DEF Shift
      <3> QED
        BY <3>1, <3>2
    <2>2. CASE q # 1
      <3>1. q \in 2..Len(todo)
        BY <1>1, <2>2
      <3> QED
        BY <1>1, <1>2, <3>1, Moved
    <2> QED
      BY <2>1, <2>2
  <1>3. ASSUME NEW p \in 1..Len(todo'), Covers(todo'[p], l)
        PROVE  \/ p \in 1..Len(new) /\ todo'[p] = new[p] /\ Covers(new[p], l) /\ Covers(todo[1], l)
               \/ \E q \in 2..Len(todo) :
                    p = q + Len(new) - 1 /\ todo'[p] = todo[q] /\ Covers(todo[q], l)
    <2>1. CASE p \in 1..Len(new) /\ todo'[p] = new[p]
      <3>1. Covers(new[p], l)
        BY <1>3, <2>1
      <3>2. Covers(todo[1], l)
        BY <2>1, <3>1 DEF StaysDue
      <3> QED
        BY <2>1, <3>1, <3>2
    <2>2. CASE \E r \in 2..Len(todo) : p = r + Len(new) - 1 /\ todo'[p] = todo[r]
      BY <1>3, <2>2
    <2> QED
      BY <1>1, <2>1, <2>2, NewOrOld
  <1> QED
    BY <1>2, <1>3

LEMMA CoversSame ==
    ASSUME source' = source
    PROVE  \A q, l : Covers(todo[q], l)' <=> Covers(todo'[q], l)
  BY DEF Covers, Visits, Header

LEMMA AllDueStep ==
    ASSUME TypeInv, AllDue, FirstVisit, Next
    PROVE  AllDue'
  <1>1. source' = source /\ source \in Programs /\ DOMAIN todo = 1..Len(todo)
    BY SourceKept DEF TypeInv
  <1>2. PICK new \in Seq(Task) : StaysDue(new)
    BY StayDue
  <1>3. DOMAIN todo' = 1..Len(todo') /\ Loop' = Loop
    BY <1>1, <1>2, Lengths, Constant DEF StaysDue
  <1>4. ASSUME NEW l \in Loop, ~Renamed(l)'
        PROVE  \E q \in 1..Len(todo') : Covers(todo'[q], l)
    <2>1. ~Renamed(l)
      BY <1>2, <1>4 DEF StaysDue
    <2>2. PICK q \in 1..Len(todo) : Covers(todo[q], l)
      BY <1>1, <2>1 DEF AllDue
    <2> QED
      BY <1>1, <1>2, <1>4, <2>2, DueMoved
  <1>5. \A l \in Loop : Renamed(l)' \/ \E q \in 1..Len(todo') : Covers(todo'[q], l)
    BY <1>4
  <1>6. \A q, l : Covers(todo[q], l)' <=> Covers(todo'[q], l)
    BY <1>1, CoversSame
  <1> QED
    BY <1>3, <1>5, <1>6 DEF AllDue

LEMMA DueOnceStep ==
    ASSUME TypeInv, DueOnce, FirstVisit, Next
    PROVE  DueOnce'
  <1>1. source' = source /\ source \in Programs /\ DOMAIN todo = 1..Len(todo)
    BY SourceKept DEF TypeInv
  <1>2. PICK new \in Seq(Task) : StaysDue(new)
    BY StayDue
  <1>3. /\ DOMAIN todo' = 1..Len(todo') /\ Loop' = Loop /\ Shift(new)
        /\ Len(new) \in Nat /\ Len(todo) \in Nat \ {0} /\ 1 \in 1..Len(todo)
    BY <1>1, <1>2, Lengths, Constant DEF StaysDue
  <1>4. ASSUME NEW l \in Loop, ~Renamed(l)', NEW q \in 1..Len(todo'), NEW r \in 1..Len(todo'),
               Covers(todo'[q], l), Covers(todo'[r], l)
        PROVE  q = r
    <2>1. \A s, t \in 1..Len(todo) : Covers(todo[s], l) /\ Covers(todo[t], l) => s = t
      BY <1>1, <1>2, <1>4 DEF DueOnce, StaysDue
    <2>2. \A s \in 2..Len(todo) : s \in 1..Len(todo) /\ s # 1
      BY <1>3
    <2>3. \/ q \in 1..Len(new) /\ Covers(new[q], l) /\ Covers(todo[1], l)
          \/ \E s \in 2..Len(todo) : q = s + Len(new) - 1 /\ Covers(todo[s], l)
      BY <1>1, <1>2, <1>4, DueMoved
    <2>4. \/ r \in 1..Len(new) /\ Covers(new[r], l) /\ Covers(todo[1], l)
          \/ \E s \in 2..Len(todo) : r = s + Len(new) - 1 /\ Covers(todo[s], l)
      BY <1>1, <1>2, <1>4, DueMoved
    <2>5. CASE Covers(todo[1], l)
      <3>1. \A s \in 2..Len(todo) : ~Covers(todo[s], l)
        BY <1>3, <2>1, <2>2, <2>5
      <3> QED
        BY <1>2, <1>4, <2>3, <2>4, <3>1 DEF StaysDue
    <2>6. CASE ~Covers(todo[1], l)
      BY <2>1, <2>2, <2>3, <2>4, <2>6
    <2> QED
      BY <2>5, <2>6
  <1>5. \A q, l : Covers(todo[q], l)' <=> Covers(todo'[q], l)
    BY <1>1, CoversSame
  <1> QED
    BY <1>3, <1>4, <1>5 DEF DueOnce

LEMMA FunsFirstStep ==
    ASSUME TypeInv, DueOnce, FunsFirst, FirstVisit, Next
    PROVE  FunsFirst'
  <1>1. source' = source /\ source \in Programs /\ DOMAIN todo = 1..Len(todo)
    BY SourceKept DEF TypeInv
  <1>2. PICK new \in Seq(Task) : StaysDue(new)
    BY StayDue
  <1>3. /\ DOMAIN todo' = 1..Len(todo') /\ Loop' = Loop /\ Shift(new)
        /\ Len(new) \in Nat /\ Len(todo) \in Nat \ {0} /\ 1 \in 1..Len(todo)
    BY <1>1, <1>2, Lengths, Constant DEF StaysDue
  <1>4. ASSUME NEW l \in Loop, Renamed(l)', NEW q \in 1..Len(todo'), todo'[q].k = "fundef",
               Covers(todo'[q], l)
        PROVE  FALSE
    <2>1. CASE Renamed(l)
      <3>1. CASE q \in 1..Len(new) /\ todo'[q] = new[q]
        <4>1. todo[1].k = "fundef" /\ Covers(todo[1], l)
          BY <1>2, <1>4, <3>1 DEF StaysDue
        <4> QED
          BY <1>1, <1>3, <2>1, <4>1 DEF FunsFirst
      <3>2. CASE \E r \in 2..Len(todo) : q = r + Len(new) - 1 /\ todo'[q] = todo[r]
        <4>1. \A r \in 2..Len(todo) : r \in 1..Len(todo)
          BY <1>3
        <4> QED
          BY <1>1, <1>4, <2>1, <3>2, <4>1 DEF FunsFirst
      <3> QED
        BY <1>3, <3>1, <3>2, NewOrOld
    <2>2. CASE ~Renamed(l)
      <3>1. Covers(todo[1], l) /\ todo[1].k = "enter"
        BY <1>2, <1>4, <2>2 DEF StaysDue
      <3>2. \A s \in 2..Len(todo) : ~Covers(todo[s], l)
        <4>1. \A s, t \in 1..Len(todo) : Covers(todo[s], l) /\ Covers(todo[t], l) => s = t
          BY <1>1, <2>2 DEF DueOnce
        <4>2. \A s \in 2..Len(todo) : s \in 1..Len(todo) /\ s # 1
          BY <1>3
        <4> QED
          BY <1>3, <3>1, <4>1, <4>2
      <3>3. CASE q \in 1..Len(new) /\ todo'[q] = new[q]
        BY <1>2, <1>4, <3>1, <3>3 DEF StaysDue
      <3>4. CASE \E r \in 2..Len(todo) : q = r + Len(new) - 1 /\ todo'[q] = todo[r]
        BY <1>4, <3>2, <3>4
      <3> QED
        BY <1>3, <3>3, <3>4, NewOrOld
    <2> QED
      BY <2>1, <2>2
  <1>5. \A q, l : Covers(todo[q], l)' <=> Covers(todo'[q], l)
    BY <1>1, CoversSame
  <1> QED
    BY <1>3, <1>4, <1>5 DEF FunsFirst

---------------------------------------------------------------------------
(* Loops and their variables                                               *)

\* A step that renames no loop
LoopsKept == UNCHANGED <<vardecs, counter>> /\ \A l \in Loop : name'[l] = name[l]

LEMMA LoopSteps ==
    ASSUME TypeInv, Next
    PROVE  \/ CA_EFIfundef
           \/ EndFundef
           \/ (\E new \in Seq(Task) : Plain(new)) /\ LoopsKept
           \/ (\E new \in Seq(Task) : Plain(new)) /\ \E new \in Seq(Task) : FirstVisited(new)
  <1>1. CASE ForloopEnd
    BY <1>1, PlainSteps, LoopEnds DEF LoopsKept
  <1>2. CASE \E new \in Seq(Task) : Expands(new)
    BY <1>2, PlainSteps DEF LoopsKept, Expands
  <1>3. CASE \E new \in Seq(Task) : SecondVisited(new)
    BY <1>3, PlainSteps DEF LoopsKept, SecondVisited
  <1> QED
    BY <1>1, <1>2, <1>3, Steps, PlainSteps

LEMMA LoopNamesStep ==
    ASSUME TypeInv, LoopNames, Next
    PROVE  LoopNames'
  <1>1. source' = source
    BY SourceKept
  <1>2. Loop' = Loop
    BY <1>1, Constant
  <1>3. \A l \in Loop : Renamed(l)' \/ name'[l] = source.name[l]
    <2>1. CASE name' = name \/ LoopsKept
      BY <2>1 DEF LoopNames, LoopsKept, Renamed
    <2>2. CASE \E new \in Seq(Task) : FirstVisited(new)
      <3>1. PICK new \in Seq(Task) : FirstVisited(new)
        BY <2>2
      <3> DEFINE l == todo[1].id
      <3>2. l \in Id /\ name \in [Id -> Name] /\ name' = [name EXCEPT ![l] = NewName(name[l])]
        BY <3>1 DEF FirstVisited, Loop, TypeInv
      <3>3. name'[l][1] = "for"
        BY <3>2 DEF NewName
      <3> HIDE DEF l
      <3>4. \A m \in Loop : m # l => name'[m] = name[m]
        BY <3>2
      <3> QED
        BY <3>3, <3>4 DEF LoopNames, Renamed
    <2> QED
      BY <2>1, <2>2, LoopSteps, FunVisits, FunEnds
  <1> QED
    BY <1>1, <1>2, <1>3 DEF LoopNames

\* The number a loop gets is that of no other loop of its function, and it is
\* below the number its function goes on with.
LEMMA CountersStep ==
    ASSUME TypeInv, FunsNested, InFun, FunsFirst, Counters, Next
    PROVE  Counters'
  <1>1. /\ source' = source /\ source \in Programs /\ name \in [Id -> Name] /\ counter \in Nat
        /\ Len(todo) \in Nat /\ DOMAIN todo = 1..Len(todo)
    BY SourceKept DEF TypeInv
  <1>2. Loop' = Loop
    BY <1>1, Constant
  <1>3. OfFun(todo[1], fun) /\ Len(todo) \in Nat \ {0} /\ 1 \in 1..Len(todo)
    BY <1>1, SomeTask, InCurrent
  <1>4. \A l \in Loop : Renamed(l) =>
          /\ source.fun[l] = fun => name[l][2] < counter
          /\ \A q \in 1..Len(todo) : todo[q].k = "back" /\ todo[q].fun = source.fun[l] =>
               name[l][2] < todo[q].counter
    BY <1>1 DEF Counters
  <1>5. \A r \in 2..Len(todo) : r \in 1..Len(todo)
    BY <1>1
  <1>6. /\ DOMAIN todo' = 1..Len(todo')
        /\ \A l \in Loop : Renamed(l)' =>
             /\ source.fun[l] = fun' => name'[l][2] < counter'
             /\ \A q \in 1..Len(todo') : todo'[q].k = "back" /\ todo'[q].fun = source.fun[l] =>
                  name'[l][2] < todo'[q].counter
    <2>1. CASE (\E new \in Seq(Task) : Plain(new)) /\ LoopsKept
      <3>1. PICK new \in Seq(Task) : Plain(new)
        BY <2>1
      <3>2. DOMAIN todo' = 1..Len(todo') /\ fun' = fun /\ counter' = counter
        BY <2>1, <3>1, Lengths DEF Plain, LoopsKept
      <3>3. \A l \in Loop : name'[l] = name[l] /\ (Renamed(l)' <=> Renamed(l))
        BY <2>1 DEF LoopsKept, Renamed
      <3>4. \A q \in 1..Len(todo') : todo'[q].k = "back" => \E r \in 2..Len(todo) : todo'[q] = todo[r]
        BY <3>1, PlainOld
      <3>5. ASSUME NEW l \in Loop, Renamed(l)'
            PROVE  /\ source.fun[l] = fun' => name'[l][2] < counter'
                   /\ \A q \in 1..Len(todo') : todo'[q].k = "back" /\ todo'[q].fun = source.fun[l] =>
                        name'[l][2] < todo'[q].counter
        <4>1. Renamed(l) /\ name'[l] = name[l]
          BY <3>3, <3>5
        <4>2. source.fun[l] = fun' => name'[l][2] < counter'
          BY <1>4, <3>2, <4>1
        <4> QED
          BY <1>4, <1>5, <3>4, <4>1, <4>2
      <3> QED
        BY <3>2, <3>5
    <2>2. CASE (\E new \in Seq(Task) : Plain(new)) /\ \E new \in Seq(Task) : FirstVisited(new)
      <3>1. PICK new \in Seq(Task) : Plain(new)
        BY <2>2
      <3>2. PICK block \in Seq(Task) : FirstVisited(block)
        BY <2>2
      <3> DEFINE l == todo[1].id
      <3>3. /\ l \in Loop /\ l \in Id /\ name' = [name EXCEPT ![l] = NewName(name[l])]
            /\ counter' = counter + 1 /\ fun' = fun
        BY <3>2 DEF FirstVisited, Loop
      <3>4. source.fun[l] = fun /\ fun \in Fun /\ fun # Null /\ DOMAIN todo' = 1..Len(todo')
        BY <3>1, PlainInFun, Lengths DEF Plain
      <3> HIDE DEF l
      <3>5. name'[l][2] = counter /\ \A m \in Loop : m # l => name'[m] = name[m] /\ (Renamed(m)' <=> Renamed(m))
        BY <1>1, <3>3 DEF NewName, Renamed, Loop
      <3>6. ASSUME NEW q \in 1..Len(todo'), todo'[q].k = "back"
            PROVE  todo'[q].fun # fun /\ \E r \in 1..Len(todo) : todo'[q] = todo[r]
        <4>1. PICK r \in 2..Len(todo) : todo'[q] = todo[r]
          BY <3>1, <3>6, PlainOld
        <4>2. todo[r].fun # Null => todo[r].fun \in source.within[fun]
          BY <1>1, <1>5, <3>6, <4>1 DEF FunsNested
        <4>3. fun \notin source.within[fun]
          BY <1>1, <3>4, FunApart
        <4> QED
          BY <1>5, <3>4, <4>1, <4>2, <4>3
      <3>7. ASSUME NEW m \in Loop, Renamed(m)', m # l
            PROVE  /\ source.fun[m] = fun => name'[m][2] < counter
                   /\ \A q \in 1..Len(todo') : todo'[q].k = "back" /\ todo'[q].fun = source.fun[m] =>
                        name'[m][2] < todo'[q].counter
        BY <1>4, <3>5, <3>6, <3>7
      <3>8. \A m \in Loop : Renamed(m)' /\ source.fun[m] = fun => name'[m][2] < counter + 1
        <4>1. \A m \in Loop : name[m][2] \in Nat
          <5>1. \A m \in Loop : name[m] \in Source \/ name[m] \in ForName
            BY <1>1 DEF Name, Loop
          <5>2. \A x \in Source : x[2] \in Nat
            BY DEF Source
          <5>3. \A x \in ForName : x[2] \in Nat
            BY DEF ForName
          <5> QED
            BY <5>1, <5>2, <5>3
        <4> QED
          BY <1>1, <3>5, <3>7, <4>1
      <3> QED
        BY <3>3, <3>4, <3>6, <3>7, <3>8
    <2>3. CASE EndFundef
      <3>1. /\ todo[1].k = "back" /\ fun' = todo[1].fun /\ counter' = todo[1].counter /\ Pops
            /\ name' = name
        BY <2>3, FunEnds
      <3>2. Len(<<>>) = 0
        OBVIOUS
      <3>3. /\ DOMAIN todo' = 1..Len(todo') /\ Len(todo') = Len(todo) - 1
            /\ \A q \in 1..Len(todo') : q + 1 \in 1..Len(todo) /\ todo'[q] = todo[q + 1]
        BY <1>3, <3>1, <3>2 DEF Pops, Shift
      <3> QED
        BY <1>3, <1>4, <3>1, <3>3 DEF Renamed
    <2>4. CASE CA_EFIfundef
      <3> DEFINE g == todo[1].fun
                 back == Back(fun, counter)
      <3>1. todo[1].k = "fundef" /\ fun' = g /\ counter' = 0 /\ name' = name
        BY <2>4, FunVisits
      <3>2. PICK new \in Seq(Task) : PushesFunction(new, g, back)
        BY <2>4, FunctionPushed
      <3>3. back.k = "back" /\ back.fun = fun /\ back.counter = counter
        BY DEF Back
      <3>4. \A l \in Loop : Renamed(l) => source.fun[l] # g
        BY <1>1, <1>3, <3>1 DEF FunsFirst, Covers
      <3> HIDE DEF g, back
      <3>5. /\ Shift(new) /\ new[Len(new)] = back /\ Len(new) \in Nat \ {0}
            /\ DOMAIN todo' = 1..Len(todo')
        BY <3>2, FunctionLength, Lengths
      <3>6. \A p \in 1..(Len(new) - 1) : new[p].k # "back"
        BY <1>1, <3>2, FunctionPushes
      <3>7. ASSUME NEW q \in 1..Len(todo'), todo'[q].k = "back"
            PROVE  todo'[q] = back \/ \E r \in 1..Len(todo) : todo'[q] = todo[r]
        <4>1. CASE q \in 1..Len(new) /\ todo'[q] = new[q]
          BY <3>5, <3>6, <3>7, <4>1
        <4>2. CASE \E r \in 2..Len(todo) : q = r + Len(new) - 1 /\ todo'[q] = todo[r]
          BY <1>5, <4>2
        <4> QED
          BY <3>5, <4>1, <4>2, NewOrOld
      <3> QED
        BY <1>4, <3>1, <3>3, <3>4, <3>5, <3>7 DEF Renamed
    <2> QED
      BY <2>1, <2>2, <2>3, <2>4, LoopSteps
  <1> QED
    BY <1>1, <1>2, <1>6 DEF Counters, Renamed


\* What LoopVarsOwn says of the variables v and d of a function and its loops
\* before the end
Owns(v, d, names, loops) ==
  LET own == 1..Len(v)
      new == (1..Len(d)) \ own
  IN /\ own \subseteq 1..Len(d) /\ \A j \in own : d[j] = v[j]
     /\ {d[j] : j \in new} = {names[l] : l \in loops}
     /\ \A j, k \in new : d[j] = d[k] => j = k
     /\ \A l, m \in loops : names[l] = names[m] => l = m

RenamedLoops(f) == {l \in Loops(f) : Renamed(l)}

LEMMA OwnsAll ==
    LoopVarsOwn <=> \A f \in Fun :
      /\ Owns(source.vars[f], vardecs[f], name, RenamedLoops(f))
      /\ todo = <<>> => RenamedLoops(f) = Loops(f)
  BY DEF LoopVarsOwn, Owns, RenamedLoops

LEMMA OwnsSame ==
    ASSUME NEW v, NEW d, NEW names, NEW others, NEW loops, Owns(v, d, names, loops),
           \A l \in loops : others[l] = names[l]
    PROVE  Owns(v, d, others, loops)
  <1>1. {names[l] : l \in loops} = {others[l] : l \in loops}
    OBVIOUS
  <1>2. \A l, m \in loops : others[l] = others[m] => names[l] = names[m]
    OBVIOUS
  <1> QED
    BY <1>1, <1>2 DEF Owns

\* The variable of a loop that is renamed is new to its function.
LEMMA OwnsMore ==
    ASSUME TypeInv, InFun, Counters, NEW new, Plain(new), NEW block, FirstVisited(block),
           Owns(source.vars[fun], vardecs[fun], name, RenamedLoops(fun))
    PROVE  Owns(source.vars[fun], vardecs'[fun], name', {m \in Loops(fun) : name'[m][1] = "for"})
  <1> DEFINE l == todo[1].id
             n == NewName(name[l])
             d == vardecs[fun]
             own == 1..Len(source.vars[fun])
             more == (1..Len(d)) \ own
             loops == RenamedLoops(fun)
  <1>1. /\ source' = source /\ fun' = fun /\ l \in Loop /\ l \in Id /\ ~Renamed(l)
        /\ name' = [name EXCEPT ![l] = n] /\ vardecs' = [vardecs EXCEPT ![fun] = Append(@, n)]
        /\ n \in ForName
    BY DEF FirstVisited, Loop
  <1>2. source.fun[l] = fun /\ fun \in Fun /\ fun # Null
    BY PlainInFun
  <1>3. /\ name \in [Id -> Name] /\ vardecs \in [Fun -> Seq(Name)] /\ counter \in Nat
        /\ source \in Programs
    BY DEF TypeInv
  <1>4. n[1] = "for" /\ n[2] = counter
    BY DEF NewName
  <1>5. \A m \in loops : m \in Loop /\ source.fun[m] = fun /\ Renamed(m) /\ name[m] # n /\ m # l
    <2>1. ASSUME NEW m \in Loop, source.fun[m] = fun, Renamed(m)
          PROVE  name[m] # n
      <3>1. name[m][2] < counter
        BY <2>1 DEF Counters
      <3> QED
        BY <1>3, <1>4, <3>1
    <2> QED
      BY <1>1, <2>1 DEF RenamedLoops, Loops
  <1> HIDE DEF n, l
  <1>7. {m \in Loops(fun) : name'[m][1] = "for"} = loops \cup {l}
    BY <1>1, <1>2, <1>3, <1>4 DEF Loops, RenamedLoops, Renamed, Loop
  <1>8. \A m \in loops : name'[m] = name[m]
    BY <1>1, <1>3, <1>5
  <1>9. name'[l] = n
    BY <1>1, <1>3
  <1>10. d \in Seq(Name) /\ Len(d) \in Nat /\ n \in Name /\ Len(source.vars[fun]) \in Nat
    <2>1. source.vars[fun] \in Seq(Source) /\ d \in Seq(Name)
      BY <1>2, <1>3, Types
    <2> QED
      BY <1>1, <2>1 DEF Name
  <1>11. /\ vardecs'[fun] = Append(d, n) /\ Len(vardecs'[fun]) = Len(d) + 1
         /\ \A j \in 1..Len(d) : vardecs'[fun][j] = d[j]
         /\ vardecs'[fun][Len(d) + 1] = n
    BY <1>1, <1>2, <1>3, <1>10
  <1>12. /\ own \subseteq 1..Len(d) /\ \A j \in own : d[j] = source.vars[fun][j]
         /\ {d[j] : j \in more} = {name[m] : m \in loops}
         /\ \A j, k \in more : d[j] = d[k] => j = k
         /\ \A m, k \in loops : name[m] = name[k] => m = k
    BY DEF Owns
  <1>13. (1..Len(vardecs'[fun])) \ own = more \cup {Len(d) + 1} /\ Len(d) + 1 \notin 1..Len(d)
    <2>1. Len(d) + 1 \notin own
      BY <1>10, <1>12
    <2>2. 1..(Len(d) + 1) = (1..Len(d)) \cup {Len(d) + 1}
      BY <1>10
    <2> QED
      BY <1>10, <1>11, <2>1, <2>2
  <1> DEFINE e == vardecs'[fun]
  <1>14. \A j \in more : e[j] = d[j] /\ e[j] # n
    <2>1. \A j \in more : d[j] \in {name[m] : m \in loops}
      BY <1>12
    <2> QED
      BY <1>5, <1>11, <2>1
  <1>15. e[Len(d) + 1] = n
    BY <1>11
  <1>16. own \subseteq 1..Len(e) /\ \A j \in own : e[j] = source.vars[fun][j]
    <2>1. 1..Len(d) \subseteq 1..Len(e)
      BY <1>10, <1>11
    <2> QED
      BY <1>11, <1>12, <2>1
  <1> HIDE DEF d, own, more, loops, e
  <1>17. {e[j] : j \in more \cup {Len(d) + 1}} = {name'[m] : m \in loops \cup {l}}
    <2>1. {e[j] : j \in more} = {d[j] : j \in more}
      BY <1>14
    <2>2. {name'[m] : m \in loops} = {name[m] : m \in loops}
      BY <1>8
    <2>3. {e[j] : j \in more} = {name'[m] : m \in loops}
      BY <1>12, <2>1, <2>2
    <2>4. {e[j] : j \in more \cup {Len(d) + 1}} = {e[j] : j \in more} \cup {n}
      BY <1>15
    <2>5. {name'[m] : m \in loops \cup {l}} = {name'[m] : m \in loops} \cup {n}
      BY <1>9
    <2> QED
      BY <2>3, <2>4, <2>5
  <1>18. \A j, k \in more \cup {Len(d) + 1} : e[j] = e[k] => j = k
    BY <1>12, <1>14, <1>15
  <1>19. \A m, k \in loops \cup {l} : name'[m] = name'[k] => m = k
    BY <1>5, <1>8, <1>9, <1>12
  <1>20. /\ (1..Len(e)) \ own = more \cup {Len(d) + 1}
         /\ {m \in Loops(fun) : name'[m][1] = "for"} = loops \cup {l}
    BY <1>7, <1>13 DEF e
  <1>21. Owns(source.vars[fun], e, name', loops \cup {l})
    BY <1>16, <1>17, <1>18, <1>19, <1>20 DEF Owns, own
  <1> QED
    BY <1>20, <1>21 DEF e

LEMMA LoopVarsOwnStep ==
    ASSUME TypeInv, InFun, Counters, LoopVarsOwn, AllDue', Next
    PROVE  LoopVarsOwn'
  <1>1. /\ source' = source /\ \A f \in Fun : Owns(source.vars[f], vardecs[f], name, RenamedLoops(f))
    BY SourceKept, OwnsAll
  <1>2. Fun' = Fun /\ Loop' = Loop
    BY <1>1, Constant
  <1> DEFINE After(f) == {l \in Loops(f) : name'[l][1] = "for"}
  <1>3. ASSUME NEW f \in Fun
        PROVE  Owns(source.vars[f], vardecs'[f], name', After(f))
    <2>1. ASSUME vardecs'[f] = vardecs[f], \A l \in Loops(f) : name'[l] = name[l]
          PROVE  Owns(source.vars[f], vardecs'[f], name', After(f))
      <3>1. After(f) = RenamedLoops(f) /\ \A l \in RenamedLoops(f) : name'[l] = name[l]
        BY <2>1 DEF RenamedLoops, Renamed
      <3> HIDE DEF After
      <3>2. Owns(source.vars[f], vardecs[f], name', RenamedLoops(f))
        BY <1>1, <3>1, OwnsSame
      <3> QED
        BY <2>1, <3>1, <3>2
    <2>2. CASE UNCHANGED <<name, vardecs>> \/ LoopsKept
      <3>1. vardecs'[f] = vardecs[f] /\ \A l \in Loops(f) : name'[l] = name[l]
        BY <2>2 DEF LoopsKept, Loops
      <3> QED
        BY <2>1, <3>1
    <2>3. CASE (\E new \in Seq(Task) : Plain(new)) /\ \E new \in Seq(Task) : FirstVisited(new)
      <3>1. PICK new \in Seq(Task) : Plain(new)
        BY <2>3
      <3>2. PICK block \in Seq(Task) : FirstVisited(block)
        BY <2>3
      <3>3. CASE f = fun
        BY <1>1, <3>1, <3>2, <3>3, OwnsMore
      <3>4. CASE f # fun
        <4> DEFINE l == todo[1].id
        <4>1. /\ name' = [name EXCEPT ![l] = NewName(name[l])] /\ source.fun[l] = fun
              /\ vardecs' = [vardecs EXCEPT ![fun] = Append(@, NewName(name[l]))]
          BY <3>1, <3>2, PlainInFun DEF FirstVisited
        <4>2. name \in [Id -> Name] /\ vardecs \in [Fun -> Seq(Name)]
          BY DEF TypeInv
        <4>3. vardecs'[f] = vardecs[f] /\ \A m \in Loops(f) : name'[m] = name[m]
          BY <3>4, <4>1, <4>2 DEF Loops, Loop
        <4> QED
          BY <2>1, <4>3
      <3> QED
        BY <3>3, <3>4
    <2> QED
      BY <2>2, <2>3, LoopSteps, FunVisits, FunEnds
  <1>4. ASSUME todo' = <<>>, NEW l \in Loop
        PROVE  name'[l][1] = "for"
    <2>1. DOMAIN todo' = {}
      BY <1>4
    <2> QED
      BY <1>2, <2>1 DEF AllDue, Renamed
  <1>5. ASSUME NEW f \in Fun
        PROVE  /\ Loops(f)' = Loops(f) /\ RenamedLoops(f)' = After(f)
               /\ todo' = <<>> => After(f) = Loops(f)
    BY <1>1, <1>2, <1>4 DEF Loops, RenamedLoops, Renamed
  <1> HIDE DEF After
  <1>6. \A f \in Fun : /\ Owns(source.vars[f], vardecs'[f], name', RenamedLoops(f)')
                       /\ todo' = <<>> => RenamedLoops(f)' = Loops(f)'
    BY <1>3, <1>5
  <1>7. (LoopVarsOwn <=> \A f \in Fun :
          /\ Owns(source.vars[f], vardecs[f], name, RenamedLoops(f))
          /\ todo = <<>> => RenamedLoops(f) = Loops(f))'
    BY OwnsAll, PTL
  <1> QED
    BY <1>1, <1>2, <1>6, <1>7

---------------------------------------------------------------------------
(* Loops at work                                                           *)

\* Where two tasks come from
Both(new, q, r) ==
  \/ /\ q \in 1..Len(new) /\ todo'[q] = new[q]
     /\ r \in 1..Len(new) /\ todo'[r] = new[r]
  \/ \E p \in 2..Len(todo) :
       /\ q = p + Len(new) - 1 /\ todo'[q] = todo[p]
       /\ r \in 1..Len(new) /\ todo'[r] = new[r]
  \/ \E p \in 2..Len(todo) : \E s \in 2..(p - 1) :
       /\ q = p + Len(new) - 1 /\ todo'[q] = todo[p]
       /\ r = s + Len(new) - 1 /\ todo'[r] = todo[s]

LEMMA Pairs ==
    ASSUME NEW new, Shift(new), NEW q \in 1..Len(todo'), NEW r \in 1..(q - 1)
    PROVE  Both(new, q, r)
  <1>1. Len(new) \in Nat /\ Len(todo) \in Nat \ {0} /\ Len(todo') \in Nat
    BY Lengths
  <1>2. r \in 1..Len(todo') /\ r < q
    BY <1>1
  <1>3. CASE q \in 1..Len(new) /\ todo'[q] = new[q]
    <2>1. r \in 1..Len(new)
      BY <1>1, <1>2, <1>3
    <2>2. todo'[r] = new[r]
      BY <2>1 DEF Shift
    <2> QED
      BY <1>3, <2>1, <2>2 DEF Both
  <1>4. CASE \E p \in 2..Len(todo) : q = p + Len(new) - 1 /\ todo'[q] = todo[p]
    <2>1. PICK p \in 2..Len(todo) : q = p + Len(new) - 1 /\ todo'[q] = todo[p]
      BY <1>4
    <2>2. CASE \E s \in 2..Len(todo) : r = s + Len(new) - 1 /\ todo'[r] = todo[s]
      <3>1. PICK s \in 2..Len(todo) : r = s + Len(new) - 1 /\ todo'[r] = todo[s]
        BY <2>2
      <3>2. s \in 2..(p - 1)
        BY <1>1, <1>2, <2>1, <3>1
      <3> QED
        BY <2>1, <3>1, <3>2 DEF Both
    <2> QED
      BY <1>2, <2>1, <2>2, NewOrOld DEF Both
  <1> QED
    BY <1>3, <1>4, NewOrOld

LEMMA Anywhere ==
    ASSUME NEW new, Shift(new)
    PROVE  /\ \A q \in 1..Len(todo') :
                (q \in 1..Len(new) /\ todo'[q] = new[q]) \/ \E r \in 2..Len(todo) : todo'[q] = todo[r]
           /\ \A q \in 1..Len(new) : q \in 1..Len(todo') /\ todo'[q] = new[q]
           /\ \A r \in 2..Len(todo) : \E q \in 1..Len(todo') : todo'[q] = todo[r]
           /\ 1 \in 1..Len(todo) /\ \A r \in 2..Len(todo) : r \in 1..Len(todo) /\ 1 \in 1..(r - 1)
           /\ \A r \in 1..Len(todo) : r = 1 \/ r \in 2..Len(todo)
  <1>1. Len(new) \in Nat /\ Len(todo) \in Nat \ {0} /\ Len(todo') = Len(new) + Len(todo) - 1
    BY Lengths
  <1>2. \A q \in 1..Len(new) : q \in 1..Len(todo') /\ todo'[q] = new[q]
    BY <1>1 DEF Shift
  <1>3. 1 \in 1..Len(todo) /\ \A r \in 2..Len(todo) : r \in 1..Len(todo) /\ 1 \in 1..(r - 1)
    BY <1>1
  <1>4. \A r \in 1..Len(todo) : r = 1 \/ r \in 2..Len(todo)
    BY <1>1
  <1> QED
    BY <1>2, <1>3, <1>4, NewOrOld, Moved

\* Which loops are at work before and after a step
LEMMA BusyMoved ==
    ASSUME NEW new, Shift(new), NEW l
    PROVE  /\ Busy(l) <=> \/ Works(todo[1]) /\ todo[1].id = l
                          \/ \E r \in 2..Len(todo) : Works(todo[r]) /\ todo[r].id = l
           /\ Busy(l)' <=> \/ \E p \in 1..Len(new) : Works(new[p]) /\ new[p].id = l
                           \/ \E r \in 2..Len(todo) : Works(todo[r]) /\ todo[r].id = l
  <1>1. DOMAIN todo' = 1..Len(todo') /\ DOMAIN todo = 1..Len(todo)
    BY DEF Shift
  <1>2. Busy(l) <=> \E q \in 1..Len(todo) : Works(todo[q]) /\ todo[q].id = l
    BY <1>1 DEF Busy
  <1>3. Busy(l)' <=> \E q \in 1..Len(todo') : Works(todo'[q]) /\ todo'[q].id = l
    BY <1>1 DEF Busy, Works
  <1>4. /\ \A q \in 1..Len(todo') :
             (q \in 1..Len(new) /\ todo'[q] = new[q]) \/ \E r \in 2..Len(todo) : todo'[q] = todo[r]
        /\ \A q \in 1..Len(new) : q \in 1..Len(todo') /\ todo'[q] = new[q]
        /\ \A r \in 2..Len(todo) : \E q \in 1..Len(todo') : todo'[q] = todo[r]
        /\ 1 \in 1..Len(todo) /\ \A r \in 2..Len(todo) : r \in 1..Len(todo)
        /\ \A r \in 1..Len(todo) : r = 1 \/ r \in 2..Len(todo)
    BY Anywhere
  <1>5. Busy(l) <=> \/ Works(todo[1]) /\ todo[1].id = l
                    \/ \E r \in 2..Len(todo) : Works(todo[r]) /\ todo[r].id = l
    BY <1>2, <1>4
  <1>6. (\E q \in 1..Len(todo') : Works(todo'[q]) /\ todo'[q].id = l)
          => \/ \E p \in 1..Len(new) : Works(new[p]) /\ new[p].id = l
             \/ \E r \in 2..Len(todo) : Works(todo[r]) /\ todo[r].id = l
    BY <1>4
  <1>7. (\E p \in 1..Len(new) : Works(new[p]) /\ new[p].id = l)
          => \E q \in 1..Len(todo') : Works(todo'[q]) /\ todo'[q].id = l
    BY <1>4
  <1>8. (\E r \in 2..Len(todo) : Works(todo[r]) /\ todo[r].id = l)
          => \E q \in 1..Len(todo') : Works(todo'[q]) /\ todo'[q].id = l
    BY <1>4
  <1> QED
    BY <1>3, <1>5, <1>6, <1>7, <1>8

\* No loop is at work when a function starts or ends.
LEMMA NoneAtWork ==
    ASSUME TypeInv, LoopsNested, todo # <<>>, todo[1].k \in {"fundef", "back"}
    PROVE  \A q \in 1..Len(todo) : ~Works(todo[q])
  <1> SUFFICES ASSUME NEW q \in 1..Len(todo), Works(todo[q])
               PROVE  FALSE
    OBVIOUS
  <1>1. Len(todo) \in Nat /\ DOMAIN todo = 1..Len(todo)
    BY DEF TypeInv
  <1>2. q # 1
    BY DEF Works
  <1>3. 1 \in 1..(q - 1)
    BY <1>1, <1>2
  <1> QED
    BY <1>1, <1>3 DEF LoopsNested, Visits, Works

\* Functions start and end between the loops.
FunStep(new) ==
  /\ Shift(new)
  /\ \A q \in 1..Len(todo) : ~Works(todo[q])
  /\ \A p \in 1..Len(new) : /\ ~Works(new[p])
                            /\ Visits(new[p]) => new[p].id \in Id /\ source.around[new[p].id] = {}
  /\ UNCHANGED <<source, name, oldName, newName>>

LEMMA FunSteps ==
    ASSUME TypeInv, LoopsNested, CA_EFIfundef \/ EndFundef
    PROVE  \E new \in Seq(Task) : FunStep(new)
  <1>1. source \in Programs
    BY DEF TypeInv
  <1>2. todo # <<>>
    BY DEF CA_EFIfundef, EndFundef, At
  <1>3. CASE CA_EFIfundef
    <2> DEFINE g == todo[1].fun
               back == Back(fun, counter)
    <2>1. todo[1].k = "fundef" /\ UNCHANGED <<source, name, oldName, newName>>
      BY <1>3, FunVisits
    <2>2. PICK new \in Seq(Task) : PushesFunction(new, g, back)
      BY <1>3, FunctionPushed
    <2>3. back.k = "back"
      BY DEF Back
    <2> HIDE DEF g, back
    <2>4. Shift(new) /\ Len(new) \in Nat \ {0} /\ new[Len(new)] = back
      BY <2>2, FunctionLength
    <2>5. \A p \in 1..(Len(new) - 1) :
            /\ ~Works(new[p])
            /\ Visits(new[p]) => new[p].id \in Id /\ source.around[new[p].id] = {}
      BY <1>1, <2>2, FunctionPushes DEF Works, Visits
    <2>6. \A p \in 1..Len(new) : p = Len(new) \/ p \in 1..(Len(new) - 1)
      BY <2>4
    <2>7. \A q \in 1..Len(todo) : ~Works(todo[q])
      BY <1>2, <2>1, NoneAtWork
    <2> QED
      BY <2>1, <2>3, <2>4, <2>5, <2>6, <2>7 DEF FunStep, Works, Visits
  <1>4. CASE EndFundef
    <2>1. todo[1].k = "back" /\ Pops /\ UNCHANGED <<source, name, oldName, newName>>
      BY <1>4, FunEnds
    <2>2. Len(<<>>) = 0 /\ <<>> \in Seq(Task)
      OBVIOUS
    <2>3. \A q \in 1..Len(todo) : ~Works(todo[q])
      BY <1>2, <2>1, NoneAtWork
    <2>4. FunStep(<<>>)
      BY <2>1, <2>2, <2>3 DEF FunStep, Pops
    <2> QED
      BY <2>2, <2>4
  <1> QED
    BY <1>3, <1>4

LEMMA FunStepIterates ==
    ASSUME TypeInv, WorkInv, NameInv, NEW new, FunStep(new)
    PROVE  WorkInv' /\ NameInv'
  <1>1. /\ Shift(new) /\ source' = source /\ name' = name /\ oldName' = oldName
        /\ DOMAIN todo' = 1..Len(todo') /\ DOMAIN todo = 1..Len(todo)
    BY DEF FunStep, Shift
  <1>2. Id' = Id /\ Loop' = Loop /\ \A i : Iterated(i)' = Iterated(i)
    BY <1>1, Constant
  <1>3. \A q \in 1..Len(todo') : ~Works(todo'[q])
    BY <1>1, Anywhere DEF FunStep
  <1>4. \A l : (Done(l) <=> Renamed(l)) /\ (Done(l)' <=> Renamed(l))
    BY <1>1, <1>3 DEF Done, Busy, FunStep, Renamed, Works
  <1>5. \A q \in 1..Len(todo') : Visits(todo'[q]) =>
          \A m \in source.around[todo'[q].id] : Renamed(m)
    <2>1. \A r \in 1..Len(todo) : Visits(todo[r]) => \A m \in source.around[todo[r].id] : Renamed(m)
      BY <1>1 DEF WorkInv, Outward
    <2>2. \A p \in 1..Len(new) : Visits(new[p]) => source.around[new[p].id] = {}
      BY DEF FunStep
    <2>3. /\ \A q \in 1..Len(todo') :
               \/ q \in 1..Len(new) /\ todo'[q] = new[q]
               \/ \E r \in 2..Len(todo) : todo'[q] = todo[r]
          /\ \A r \in 2..Len(todo) : r \in 1..Len(todo)
      BY <1>1, Anywhere
    <2> QED
      BY <2>1, <2>2, <2>3
  <1>6. Outward'
    BY <1>1, <1>2, <1>3, <1>5 DEF WorkInv, Outward, Renamed, Works, Visits
  <1>7. DoneInside'
    BY <1>1, <1>2, <1>4 DEF WorkInv, DoneInside
  <1>8. LoopsNested' /\ Between'
    BY <1>1, <1>3 DEF LoopsNested, Between, Works
  <1>9. VisitsDone'
    BY <1>1, <1>2, <1>4 DEF VisitsDone, Renamed
  <1>10. FirstVisit' /\ SecondVisit'
    BY <1>1, <1>3 DEF FirstVisit, SecondVisit, Works
  <1>11. DoneSettled'
    BY <1>1, <1>2, <1>4 DEF NameInv, DoneSettled, Same, Settled
  <1>12. CurrentNames'
    BY <1>1 DEF NameInv, CurrentNames, FunStep
  <1>13. UseNames'
    BY <1>1, <1>2 DEF NameInv, UseNames, Renamed
  <1> QED
    BY <1>6, <1>7, <1>8, <1>9, <1>10, <1>11, <1>12, <1>13 DEF WorkInv, NameInv

\* What is below the first task, when that belongs to a loop at work
LEMMA Below ==
    ASSUME TypeInv, LoopsNested, todo # <<>>, NEW q \in 2..Len(todo), Works(todo[q])
    PROVE  todo[q].id \in source.around[todo[1].id]
  <1>1. q \in DOMAIN todo /\ 1 \in 1..(q - 1)
    BY DEF TypeInv
  <1> QED
    BY <1>1 DEF LoopsNested

\* The end of a loop: it is done.
LEMMA EndIterates ==
    ASSUME TypeInv, WorkInv, NameInv, ForloopEnd
    PROVE  WorkInv' /\ NameInv'
  <1> DEFINE l == todo[1].id
             n == Len(todo) - 1
  <1>1. /\ todo[1].k = "clear" /\ l \in Loop /\ oldName' = Null /\ newName' = Null /\ Pops
        /\ source' = source /\ name' = name /\ source \in Programs
    BY LoopEnds DEF TypeInv
  <1>2. Len(<<>>) = 0 /\ \A p \in 1..0 : FALSE
    OBVIOUS
  <1>3. /\ DOMAIN todo = 1..Len(todo) /\ DOMAIN todo' = 1..Len(todo') /\ Len(todo) \in Nat \ {0}
        /\ n \in Nat /\ Len(todo') = n
        /\ \A q \in 1..n : q + 1 \in 2..Len(todo) /\ q + 1 \in 1..Len(todo) /\ todo'[q] = todo[q + 1]
    BY <1>1, <1>2 DEF Pops, Shift
  <1>4. 1 \in DOMAIN todo /\ \A r \in 1..(1 - 1) : FALSE
    BY <1>3
  <1>5. Works(todo[1]) /\ todo # <<>>
    BY <1>1, <1>3 DEF Works
  <1>6. \A r \in 2..Len(todo) : Works(todo[r]) => todo[r].id \in source.around[l]
    BY <1>5, Below DEF WorkInv
  <1>7. l \notin source.around[l] /\ l \in Id /\ Renamed(l)
    BY <1>1, <1>4, <1>5, ItemTree DEF WorkInv, Outward, Loop
  <1>8. /\ \A m \in Loop : l \in source.around[m] => Done(m)
        /\ \A i \in Id : Same(i, l) => Settled(i)
    BY <1>1, <1>4 DEF NameInv, SecondVisit
  <1>9. \A m : /\ Busy(m) <=> m = l \/ \E r \in 2..Len(todo) : Works(todo[r]) /\ todo[r].id = m
               /\ Busy(m)' <=> \E r \in 2..Len(todo) : Works(todo[r]) /\ todo[r].id = m
    <2> TAKE m
    <2>1. Shift(<<>>)
      BY <1>1 DEF Pops
    <2>2. /\ Busy(m) <=> \/ Works(todo[1]) /\ todo[1].id = m
                         \/ \E r \in 2..Len(todo) : Works(todo[r]) /\ todo[r].id = m
          /\ Busy(m)' <=> \/ \E p \in 1..Len(<<>>) : Works(<<>>[p]) /\ <<>>[p].id = m
                          \/ \E r \in 2..Len(todo) : Works(todo[r]) /\ todo[r].id = m
      BY <2>1, BusyMoved, Zenon
    <2> QED
      BY <1>2, <1>5, <2>2
  <1>10. \A m : (m = l => Busy(m) /\ ~Busy(m)') /\ (m # l => (Busy(m)' <=> Busy(m)))
    BY <1>6, <1>7, <1>9
  <1>11. \A m \in Loop : Done(m)' <=> m = l \/ Done(m)
    BY <1>1, <1>7, <1>10 DEF Done, Renamed
  <1>12. Id' = Id /\ Loop' = Loop /\ \A i : Iterated(i)' = Iterated(i)
    BY <1>1, Constant
  <1>13. \A q \in 1..n : todo'[q].k = "clear" => FALSE
    <2> SUFFICES ASSUME NEW q \in 1..n, todo'[q].k = "clear"
                 PROVE  FALSE
      OBVIOUS
    <2>1. q + 1 \in DOMAIN todo /\ todo[q + 1].k = "clear" /\ Works(todo[q + 1]) /\ q + 1 \in 2..Len(todo)
      BY <1>3 DEF Works
    <2>2. Done(l)
      BY <1>1, <1>6, <2>1 DEF NameInv, SecondVisit
    <2> QED
      BY <1>10, <2>2 DEF Done
  <1>14. Outward'
    BY <1>1, <1>3, <1>12 DEF WorkInv, Outward, Renamed, Works, Visits
  <1>15. DoneInside'
    BY <1>1, <1>8, <1>11, <1>12 DEF WorkInv, DoneInside
  <1>16. VisitsDone'
    BY <1>1, <1>3, <1>11, <1>12 DEF WorkInv, VisitsDone, Renamed, Visits
  <1> HIDE DEF l, n
  <1>17. LoopsNested'
    <2>1. ASSUME NEW q \in 1..n, Works(todo'[q]), NEW r \in 1..(q - 1)
          PROVE  /\ Visits(todo'[r]) \/ Works(todo'[r])
                 /\ todo'[q].id \in source.around[todo'[r].id]
      <3>1. PICK p \in DOMAIN todo : p = q + 1 /\ todo'[q] = todo[p]
        BY <1>3
      <3>2. r \in 1..n
        BY <1>3
      <3>3. PICK s \in 1..(p - 1) : todo'[r] = todo[s]
        BY <1>3, <3>1, <3>2
      <3> QED
        BY <2>1, <3>1, <3>3 DEF WorkInv, LoopsNested
    <2> QED
      BY <1>1, <1>3, <2>1 DEF LoopsNested, Works, Visits
  <1>18. Between'
    <2>1. ASSUME NEW q \in 1..n, Works(todo'[q]), NEW r \in 1..(q - 1), Visits(todo'[r]),
                 \A s \in (r + 1)..(q - 1) : ~Works(todo'[s]),
                 NEW m \in source.around[todo'[r].id], todo'[q].id \in source.around[m]
          PROVE  Done(m)'
      <3> r \in 1..n
        BY <1>3
      <3>1. PICK p \in DOMAIN todo : p = q + 1 /\ todo'[q] = todo[p]
        BY <1>3
      <3>2. PICK t \in 1..(p - 1) : t = r + 1 /\ todo'[r] = todo[t] /\ t \in DOMAIN todo
        BY <1>3, <3>1
      <3>3. ASSUME NEW s \in (t + 1)..(p - 1)
            PROVE  ~Works(todo[s])
        <4>1. s - 1 \in (r + 1)..(q - 1) /\ s - 1 \in 1..n /\ (s - 1) + 1 = s
          BY <1>3, <3>1, <3>2
        <4> QED
          BY <1>3, <2>1, <4>1
      <3>4. Done(m)
        BY <2>1, <3>1, <3>2, <3>3 DEF WorkInv, Between
      <3>5. m \in Loop
        <4>1. todo[t] \in Task /\ todo[t].k \in {"visit", "enter"}
          BY <2>1, <3>2 DEF TypeInv, Visits
        <4>2. todo[t].id \in Id
          BY <4>1, Kinds DEF Loop
        <4> QED
          BY <1>1, <2>1, <3>2, <4>2, ItemTree
      <3> QED
        BY <1>11, <3>4, <3>5
    <2> QED
      BY <1>1, <1>3, <2>1 DEF Between, Works, Visits
  <1>19. FirstVisit'
    <2>1. ASSUME NEW q \in 1..n, todo'[q].k = "again", NEW m \in Loop,
                 todo'[q].id \in source.around[m], ~Renamed(m)
          PROVE  \E r \in 1..(q - 1) : Covers(todo'[r], m)
      <3>1. q + 1 \in DOMAIN todo /\ todo[q + 1] = todo'[q]
        BY <1>3
      <3>2. PICK r \in 1..(q + 1 - 1) : Covers(todo[r], m)
        BY <2>1, <3>1 DEF NameInv, FirstVisit
      <3>3. r # 1
        BY <1>1, <3>2 DEF Covers, Visits
      <3>4. r - 1 \in 1..(q - 1) /\ r - 1 \in 1..n /\ (r - 1) + 1 = r
        BY <1>3, <3>3
      <3> QED
        BY <1>3, <3>2, <3>4
    <2>2. ASSUME NEW q \in 1..n, todo'[q].k = "again"
          PROVE  todo'[q].old = source.name[todo'[q].id] /\ todo'[q].new = name[todo'[q].id]
      BY <1>3, <2>2 DEF NameInv, FirstVisit
    <2>3. \A q, m : Covers(todo[q], m)' <=> Covers(todo'[q], m)
      BY <1>1, CoversSame
    <2> QED
      BY <1>1, <1>3, <1>12, <2>1, <2>2, <2>3 DEF FirstVisit, Renamed
  <1>20. SecondVisit'
    BY <1>3, <1>13 DEF SecondVisit
  <1>21. DoneSettled'
    BY <1>1, <1>8, <1>11, <1>12 DEF NameInv, DoneSettled, Same, Settled
  <1>22. CurrentNames' /\ UseNames'
    BY <1>1, <1>12 DEF NameInv, CurrentNames, UseNames, Renamed
  <1> QED
    BY <1>14, <1>15, <1>16, <1>17, <1>18, <1>19, <1>20, <1>21, <1>22 DEF WorkInv, NameInv

LEMMA Surrounded ==
    ASSUME TypeInv, NEW q \in 1..Len(todo), Visits(todo[q]) \/ Works(todo[q])
    PROVE  todo[q].id \in Id /\ \A m \in source.around[todo[q].id] : m \in Loop /\ m \in Id
  <1>1. todo[q] \in Task /\ todo[q].k \in {"visit", "enter", "again", "clear"}
    BY DEF TypeInv, Visits, Works
  <1>2. todo[q].id \in Id
    BY <1>1, Kinds DEF Loop
  <1> QED
    BY <1>2, ItemTree DEF TypeInv, Loop

\* No loop over the name of a variable is between it and the loop at work that
\* gives it its name, as that one would have given it another before.
LEMMA Meant ==
    ASSUME TypeInv, WorkInv, NameInv, todo # <<>>, Visits(todo[1]), oldName # Null,
           todo[1].id \notin Loop, name[todo[1].id] = oldName
    PROVE  /\ name[todo[1].id] = source.name[todo[1].id]
           /\ \E l \in Iterated(todo[1].id) : Renamed(l) /\ newName = name[l]
  <1> DEFINE i == todo[1].id
  <1>1. /\ source \in Programs /\ DOMAIN todo = 1..Len(todo) /\ Len(todo) \in Nat \ {0}
        /\ 1 \in 1..Len(todo) /\ oldName \in Source
    BY DEF TypeInv
  <1>2. i \in Id /\ \A m \in source.around[i] : m \in Loop /\ m \in Id
    BY <1>1, Surrounded
  <1>3. PICK q \in 1..Len(todo) :
          /\ Works(todo[q]) /\ \A r \in 1..(q - 1) : Visits(todo[r])
          /\ oldName = source.name[todo[q].id] /\ newName = name[todo[q].id]
    BY <1>1 DEF NameInv, CurrentNames
  <1>4. q # 1 /\ 1 \in 1..(q - 1) /\ \A s \in (1 + 1)..(q - 1) : ~Works(todo[s])
    <2>1. q # 1
      BY <1>3 DEF Visits, Works
    <2>2. \A s \in (1 + 1)..(q - 1) : s \in 1..(q - 1)
      OBVIOUS
    <2> QED
      BY <1>1, <1>3, <2>1, <2>2 DEF Visits, Works
  <1> DEFINE l == todo[q].id
  <1>5. l \in source.around[i] /\ Renamed(l)
    BY <1>1, <1>3, <1>4 DEF WorkInv, LoopsNested, Outward
  <1>6. \A m \in source.around[i] : l \in source.around[m] => Done(m)
    BY <1>1, <1>3, <1>4 DEF WorkInv, Between
  <1>7. name[i] = source.name[i]
    <2>1. CASE \E m \in Iterated(i) : Renamed(m) /\ name[i] = name[m]
      <3>1. PICK m \in Iterated(i) : Renamed(m) /\ name[i] = name[m]
        BY <2>1
      <3>2. m \in Id
        BY <1>2, <3>1 DEF Iterated
      <3>3. name[m] \in ForName
        BY <3>1, <3>2, LoopOrSource
      <3>4. name[m] \in Source
        BY <1>1, <3>1
      <3>5. name[m][1] = "for" /\ name[m][1] = "id"
        BY <3>3, <3>4 DEF ForName, Source
      <3> QED
        BY <3>5
    <2> QED
      BY <1>2, <2>1 DEF NameInv, UseNames
  <1>8. source.name[l] = source.name[i]
    BY <1>3, <1>7
  <1> HIDE DEF i, l
  <1>9. ASSUME NEW m \in source.around[i], source.name[m] = source.name[i]
        PROVE  m = l \/ m \in source.around[l]
    <2>1. m = l \/ m \in source.around[l] \/ l \in source.around[m]
      BY <1>1, <1>2, <1>5, ItemTree
    <2>2. CASE l \in source.around[m]
      <3>1. Done(m) /\ Same(i, m)
        BY <1>2, <1>6, <1>9, <2>2 DEF Same, i
      <3>2. Settled(i)
        BY <1>2, <3>1 DEF NameInv, DoneSettled
      <3> QED
        BY <1>7, <3>2 DEF Settled
    <2> QED
      BY <2>1, <2>2
  <1>10. l \in Iterated(i)
    BY <1>5, <1>8, <1>9 DEF Iterated
  <1> QED
    BY <1>3, <1>5, <1>7, <1>10 DEF i, l

LEMMA MovedBetween ==
    ASSUME NEW n \in Nat, NEW len \in Nat, NEW p \in 2..len, NEW t \in 2..(p - 1),
           NEW s \in (t + 1)..(p - 1)
    PROVE  s \in 2..len /\ s + n - 1 \in ((t + n - 1) + 1)..((p + n - 1) - 1)
  OBVIOUS

\* Two tasks that move together
LEMMA OldBetween ==
    ASSUME TypeInv, Between, NEW new, Shift(new),
           NEW q \in 1..Len(todo'), Works(todo'[q]), NEW r \in 1..(q - 1), Visits(todo'[r]),
           \A s \in (r + 1)..(q - 1) : ~Works(todo'[s]),
           NEW m \in source.around[todo'[r].id], todo'[q].id \in source.around[m],
           NEW p \in 2..Len(todo), NEW t \in 2..(p - 1),
           q = p + Len(new) - 1, todo'[q] = todo[p], r = t + Len(new) - 1, todo'[r] = todo[t]
    PROVE  m \in Loop /\ Done(m)
  <1>1. Len(new) \in Nat /\ Len(todo) \in Nat \ {0} /\ DOMAIN todo = 1..Len(todo)
    BY Lengths DEF TypeInv
  <1>2. p \in DOMAIN todo /\ t \in 1..(p - 1) /\ t \in 1..Len(todo)
    BY <1>1
  <1>3. ASSUME NEW s \in (t + 1)..(p - 1)
        PROVE  ~Works(todo[s])
    <2>1. s \in 2..Len(todo) /\ s + Len(new) - 1 \in (r + 1)..(q - 1)
      BY <1>1, MovedBetween
    <2>2. PICK u \in 1..Len(todo') : u = s + Len(new) - 1 /\ todo'[u] = todo[s]
      BY <2>1, Moved
    <2> QED
      BY <2>1, <2>2
  <1>4. Done(m)
    BY <1>2, <1>3 DEF Between
  <1> QED
    BY <1>2, <1>4, Surrounded

\* A visit that leads to more of them
LEMMA ExpandsWork ==
    ASSUME TypeInv, WorkInv, NEW new, Expands(new)
    PROVE  WorkInv' /\ \A l \in Loop : Done(l)' <=> Done(l)
  <1> DEFINE i == todo[1].id
             n == Len(new)
  <1>1. /\ Shift(new) /\ Visits(todo[1]) /\ i \in Id /\ source' = source /\ source \in Programs
        /\ DOMAIN todo = 1..Len(todo) /\ DOMAIN todo' = 1..Len(todo')
        /\ Len(todo) \in Nat \ {0} /\ n \in Nat /\ 1 \in 1..Len(todo) /\ todo # <<>>
    <2>1. Shift(new) /\ Visits(todo[1]) /\ i \in Id /\ source' = source
      BY DEF Expands
    <2>2. source \in Programs
      BY DEF TypeInv
    <2> QED
      BY <2>1, <2>2, Stack
  <1>2. \A p \in 1..n : /\ Visits(new[p]) /\ ~Works(new[p]) /\ new[p].id \in Id
                        /\ \/ source.around[new[p].id] = source.around[i]
                           \/ i \in Loop /\ Renamed(i) /\ source.around[new[p].id] = source.around[i] \cup {i}
                        /\ new[p].id \in Loop => \/ new[p].id = i
                                                 \/ i \in Loop /\ Renamed(i) /\ i \in source.around[new[p].id]
    BY DEF Expands, Visits, Works
  <1>3. ~Works(todo[1]) /\ \A l \in Loop : Renamed(l)' <=> Renamed(l)
    BY <1>1 DEF Expands, Visits, Works, Renamed
  <1>4. \A l \in Loop : Done(l)' <=> Done(l)
    <2>1. \A l : Busy(l)' <=> Busy(l)
      BY <1>1, <1>2, <1>3, BusyMoved
    <2> QED
      BY <1>3, <2>1 DEF Done
  <1>5. Id' = Id /\ Loop' = Loop
    BY <1>1, Constant
  <1>6. \A m \in source.around[i] : m \in Loop /\ Renamed(m)
    BY <1>1, Surrounded DEF WorkInv, Outward
  <1>7. \A q \in 2..Len(todo) : Works(todo[q]) => todo[q].id \in source.around[i]
    BY <1>1, Below DEF WorkInv
  <1>8. i \in Loop /\ Renamed(i) => Done(i)
    BY <1>1 DEF WorkInv, VisitsDone
  <1>9. \A l, m \in Loop : Done(l) /\ l \in source.around[m] => Done(m)
    BY DEF WorkInv, DoneInside
  <1>10. /\ \A q \in 1..Len(todo') :
              (q \in 1..n /\ todo'[q] = new[q]) \/ \E r \in 2..Len(todo) : todo'[q] = todo[r]
         /\ \A r \in 2..Len(todo) : r \in 1..Len(todo) /\ 1 \in 1..(r - 1)
    BY <1>1, Anywhere
  <1> HIDE DEF i, n
  <1>11. Outward'
    <2>1. ASSUME NEW q \in 1..Len(todo')
          PROVE  /\ Visits(todo'[q]) => \A m \in source.around[todo'[q].id] : m \in Loop /\ Renamed(m)
                 /\ Works(todo'[q]) => todo'[q].id \in Loop /\ Renamed(todo'[q].id)
      <3>1. CASE q \in 1..n /\ todo'[q] = new[q]
        BY <1>2, <1>6, <3>1
      <3>2. CASE \E r \in 2..Len(todo) : todo'[q] = todo[r]
        <4>1. PICK r \in 2..Len(todo) : todo'[q] = todo[r]
          BY <3>2
        <4>2. r \in 1..Len(todo)
          BY <1>10
        <4>3. /\ Visits(todo[r]) => \A m \in source.around[todo[r].id] : m \in Loop /\ Renamed(m)
              /\ Works(todo[r]) => Renamed(todo[r].id)
          BY <1>1, <4>2, Surrounded DEF WorkInv, Outward
        <4>4. Works(todo[r]) => todo[r].id \in Loop
          BY <1>6, <1>7
        <4> QED
          BY <4>1, <4>3, <4>4
      <3> QED
        BY <1>10, <3>1, <3>2
    <2>2. \A l \in Loop : Renamed(l) => \A m \in source.around[l] : m \in Loop /\ Renamed(m)
      <3>1. \A l \in Loop : \A m \in source.around[l] : m \in Loop
        BY <1>1, ItemTree DEF Loop
      <3> QED
        BY <3>1 DEF WorkInv, Outward
    <2>3. /\ \A l \in Loop : Renamed(l)' => \A m \in source.around[l] : Renamed(m)'
          /\ \A q \in 1..Len(todo') :
               /\ Visits(todo'[q]) => \A m \in source.around[todo'[q].id] : name'[m][1] = "for"
               /\ Works(todo'[q]) => name'[todo'[q].id][1] = "for"
      BY <1>3, <2>1, <2>2 DEF Renamed
    <2> QED
      BY <1>1, <1>5, <2>3 DEF Outward, Renamed, Visits, Works
  <1>12. DoneInside'
    BY <1>1, <1>4, <1>5 DEF WorkInv, DoneInside
  <1>13. LoopsNested'
    <2>1. ASSUME NEW q \in 1..Len(todo'), Works(todo'[q]), NEW r \in 1..(q - 1)
          PROVE  /\ Visits(todo'[r]) \/ Works(todo'[r])
                 /\ todo'[q].id \in source.around[todo'[r].id]
      <3>1. CASE q \in 1..n /\ todo'[q] = new[q]
        BY <1>2, <2>1, <3>1
      <3>2. CASE \E p \in 2..Len(todo) : /\ q = p + n - 1 /\ todo'[q] = todo[p]
                                         /\ r \in 1..n /\ todo'[r] = new[r]
        BY <1>2, <1>7, <2>1, <3>2
      <3>3. CASE \E p \in 2..Len(todo) : \E s \in 2..(p - 1) :
                   /\ q = p + n - 1 /\ todo'[q] = todo[p]
                   /\ r = s + n - 1 /\ todo'[r] = todo[s]
        <4>1. PICK p \in 2..Len(todo) : \E s \in 2..(p - 1) : todo'[q] = todo[p] /\ todo'[r] = todo[s]
          BY <3>3
        <4>2. PICK s \in 2..(p - 1) : todo'[q] = todo[p] /\ todo'[r] = todo[s]
          BY <4>1
        <4>3. p \in DOMAIN todo /\ s \in 1..(p - 1)
          BY <1>1
        <4> QED
          BY <2>1, <4>2, <4>3 DEF WorkInv, LoopsNested
      <3>4. Both(new, q, r)
        BY <1>1, Pairs
      <3> QED
        BY <3>1, <3>2, <3>3, <3>4 DEF Both, n
    <2> QED
      BY <1>1, <2>1 DEF LoopsNested, Works, Visits
  <1>14. VisitsDone'
    <2>1. ASSUME NEW q \in 1..Len(todo'), Visits(todo'[q]), todo'[q].id \in Loop, Renamed(todo'[q].id)
          PROVE  Done(todo'[q].id)
      <3>1. CASE q \in 1..n /\ todo'[q] = new[q]
        BY <1>2, <1>8, <1>9, <2>1, <3>1
      <3>2. CASE \E r \in 2..Len(todo) : todo'[q] = todo[r]
        BY <1>1, <1>10, <2>1, <3>2 DEF WorkInv, VisitsDone
      <3> QED
        BY <1>10, <3>1, <3>2
    <2>2. \A q \in 1..Len(todo') : \A l \in Loop : Visits(todo'[q]) /\ todo'[q].id = l /\ Renamed(l)' => Done(l)'
      BY <1>3, <1>4, <2>1
    <2> QED
      BY <1>1, <1>5, <2>2 DEF VisitsDone, Visits, Renamed, Done, Busy
  <1>15. Between'
    <2>1. ASSUME NEW q \in 1..Len(todo'), Works(todo'[q]), NEW r \in 1..(q - 1), Visits(todo'[r]),
                 \A s \in (r + 1)..(q - 1) : ~Works(todo'[s]),
                 NEW m \in source.around[todo'[r].id], todo'[q].id \in source.around[m]
          PROVE  m \in Loop /\ Done(m)
      <3>1. CASE q \in 1..n /\ todo'[q] = new[q]
        BY <1>2, <2>1, <3>1
      <3>2. CASE \E p \in 2..Len(todo) : /\ q = p + n - 1 /\ todo'[q] = todo[p]
                                         /\ r \in 1..n /\ todo'[r] = new[r]
        <4>1. PICK p \in 2..Len(todo) : q = p + n - 1 /\ todo'[q] = todo[p]
          BY <3>2
        <4>2. r \in 1..n /\ todo'[r] = new[r]
          BY <3>2
        <4>3. m = i => m \in Loop /\ Done(m)
          <5>1. m = i => i \in Loop /\ Renamed(i)
            <6>1. m \notin source.around[m]
              BY <1>1, <1>2, <2>1, <4>2, ItemTree
            <6> QED
              BY <1>2, <2>1, <4>2, <6>1
          <5> QED
            BY <1>8, <5>1
        <4>4. ASSUME m \in source.around[i]
              PROVE  m \in Loop /\ Done(m)
          <5>1. ASSUME NEW s \in (1 + 1)..(p - 1)
                PROVE  ~Works(todo[s])
            <6>1. s \in 2..Len(todo)
              BY <1>1
            <6>2. PICK t \in 1..Len(todo') : t = s + n - 1 /\ todo'[t] = todo[s] /\ t > n
              BY <1>1, <6>1, Moved DEF n
            <6>3. t \in (r + 1)..(q - 1)
              BY <1>1, <4>1, <4>2, <6>2
            <6> QED
              BY <2>1, <6>2, <6>3
          <5>2. p \in DOMAIN todo /\ 1 \in 1..(p - 1)
            BY <1>1
          <5> QED
            BY <1>1, <1>6, <2>1, <4>1, <4>4, <5>1, <5>2 DEF WorkInv, Between, i
        <4> QED
          BY <1>2, <2>1, <4>2, <4>3, <4>4
      <3>3. CASE \E p \in 2..Len(todo) : \E s \in 2..(p - 1) :
                   /\ q = p + n - 1 /\ todo'[q] = todo[p]
                   /\ r = s + n - 1 /\ todo'[r] = todo[s]
        <4>1. Between
          BY DEF WorkInv
        <4>2. PICK p \in 2..Len(todo) : \E s \in 2..(p - 1) :
                     /\ q = p + n - 1 /\ todo'[q] = todo[p]
                     /\ r = s + n - 1 /\ todo'[r] = todo[s]
          BY <3>3
        <4>3. PICK t \in 2..(p - 1) : r = t + n - 1 /\ todo'[r] = todo[t]
          BY <4>2
        <4> QED
          BY <1>1, <2>1, <4>1, <4>2, <4>3, OldBetween DEF n
      <3>4. Both(new, q, r)
        BY <1>1, Pairs
      <3> QED
        BY <3>1, <3>2, <3>3, <3>4 DEF Both, n
    <2>2. \A q \in 1..Len(todo') : Works(todo'[q]) => \A r \in 1..(q - 1) :
            Visits(todo'[r]) /\ (\A s \in (r + 1)..(q - 1) : ~Works(todo'[s])) =>
              \A m \in source.around[todo'[r].id] : todo'[q].id \in source.around[m] => Done(m)'
      BY <1>4, <2>1
    <2> QED
      BY <1>1, <2>2 DEF Between, Works, Visits
  <1> QED
    BY <1>4, <1>11, <1>12, <1>13, <1>14, <1>15 DEF WorkInv

\* A visit settles what it visits, and gives a variable the name it means.
LEMMA ExpandsNames ==
    ASSUME TypeInv, WorkInv, NameInv, NEW new, Expands(new)
    PROVE  NameInv'
  <1> DEFINE i == todo[1].id
             n == Len(new)
  <1>1. /\ Shift(new) /\ Visits(todo[1]) /\ i \in Id /\ source' = source /\ source \in Programs
        /\ DOMAIN todo = 1..Len(todo) /\ DOMAIN todo' = 1..Len(todo')
        /\ Len(todo) \in Nat \ {0} /\ n \in Nat /\ 1 \in 1..Len(todo) /\ todo # <<>>
        /\ oldName' = oldName /\ newName' = newName
    <2>1. Shift(new) /\ Visits(todo[1]) /\ i \in Id /\ source' = source /\ UNCHANGED <<oldName, newName>>
      BY DEF Expands
    <2>2. source \in Programs
      BY DEF TypeInv
    <2> QED
      BY <2>1, <2>2, Stack
  <1>2. \A p \in 1..n : Visits(new[p]) /\ new[p].k \notin {"again", "clear"}
    BY DEF Expands, Visits
  <1>3. /\ \A l \in Loop : name'[l] = name[l]
        /\ \A j \in Id \ Loop : name'[j] = name[j] \/ (j = i /\ oldName # Null /\ name[j] = oldName /\ name'[j] = newName)
        /\ i \notin Loop /\ oldName # Null /\ name[i] = oldName => name'[i] = newName
    BY DEF Expands
  <1>4. /\ \A j \in Id : Covers(todo[1], j) =>
             (j = i /\ (j \in Loop => Renamed(j))) \/ \E p \in 1..n : Covers(new[p], j)
    BY DEF Expands
  <1>5. Id' = Id /\ Loop' = Loop /\ \A j : Iterated(j)' = Iterated(j)
    BY <1>1, Constant
  <1>6. \A l \in Loop : Done(l)' <=> Done(l)
    BY ExpandsWork
  <1>7. \A l \in Loop : l \in Id /\ (Renamed(l)' <=> Renamed(l))
    BY <1>3 DEF Renamed, Loop
  <1>8. \A j \in Id : source.name[j] \in Source
    BY <1>1, Types
  <1>9. oldName # Null => newName \in ForName
    BY DEF TypeInv
  <1>10. \A x \in Source : x \notin ForName /\ x # Null
    BY NullAssumption DEF Source, ForName
  <1>11. \A j \in Id \ Loop : Settled(j) => Settled(j)'
    <2>1. \A j \in Id \ Loop : name[j] # source.name[j] => name'[j] # source.name[j]
      BY <1>3, <1>8, <1>9, <1>10
    <2> QED
      BY <1>1, <2>1 DEF Settled
  \* The new tasks and those that stay
  <1>12. ASSUME NEW q \in 1..Len(todo'), Works(todo'[q])
         PROVE  \E p \in 2..Len(todo) : /\ q = p + n - 1 /\ todo'[q] = todo[p]
                                        /\ p \in 1..Len(todo)
    <2>1. ~(q \in 1..n /\ todo'[q] = new[q])
      BY <1>2, <1>12 DEF Works
    <2>2. PICK p \in 2..Len(todo) : q = p + n - 1 /\ todo'[q] = todo[p]
      BY <1>1, <2>1, NewOrOld
    <2> QED
      BY <1>1, <2>2
  <1>13. ASSUME NEW p \in 2..Len(todo), NEW j \in Id, NEW r \in 1..(p - 1), Covers(todo[r], j),
                ~(j = i /\ (j \in Loop => Renamed(j)))
         PROVE  \E s \in 1..(p + n - 1 - 1) : Covers(todo'[s], j)
    <2>1. CASE r = 1
      <3>1. PICK s \in 1..n : Covers(new[s], j)
        BY <1>4, <1>13, <2>1
      <3>2. todo'[s] = new[s]
        BY <1>1, Anywhere
      <3>3. s \in 1..(p + n - 1 - 1)
        BY <1>1
      <3> QED
        BY <3>1, <3>2, <3>3
    <2>2. CASE r # 1
      <3>1. r \in 2..Len(todo)
        BY <1>1, <2>2
      <3>2. PICK s \in 1..Len(todo') : s = r + n - 1 /\ todo'[s] = todo[r]
        BY <1>1, <3>1, Moved
      <3> HIDE DEF n
      <3>3. s \in 1..(p + n - 1 - 1)
        BY <1>1, <3>2
      <3> QED
        BY <1>13, <3>2, <3>3
    <2> QED
      BY <2>1, <2>2
  <1>14. \A q, m : Covers(todo[q], m)' <=> Covers(todo'[q], m)
    BY <1>1, CoversSame
  <1>15. FirstVisit'
    <2>1. ASSUME NEW q \in 1..Len(todo'), todo'[q].k = "again"
          PROVE  /\ todo'[q].old = source.name[todo'[q].id] /\ todo'[q].new = name'[todo'[q].id]
                 /\ \A l \in Loop : todo'[q].id \in source.around[l] /\ ~Renamed(l) =>
                      \E r \in 1..(q - 1) : Covers(todo'[r], l)
      <3>1. Works(todo'[q])
        BY <2>1 DEF Works
      <3>2. PICK p \in 2..Len(todo) : q = p + n - 1 /\ todo'[q] = todo[p] /\ p \in 1..Len(todo)
        BY <1>12, <3>1
      <3>3. todo[p].id \in Loop
        <4>1. todo[p].k = "again" /\ todo[p] \in Task
          BY <2>1, <3>2 DEF TypeInv
        <4> QED
          BY <4>1, Kinds
      <3>4. /\ todo[p].old = source.name[todo[p].id] /\ todo[p].new = name[todo[p].id]
            /\ \A l \in Loop : todo[p].id \in source.around[l] /\ ~Renamed(l) =>
                 \E r \in 1..(p - 1) : Covers(todo[r], l)
        BY <1>1, <2>1, <3>2 DEF NameInv, FirstVisit
      <3>5. ASSUME NEW l \in Loop, todo[p].id \in source.around[l], ~Renamed(l)
            PROVE  \E r \in 1..(q - 1) : Covers(todo'[r], l)
        <4>1. PICK r \in 1..(p - 1) : Covers(todo[r], l)
          BY <3>4, <3>5
        <4> QED
          BY <1>7, <1>13, <3>2, <3>5, <4>1
      <3> QED
        BY <1>3, <3>2, <3>3, <3>4, <3>5
    <2>2. \A l \in Loop : Renamed(l)' <=> Renamed(l)
      BY <1>7
    <2> QED
      BY <1>1, <1>5, <1>14, <2>1, <2>2 DEF FirstVisit
  <1>16. SecondVisit'
    <2>1. ASSUME NEW q \in 1..Len(todo'), todo'[q].k = "clear"
          PROVE  /\ oldName = source.name[todo'[q].id]
                 /\ \A l \in Loop : todo'[q].id \in source.around[l] => Done(l)
                 /\ \A j \in Id : Same(j, todo'[q].id) =>
                      Settled(j)' \/ \E r \in 1..(q - 1) : Covers(todo'[r], j)
      <3>1. Works(todo'[q])
        BY <2>1 DEF Works
      <3>2. PICK p \in 2..Len(todo) : q = p + n - 1 /\ todo'[q] = todo[p] /\ p \in 1..Len(todo)
        BY <1>12, <3>1
      <3>3. todo[p].id \in Id
        <4>1. todo[p].k = "clear" /\ todo[p] \in Task
          BY <2>1, <3>2 DEF TypeInv
        <4> QED
          BY <4>1, Kinds DEF Loop
      <3>4. /\ oldName = source.name[todo[p].id]
            /\ \A l \in Loop : todo[p].id \in source.around[l] => Done(l)
            /\ \A j \in Id : Same(j, todo[p].id) =>
                 Settled(j) \/ \E r \in 1..(p - 1) : Covers(todo[r], j)
        BY <1>1, <2>1, <3>2 DEF NameInv, SecondVisit
      <3>5. ASSUME NEW j \in Id, Same(j, todo[p].id), ~Settled(j)
            PROVE  Settled(j)' \/ \E r \in 1..(q - 1) : Covers(todo'[r], j)
        <4>1. PICK r \in 1..(p - 1) : Covers(todo[r], j)
          BY <3>4, <3>5
        <4>2. CASE j = i
          <5>1. name[i] = oldName /\ oldName # Null /\ i \notin Loop
            BY <1>8, <1>10, <3>3, <3>4, <3>5, <4>2 DEF Same, Settled
          <5>2. name'[j] # source.name[j]
            BY <1>3, <1>8, <1>9, <1>10, <4>2, <5>1
          <5> QED
            BY <1>1, <5>2 DEF Settled
        <4>3. CASE j # i
          BY <1>13, <3>2, <4>1, <4>3
        <4> QED
          BY <4>2, <4>3
      <3>6. \A j \in Id : Same(j, todo[p].id) => j \in Id \ Loop
        BY DEF Same
      <3> QED
        BY <1>11, <3>2, <3>4, <3>5, <3>6
    <2>2. \A q \in 1..Len(todo') : \A j \in Id : Same(j, todo[q].id)' <=> Same(j, todo'[q].id)
      BY <1>1, <1>5 DEF Same
    <2> QED
      BY <1>1, <1>5, <1>6, <1>14, <2>1, <2>2 DEF SecondVisit
  <1>17. DoneSettled'
    <2>1. \A l \in Loop : Done(l) => \A j \in Id : Same(j, l) => j \in Id \ Loop /\ Settled(j)
      BY DEF NameInv, DoneSettled, Same
    <2>2. \A l \in Loop : Done(l)' => \A j \in Id : Same(j, l) => Settled(j)'
      BY <1>6, <1>11, <2>1
    <2>3. \A j, l : Same(j, l)' <=> Same(j, l)
      BY <1>1, <1>5 DEF Same
    <2> QED
      BY <1>5, <2>2, <2>3 DEF DoneSettled
  <1>18. CurrentNames'
    <2>1. ASSUME oldName # Null
          PROVE  \E q \in 1..Len(todo') :
                   /\ Works(todo'[q]) /\ \A r \in 1..(q - 1) : Visits(todo'[r])
                   /\ oldName = source.name[todo'[q].id] /\ newName = name'[todo'[q].id]
      <3>1. PICK p \in 1..Len(todo) :
              /\ Works(todo[p]) /\ \A r \in 1..(p - 1) : Visits(todo[r])
              /\ oldName = source.name[todo[p].id] /\ newName = name[todo[p].id]
        BY <1>1, <2>1 DEF NameInv, CurrentNames
      <3>2. p # 1
        BY <1>1, <3>1 DEF Visits, Works
      <3>3. p \in 2..Len(todo)
        BY <1>1, <3>2
      <3>4. PICK q \in 1..Len(todo') : q = p + n - 1 /\ todo'[q] = todo[p]
        BY <1>1, <3>3, Moved
      <3>5. ASSUME NEW r \in 1..(q - 1)
            PROVE  Visits(todo'[r])
        <4>1. Both(new, q, r)
          BY <1>1, Pairs
        <4>2. CASE r \in 1..n /\ todo'[r] = new[r]
          BY <1>2, <4>2
        <4>3. CASE \E u \in 2..Len(todo) : \E s \in 2..(u - 1) :
                     q = u + n - 1 /\ todo'[r] = todo[s]
          <5>1. PICK u \in 2..Len(todo) : \E s \in 2..(u - 1) :
                     q = u + n - 1 /\ todo'[r] = todo[s]
            BY <4>3
          <5>2. PICK s \in 2..(u - 1) : q = u + n - 1 /\ todo'[r] = todo[s]
            BY <5>1
          <5> HIDE DEF n
          <5>3. u = p /\ s \in 1..(p - 1)
            BY <1>1, <3>4, <5>2
          <5> QED
            BY <3>1, <5>2, <5>3
        <4> QED
          BY <4>1, <4>2, <4>3 DEF Both
      <3>6. todo[p].id \in Loop
        <4>1. todo[p].k \in {"again", "clear"} /\ todo[p] \in Task
          BY <3>1 DEF TypeInv, Works
        <4> QED
          BY <4>1, Kinds
      <3> QED
        BY <1>3, <3>1, <3>4, <3>5, <3>6
    <2> QED
      BY <1>1, <2>1 DEF CurrentNames, Visits, Works
  <1>19. UseNames'
    <2>1. ASSUME NEW j \in Id \ Loop
          PROVE  name'[j] = source.name[j] \/ \E l \in Iterated(j) : Renamed(l) /\ name'[j] = name'[l]
      <3>1. \A l \in Iterated(j) : l \in Loop
        BY <1>1, ItemTree DEF Iterated
      <3>2. CASE name'[j] = name[j]
        BY <1>3, <3>1, <3>2 DEF NameInv, UseNames
      <3>3. CASE name'[j] # name[j]
        <4>1. j = i /\ oldName # Null /\ name[j] = oldName /\ name'[j] = newName
          BY <1>3, <3>3
        <4>2. \E l \in Iterated(i) : Renamed(l) /\ newName = name[l]
          BY <1>1, <4>1, Meant
        <4> QED
          BY <1>3, <3>1, <4>1, <4>2
      <3> QED
        BY <3>2, <3>3
    <2>2. \A j \in Id \ Loop : name'[j] = source.name[j] \/ \E l \in Iterated(j) : Renamed(l)' /\ name'[j] = name'[l]
      <3>1. \A j \in Id \ Loop : \A l \in Iterated(j) : l \in Loop
        BY <1>1, ItemTree DEF Iterated
      <3> QED
        BY <1>7, <2>1, <3>1
    <2> QED
      BY <1>1, <1>5, <2>2 DEF UseNames
  <1> QED
    BY <1>15, <1>16, <1>17, <1>18, <1>19 DEF NameInv

\* A loop whose block is visited, for the first or the second time
EntersBlock(new, last) ==
  LET l == todo[1].id
  IN
  /\ l \in Loop /\ l \in Id /\ PushesBlock(new, l, last) /\ Works(last) /\ last.id = l
  /\ \/ /\ todo[1].k = "enter" /\ ~Renamed(l)
        /\ last.k = "again" /\ last.old = source.name[l] /\ last.new = name'[l]
     \/ todo[1].k = "again" /\ last.k = "clear"
  /\ source' = source
  /\ name'[l][1] = "for" /\ \A m \in Id : m # l \/ Renamed(l) => name'[m] = name[m]
  /\ oldName' = source.name[l] /\ newName' = name'[l]

LEMMA FirstEnters ==
    ASSUME TypeInv, LoopNames, NEW new, FirstVisited(new)
    PROVE  EntersBlock(new, Again(todo[1].id, name[todo[1].id], NewName(name[todo[1].id])))
  <1> DEFINE l == todo[1].id
             n == NewName(name[l])
             last == Again(l, name[l], n)
  <1>1. /\ todo[1].k = "enter" /\ l \in Loop /\ l \in Id /\ ~Renamed(l) /\ source' = source
        /\ PushesBlock(new, l, last) /\ name' = [name EXCEPT ![l] = n]
        /\ oldName' = name[l] /\ newName' = n /\ name \in [Id -> Name]
    BY DEF FirstVisited, Loop, TypeInv
  <1>2. Works(last) /\ last.k = "again" /\ last.id = l /\ last.old = name[l] /\ last.new = n
    BY DEF Again, Works
  <1>3. n[1] = "for"
    BY DEF NewName
  <1>4. name[l] = source.name[l]
    BY <1>1 DEF LoopNames
  <1> HIDE DEF n, last
  <1>5. name'[l] = n /\ \A m \in Id : m # l => name'[m] = name[m]
    BY <1>1
  <1>6. EntersBlock(new, last)
    BY <1>1, <1>2, <1>3, <1>4, <1>5 DEF EntersBlock
  <1> QED
    BY <1>6 DEF last, n

LEMMA SecondEnters ==
    ASSUME TypeInv, WorkInv, NameInv, NEW new, SecondVisited(new)
    PROVE  EntersBlock(new, Clear(todo[1].id))
  <1> DEFINE l == todo[1].id
             last == Clear(l)
  <1>1. /\ todo[1].k = "again" /\ l \in Loop /\ l \in Id /\ UNCHANGED <<source, name>>
        /\ PushesBlock(new, l, last) /\ oldName' = todo[1].old /\ newName' = todo[1].new
    BY DEF SecondVisited, Loop
  <1>2. 1 \in DOMAIN todo
    BY <1>1, Stack DEF PushesBlock
  <1>3. todo[1].old = source.name[l] /\ todo[1].new = name[l] /\ Renamed(l)
    BY <1>1, <1>2 DEF NameInv, FirstVisit, WorkInv, Outward, Works
  <1>4. Works(last) /\ last.k = "clear" /\ last.id = l
    BY DEF Clear, Works
  <1> HIDE DEF last
  <1>5. EntersBlock(new, last)
    BY <1>1, <1>3, <1>4 DEF EntersBlock, Renamed
  <1> QED
    BY <1>5 DEF last

LEMMA EntersWork ==
    ASSUME TypeInv, WorkInv, DueOnce, NEW new, NEW last, EntersBlock(new, last)
    PROVE  WorkInv' /\ \A m \in Loop : Done(m)' <=> Done(m)
  <1> DEFINE l == todo[1].id
             n == Len(new)
  <1>1. /\ l \in Loop /\ l \in Id /\ PushesBlock(new, l, last) /\ Works(last) /\ last.id = l
        /\ source' = source /\ source \in Programs
        /\ name'[l][1] = "for" /\ \A m \in Id : m # l => name'[m] = name[m]
    BY DEF EntersBlock, TypeInv
  <1>2. /\ Shift(new) /\ DOMAIN todo = 1..Len(todo) /\ DOMAIN todo' = 1..Len(todo')
        /\ Len(todo) \in Nat \ {0} /\ 1 \in 1..Len(todo) /\ todo # <<>>
    BY <1>1, Stack DEF PushesBlock
  <1>3. /\ n \in Nat \ {0} /\ new[n] = last
        /\ \A p \in 1..(n - 1) :
             /\ new[p].k = "visit" /\ new[p].id \in Id
             /\ source.around[new[p].id] = source.around[l] \cup {l}
    BY <1>1, PushedBlock
  <1>4. (todo[1].k = "enter" /\ ~Renamed(l) /\ Visits(todo[1])) \/ (todo[1].k = "again" /\ Works(todo[1]))
    BY DEF EntersBlock, Visits, Works
  <1>5. \A q \in 2..Len(todo) : Works(todo[q]) => todo[q].id \in source.around[l]
    BY <1>2, Below DEF WorkInv
  <1>6. /\ l \notin source.around[l] /\ \A m \in source.around[l] : m \in Loop /\ m \in Id
        /\ \A m \in Id : l \in source.around[m] => m # l /\ m \notin source.around[l]
    BY <1>1, ItemTree, Apart DEF Loop
  <1>7. todo[1].k = "again" => Renamed(l)
    BY <1>2, <1>4 DEF WorkInv, Outward, Works
  <1>8. \A m \in source.around[l] : Renamed(m)
    BY <1>1, <1>2, <1>4, <1>7 DEF WorkInv, Outward
  <1>9. \A m \in Loop : m \in Id /\ (Renamed(m)' <=> m = l \/ Renamed(m))
    BY <1>1 DEF Renamed, Loop
  <1>10. /\ \A p \in 1..n : p = n \/ p \in 1..(n - 1)
         /\ n \in 1..n /\ \A p \in 1..(n - 1) : p \in 1..n
    BY <1>3
  <1>11. \A p \in 1..n : \/ p = n /\ new[p] = last
                         \/ /\ p \in 1..(n - 1) /\ new[p].k = "visit" /\ Visits(new[p]) /\ ~Works(new[p])
                            /\ new[p].id \in Id /\ source.around[new[p].id] = source.around[l] \cup {l}
    BY <1>3, <1>10 DEF Visits, Works
  <1>12. ~Visits(last)
    BY <1>1 DEF Visits, Works
  <1>13. \A m : /\ m # l => (Busy(m)' <=> Busy(m))
                /\ m = l => Busy(m)'
    <2> TAKE m
    <2>1. \E p \in 1..n : Works(new[p]) /\ new[p].id = l
      BY <1>1, <1>3, <1>10
    <2>2. \A p \in 1..n : Works(new[p]) => new[p].id = l
      BY <1>1, <1>11
    <2>3. ~Works(todo[1]) \/ todo[1].id = l
      OBVIOUS
    <2> HIDE DEF l
    <2> QED
      BY <1>2, <2>1, <2>2, <2>3, BusyMoved DEF n
  <1>14. ~Done(l)
    <2>1. todo[1].k = "again" => Busy(l)
      BY <1>2, <1>4 DEF Busy
    <2> QED
      BY <1>4, <2>1 DEF Done
  <1> HIDE DEF l, n
  <1>15. \A m \in Loop : Done(m)' <=> Done(m)
    BY <1>9, <1>13, <1>14 DEF Done
  <1>16. Id' = Id /\ Loop' = Loop
    BY <1>1, Constant
  <1>17. /\ \A q \in 1..Len(todo') :
              (q \in 1..n /\ todo'[q] = new[q]) \/ \E r \in 2..Len(todo) : todo'[q] = todo[r]
         /\ \A r \in 2..Len(todo) : r \in 1..Len(todo) /\ 1 \in 1..(r - 1)
    BY <1>2, Anywhere DEF n
  <1>18. Outward'
    <2>1. ASSUME NEW q \in 1..Len(todo')
          PROVE  /\ Visits(todo'[q]) => \A m \in source.around[todo'[q].id] : m \in Loop /\ (m = l \/ Renamed(m))
                 /\ Works(todo'[q]) => todo'[q].id \in Loop /\ (todo'[q].id = l \/ Renamed(todo'[q].id))
      <3>1. CASE q \in 1..n /\ todo'[q] = new[q]
        BY <1>1, <1>6, <1>8, <1>11, <1>12, <3>1
      <3>2. CASE \E r \in 2..Len(todo) : todo'[q] = todo[r]
        <4>1. PICK r \in 2..Len(todo) : todo'[q] = todo[r]
          BY <3>2
        <4>2. r \in 1..Len(todo)
          BY <1>17
        <4>3. /\ Visits(todo[r]) => \A m \in source.around[todo[r].id] : m \in Loop /\ Renamed(m)
              /\ Works(todo[r]) => Renamed(todo[r].id)
          BY <1>2, <4>2, Surrounded DEF WorkInv, Outward
        <4>4. Works(todo[r]) => todo[r].id \in Loop
          BY <1>5, <1>6
        <4> QED
          BY <4>1, <4>3, <4>4
      <3> QED
        BY <1>17, <3>1, <3>2
    <2>2. \A m \in Loop : m = l \/ Renamed(m) => \A k \in source.around[m] : k \in Loop /\ Renamed(k)
      <3>1. \A m \in Loop : \A k \in source.around[m] : k \in Loop
        BY <1>1, ItemTree DEF Loop
      <3> QED
        BY <1>8, <3>1 DEF WorkInv, Outward
    <2>3. /\ \A m \in Loop : Renamed(m)' => \A k \in source.around[m] : name'[k][1] = "for"
          /\ \A q \in 1..Len(todo') :
               /\ Visits(todo'[q]) => \A m \in source.around[todo'[q].id] : name'[m][1] = "for"
               /\ Works(todo'[q]) => name'[todo'[q].id][1] = "for"
      <3>1. \A m \in Loop : m = l \/ Renamed(m) => name'[m][1] = "for"
        BY <1>9 DEF Renamed
      <3> QED
        BY <1>9, <2>1, <2>2, <3>1
    <2> QED
      BY <1>2, <1>1, <1>16, <2>3 DEF Outward, Renamed, Visits, Works
  <1>19. DoneInside'
    BY <1>1, <1>15, <1>16 DEF WorkInv, DoneInside
  <1>20. LoopsNested'
    <2>1. ASSUME NEW q \in 1..Len(todo'), Works(todo'[q]), NEW r \in 1..(q - 1)
          PROVE  /\ Visits(todo'[r]) \/ Works(todo'[r])
                 /\ todo'[q].id \in source.around[todo'[r].id]
      <3>1. CASE /\ q \in 1..n /\ todo'[q] = new[q]
                 /\ r \in 1..n /\ todo'[r] = new[r]
        <4>1. q = n /\ todo'[q].id = l
          BY <1>1, <1>11, <2>1, <3>1
        <4>2. r # n
          BY <1>3, <4>1
        <4> QED
          BY <1>11, <3>1, <4>1, <4>2
      <3>2. CASE \E p \in 2..Len(todo) : /\ q = p + n - 1 /\ todo'[q] = todo[p]
                                         /\ r \in 1..n /\ todo'[r] = new[r]
        BY <1>1, <1>5, <1>11, <2>1, <3>2
      <3>3. CASE \E p \in 2..Len(todo) : \E s \in 2..(p - 1) :
                   /\ q = p + n - 1 /\ todo'[q] = todo[p]
                   /\ r = s + n - 1 /\ todo'[r] = todo[s]
        <4>1. PICK p \in 2..Len(todo) : \E s \in 2..(p - 1) : todo'[q] = todo[p] /\ todo'[r] = todo[s]
          BY <3>3
        <4>2. PICK s \in 2..(p - 1) : todo'[q] = todo[p] /\ todo'[r] = todo[s]
          BY <4>1
        <4>3. p \in DOMAIN todo /\ s \in 1..(p - 1)
          BY <1>2
        <4> QED
          BY <2>1, <4>2, <4>3 DEF WorkInv, LoopsNested
      <3>4. Both(new, q, r)
        BY <1>2, Pairs
      <3> QED
        BY <3>1, <3>2, <3>3, <3>4 DEF Both, n
    <2> QED
      BY <1>1, <1>2, <2>1 DEF LoopsNested, Works, Visits
  <1>21. VisitsDone'
    <2>1. ASSUME NEW q \in 1..Len(todo'), Visits(todo'[q]), NEW m \in Loop, todo'[q].id = m, Renamed(m)'
          PROVE  Done(m)
      <3>1. m = l \/ Renamed(m)
        BY <1>9, <2>1
      <3>2. CASE q \in 1..n /\ todo'[q] = new[q]
        <4>1. l \in source.around[m]
          BY <1>11, <1>12, <2>1, <3>2
        <4>2. Renamed(m) /\ m # l /\ m \notin source.around[l] /\ m \in Id
          BY <1>6, <1>9, <3>1, <4>1
        <4>3. todo[1].k = "again"
          BY <1>4, <4>1, <4>2 DEF WorkInv, Outward, l
        <4>4. ~Busy(m)
          BY <1>2, <1>5, <4>2, BusyMoved DEF l
        <4> QED
          BY <4>2, <4>4 DEF Done
      <3>3. CASE \E r \in 2..Len(todo) : todo'[q] = todo[r]
        <4>1. PICK r \in 2..Len(todo) : todo'[q] = todo[r]
          BY <3>3
        <4>2. r \in 1..Len(todo) /\ r # 1
          BY <1>17
        <4>3. Renamed(m) => Done(m)
          BY <1>2, <2>1, <4>1, <4>2 DEF WorkInv, VisitsDone
        <4>4. CASE m = l /\ ~Renamed(l)
          <5>1. Visits(todo[1]) /\ todo[1].id = l
            BY <1>4, <1>7, <4>4 DEF l
          <5>2. Covers(todo[1], l) /\ Covers(todo[r], l)
            BY <2>1, <4>1, <4>4, <5>1 DEF Covers
          <5> QED
            BY <1>1, <1>2, <4>2, <4>4, <5>2 DEF DueOnce
        <4> QED
          BY <3>1, <4>3, <4>4
      <3> QED
        BY <1>17, <3>2, <3>3
    <2>2. \A q \in 1..Len(todo') : \A m \in Loop : Visits(todo'[q]) /\ todo'[q].id = m /\ Renamed(m)' => Done(m)'
      BY <1>15, <2>1
    <2> QED
      BY <1>1, <1>2, <1>16, <2>2 DEF VisitsDone, Visits, Renamed, Done, Busy
  <1>22. Between'
    <2>1. ASSUME NEW q \in 1..Len(todo'), Works(todo'[q]), NEW r \in 1..(q - 1), Visits(todo'[r]),
                 \A s \in (r + 1)..(q - 1) : ~Works(todo'[s]),
                 NEW m \in source.around[todo'[r].id], todo'[q].id \in source.around[m]
          PROVE  m \in Loop /\ Done(m)
      <3>1. CASE /\ q \in 1..n /\ todo'[q] = new[q]
                 /\ r \in 1..n /\ todo'[r] = new[r]
        <4>1. todo'[q].id = l /\ source.around[todo'[r].id] = source.around[l] \cup {l}
          BY <1>1, <1>11, <1>12, <2>1, <3>1
        <4> QED
          BY <1>6, <2>1, <4>1
      <3>2. CASE \E p \in 2..Len(todo) : /\ q = p + n - 1 /\ todo'[q] = todo[p]
                                         /\ r \in 1..n /\ todo'[r] = new[r]
        <4>1. r \in 1..(n - 1)
          BY <1>11, <1>12, <2>1, <3>2
        <4>2. n \in (r + 1)..(q - 1)
          BY <1>3, <3>2, <4>1
        <4>3. todo'[n] = last
          BY <1>2, <1>3, <1>10, Anywhere DEF n
        <4> QED
          BY <1>1, <2>1, <4>2, <4>3
      <3>3. CASE \E p \in 2..Len(todo) : \E s \in 2..(p - 1) :
                   /\ q = p + n - 1 /\ todo'[q] = todo[p]
                   /\ r = s + n - 1 /\ todo'[r] = todo[s]
        <4>1. Between
          BY DEF WorkInv
        <4>2. PICK p \in 2..Len(todo) : \E s \in 2..(p - 1) :
                     /\ q = p + n - 1 /\ todo'[q] = todo[p]
                     /\ r = s + n - 1 /\ todo'[r] = todo[s]
          BY <3>3
        <4>3. PICK t \in 2..(p - 1) : r = t + n - 1 /\ todo'[r] = todo[t]
          BY <4>2
        <4> QED
          BY <1>2, <2>1, <4>1, <4>2, <4>3, OldBetween DEF n
      <3>4. Both(new, q, r)
        BY <1>2, Pairs
      <3> QED
        BY <3>1, <3>2, <3>3, <3>4 DEF Both, n
    <2>2. \A q \in 1..Len(todo') : Works(todo'[q]) => \A r \in 1..(q - 1) :
            Visits(todo'[r]) /\ (\A s \in (r + 1)..(q - 1) : ~Works(todo'[s])) =>
              \A m \in source.around[todo'[r].id] : todo'[q].id \in source.around[m] => Done(m)'
      BY <1>15, <2>1
    <2> QED
      BY <1>1, <1>2, <2>2 DEF Between, Works, Visits
  <1> QED
    BY <1>15, <1>18, <1>19, <1>20, <1>21, <1>22 DEF WorkInv

LEMMA EntersNames ==
    ASSUME TypeInv, WorkInv, NameInv, DueOnce, NEW new, NEW last, EntersBlock(new, last)
    PROVE  NameInv'
  <1> DEFINE l == todo[1].id
             n == Len(new)
  <1>1. /\ l \in Loop /\ l \in Id /\ PushesBlock(new, l, last) /\ Works(last) /\ last.id = l
        /\ source' = source /\ source \in Programs
        /\ name'[l][1] = "for" /\ \A m \in Id : m # l \/ Renamed(l) => name'[m] = name[m]
        /\ oldName' = source.name[l] /\ newName' = name'[l]
    BY DEF EntersBlock, TypeInv
  <1>2. /\ Shift(new) /\ DOMAIN todo = 1..Len(todo) /\ DOMAIN todo' = 1..Len(todo')
        /\ Len(todo) \in Nat \ {0} /\ 1 \in 1..Len(todo) /\ todo # <<>>
    BY <1>1, Stack DEF PushesBlock
  <1>3. /\ n \in Nat \ {0} /\ new[n] = last
        /\ \A p \in 1..(n - 1) : new[p].k = "visit"
        /\ \A i \in Id : l \in source.around[i] => \E p \in 1..(n - 1) : Covers(new[p], i)
    BY <1>1, PushedBlock
  <1>4. \/ /\ todo[1].k = "enter" /\ ~Renamed(l) /\ Visits(todo[1])
           /\ last.k = "again" /\ last.old = source.name[l] /\ last.new = name'[l]
        \/ todo[1].k = "again" /\ Works(todo[1]) /\ last.k = "clear"
    BY DEF EntersBlock, Visits, Works
  <1>5. \A q \in 2..Len(todo) : Works(todo[q]) => todo[q].id \in source.around[l]
    BY <1>2, Below DEF WorkInv
  <1>6. /\ l \notin source.around[l] /\ \A m \in source.around[l] : m \in Loop /\ m \in Id
        /\ \A m \in Id : l \in source.around[m] => m # l /\ m \notin source.around[l]
    BY <1>1, ItemTree, Apart DEF Loop
  <1>7. todo[1].k = "again" => Renamed(l) /\ Busy(l)
    BY <1>2, <1>4 DEF WorkInv, Outward, Works, Busy
  <1>8. ~Done(l)
    BY <1>4, <1>7 DEF Done
  <1>9. \A m \in Loop : m \in Id /\ (Renamed(m)' <=> m = l \/ Renamed(m))
    BY <1>1 DEF Renamed, Loop
  <1>10. \A m \in Loop : Done(m)' <=> Done(m)
    BY EntersWork
  <1>11. Id' = Id /\ Loop' = Loop /\ \A i : Iterated(i)' = Iterated(i)
    BY <1>1, Constant
  <1>12. /\ \A p \in 1..n : p \in 1..Len(todo') /\ todo'[p] = new[p]
         /\ n \in 1..n /\ \A p \in 1..(n - 1) : p \in 1..n /\ Visits(new[p]) /\ ~Works(new[p])
         /\ \A p \in 1..n : p = n \/ p \in 1..(n - 1)
    BY <1>2, <1>3, Anywhere DEF Visits, Works
  <1>13. ASSUME NEW q \in 1..Len(todo'), Works(todo'[q])
         PROVE  \/ q = n /\ todo'[q] = last
                \/ \E p \in 2..Len(todo) : /\ q = p + n - 1 /\ todo'[q] = todo[p]
                                           /\ p \in 1..Len(todo)
    <2>1. CASE q \in 1..n /\ todo'[q] = new[q]
      BY <1>3, <1>12, <1>13, <2>1
    <2>2. CASE \E p \in 2..Len(todo) : q = p + n - 1 /\ todo'[q] = todo[p]
      BY <1>2, <2>2
    <2> QED
      BY <1>2, <2>1, <2>2, NewOrOld
  <1>14. ASSUME NEW i \in Id, l \in source.around[i], NEW q, q \in Int, q >= n
         PROVE  \E r \in 1..(q - 1) : Covers(todo'[r], i)
    <2>1. PICK p \in 1..(n - 1) : Covers(new[p], i)
      BY <1>3, <1>14
    <2>2. Covers(todo'[p], i)
      BY <1>12, <2>1
    <2>3. p \in 1..(q - 1)
      BY <1>3, <1>14
    <2> QED
      BY <2>2, <2>3
  <1>15. ASSUME NEW p \in 2..Len(todo), Works(todo[p])
         PROVE  /\ todo[p].id \in Loop /\ todo[p].id \in Id /\ todo[p].id # l
                /\ name'[todo[p].id] = name[todo[p].id] /\ todo[p].k # "clear"
    <2>1. todo[p].id \in source.around[l] /\ p \in DOMAIN todo
      BY <1>2, <1>5, <1>15
    <2>2. todo[p].id \in Loop /\ todo[p].id \in Id /\ todo[p].id # l
      BY <1>6, <2>1
    <2>3. todo[p].k # "clear"
      BY <1>1, <1>8, <2>1 DEF NameInv, SecondVisit
    <2> QED
      BY <1>1, <2>2, <2>3
  <1>16. \A q, m : Covers(todo[q], m)' <=> Covers(todo'[q], m)
    BY <1>1, CoversSame
  <1>17. \A i \in Id \ Loop : name'[i] = name[i]
    BY <1>1
  <1>18. todo[1].k = "again" => \A m \in Loop : l \in source.around[m] => Done(m)
    <2>1. ASSUME todo[1].k = "again", NEW m \in Loop, l \in source.around[m]
          PROVE  Done(m)
      <3>1. \A r \in 1..(1 - 1) : FALSE
        OBVIOUS
      <3>2. Renamed(m)
        BY <1>2, <2>1, <3>1 DEF NameInv, FirstVisit
      <3>3. m # l /\ m \notin source.around[l]
        BY <1>6, <1>9, <2>1
      <3>4. ~Busy(m)
        BY <1>2, <1>5, <3>3, BusyMoved
      <3> QED
        BY <3>2, <3>4 DEF Done
    <2> QED
      BY <2>1
  <1>19. \A m \in Loop : Covers(todo[1], m) => m = l \/ l \in source.around[m]
    BY <1>4 DEF Covers, Visits
  <1> HIDE DEF l, n
  <1>20. FirstVisit'
    <2>1. ASSUME NEW q \in 1..Len(todo'), todo'[q].k = "again"
          PROVE  /\ todo'[q].old = source.name[todo'[q].id] /\ todo'[q].new = name'[todo'[q].id]
                 /\ \A m \in Loop : todo'[q].id \in source.around[m] /\ m # l /\ ~Renamed(m) =>
                      \E r \in 1..(q - 1) : Covers(todo'[r], m)
      <3>1. Works(todo'[q])
        BY <2>1 DEF Works
      <3>2. CASE q = n /\ todo'[q] = last
        BY <1>1, <1>3, <1>4, <1>9, <1>14, <2>1, <3>2
      <3>3. CASE \E p \in 2..Len(todo) : /\ q = p + n - 1 /\ todo'[q] = todo[p]
                                         /\ p \in 1..Len(todo)
        <4>1. PICK p \in 2..Len(todo) : /\ q = p + n - 1 /\ todo'[q] = todo[p]
                                        /\ p \in 1..Len(todo)
          BY <3>3
        <4>2. todo[p].id \in Loop /\ name'[todo[p].id] = name[todo[p].id]
          BY <1>15, <3>1, <4>1
        <4>3. /\ todo[p].old = source.name[todo[p].id] /\ todo[p].new = name[todo[p].id]
              /\ \A m \in Loop : todo[p].id \in source.around[m] /\ ~Renamed(m) =>
                   \E r \in 1..(p - 1) : Covers(todo[r], m)
          BY <1>2, <2>1, <4>1 DEF NameInv, FirstVisit
        <4>4. ASSUME NEW m \in Loop, todo[p].id \in source.around[m], ~Renamed(m), m # l
              PROVE  \E r \in 1..(q - 1) : Covers(todo'[r], m)
          <5>1. PICK r \in 1..(p - 1) : Covers(todo[r], m)
            BY <4>3, <4>4
          <5>2. CASE r = 1
            <6>1. l \in source.around[m] /\ m \in Id
              BY <1>9, <1>19, <4>4, <5>1, <5>2
            <6>2. q \in Int /\ q >= n
              BY <1>3, <4>1
            <6> QED
              BY <1>14, <6>1, <6>2
          <5>3. CASE r # 1
            <6>1. r \in 2..Len(todo)
              BY <1>2, <5>3
            <6>2. PICK s \in 1..Len(todo') : s = r + n - 1 /\ todo'[s] = todo[r]
              BY <1>2, <6>1, Moved DEF n
            <6>3. s \in 1..(q - 1)
              BY <1>3, <4>1, <6>1, <6>2
            <6> QED
              BY <5>1, <6>2, <6>3
          <5> QED
            BY <5>2, <5>3
        <4> QED
          BY <4>1, <4>2, <4>3, <4>4
      <3> QED
        BY <1>13, <3>1, <3>2, <3>3
    <2>2. \A m \in Loop : ~Renamed(m)' => m # l /\ ~Renamed(m)
      BY <1>9
    <2> QED
      BY <1>1, <1>2, <1>11, <1>16, <2>1, <2>2 DEF FirstVisit
  <1>21. SecondVisit'
    <2>1. ASSUME NEW q \in 1..Len(todo'), todo'[q].k = "clear"
          PROVE  /\ oldName' = source.name[todo'[q].id]
                 /\ \A m \in Loop : todo'[q].id \in source.around[m] => Done(m)
                 /\ \A i \in Id : Same(i, todo'[q].id) => \E r \in 1..(q - 1) : Covers(todo'[r], i)
      <3>1. Works(todo'[q])
        BY <2>1 DEF Works
      <3>2. q = n /\ todo'[q] = last
        BY <1>13, <1>15, <2>1, <3>1
      <3>3. \A i \in Id : l \in source.around[i] => \E r \in 1..(q - 1) : Covers(todo'[r], i)
        <4>1. q \in Int /\ q >= n
          BY <1>3, <3>2
        <4> QED
          BY <1>14, <4>1
      <3> QED
        BY <1>1, <1>4, <1>18, <2>1, <3>2, <3>3 DEF Same
    <2>2. \A q \in 1..Len(todo') : \A i \in Id : Same(i, todo[q].id)' <=> Same(i, todo'[q].id)
      BY <1>1, <1>11 DEF Same
    <2> QED
      BY <1>1, <1>2, <1>10, <1>11, <1>16, <2>1, <2>2 DEF SecondVisit
  <1>22. DoneSettled'
    <2>1. \A m \in Loop : Done(m) => \A i \in Id : Same(i, m) => i \in Id \ Loop /\ name[i] # source.name[i]
      BY DEF NameInv, DoneSettled, Same, Settled
    <2>2. \A m \in Loop : Done(m)' => \A i \in Id : Same(i, m) => name'[i] # source.name[i]
      BY <1>10, <1>17, <2>1
    <2>3. \A i, m : Same(i, m)' <=> Same(i, m)
      BY <1>1, <1>11 DEF Same
    <2> QED
      BY <1>1, <1>11, <2>2, <2>3 DEF DoneSettled, Settled
  <1>23. CurrentNames'
    <2>1. \A r \in 1..(n - 1) : Visits(todo'[r])
      BY <1>12
    <2>2. todo'[n] = last /\ n \in 1..Len(todo')
      BY <1>3, <1>12
    <2> QED
      BY <1>1, <1>2, <2>1, <2>2 DEF CurrentNames, Visits, Works
  <1>24. UseNames'
    <2>1. ASSUME NEW i \in Id \ Loop
          PROVE  name'[i] = source.name[i] \/ \E m \in Iterated(i) : Renamed(m)' /\ name'[i] = name'[m]
      <3>1. \A m \in Iterated(i) : m \in Loop
        BY <1>1, ItemTree DEF Iterated
      <3>2. \A m \in Loop : Renamed(m) => Renamed(m)' /\ name'[m] = name[m]
        BY <1>1, <1>9
      <3> QED
        BY <1>17, <3>1, <3>2 DEF NameInv, UseNames
    <2> QED
      BY <1>1, <1>11, <2>1 DEF UseNames
  <1> QED
    BY <1>20, <1>21, <1>22, <1>23, <1>24 DEF NameInv

---------------------------------------------------------------------------
(* The invariant                                                           *)

LEMMA InitIterates ==
    ASSUME Init
    PROVE  IteratorInv
  <1> DEFINE main == source.main
  <1>1. /\ source \in Programs /\ todo = <<Fundef(main)>> /\ name = source.name
        /\ vardecs = source.vars /\ fun = Null /\ counter = 0 /\ oldName = Null /\ newName = Null
    BY DEF Init
  <1>2. main \in Fun /\ Fundef(main) \in Task
    BY <1>1, Types, Tasks
  <1>3. /\ source.vars \in [Fun -> Seq(Source)] /\ source.name \in [Id -> Source]
        /\ source.fun \in [Id -> Fun]
    BY <1>1, Types
  <1> HIDE DEF main
  <1>4. /\ todo \in Seq(Task) /\ Len(todo) = 1 /\ DOMAIN todo = {1} /\ todo # <<>>
        /\ todo[1].k = "fundef" /\ todo[1].fun = main
    BY <1>1, <1>2 DEF Fundef
  <1>5. \A q \in DOMAIN todo : ~Visits(todo[q]) /\ ~Works(todo[q]) /\ todo[q].k = "fundef"
    BY <1>4 DEF Visits, Works
  <1>6. \A i \in Id : name[i] \in Source /\ ~Renamed(i)
    <2>1. \A x \in Source : x[1] = "id"
      BY DEF Source
    <2> QED
      BY <1>1, <1>3, <2>1 DEF Renamed
  <1>7. \A l \in Loop : ~Renamed(l) /\ ~Done(l)
    BY <1>6 DEF Done, Loop
  <1>8. TypeInv
    <2>1. vardecs \in [Fun -> Seq(Name)]
      <3>1. \A f \in Fun : source.vars[f] \in Seq(Name)
        <4>1. ASSUME NEW f \in Fun
              PROVE  source.vars[f] \in Seq(Name)
          <5>1. source.vars[f] \in Seq(Source) /\ Source \subseteq Name
            BY <1>3 DEF Name
          <5> QED
            BY <5>1
        <4> QED
          BY <4>1
      <3> QED
        BY <1>1, <1>3, <3>1
    <2>2. name \in [Id -> Name]
      BY <1>1, <1>3 DEF Name
    <2> QED
      BY <1>1, <1>4, <2>1, <2>2 DEF TypeInv
  <1>9. FunsNested
    BY <1>4 DEF FunsNested
  <1>10. InFun
    <2>1. OfFun(todo[1], fun)
      BY <1>1, <1>4 DEF OfFun, Visits, Works
    <2> QED
      BY <1>4, <2>1 DEF InFun
  <1>11. AllDue /\ DueOnce /\ FunsFirst
    <2>1. ASSUME NEW l \in Loop
          PROVE  Covers(todo[1], l)
      <3>1. source.fun[l] \in Fun
        BY <1>3 DEF Loop
      <3>2. source.fun[l] = main \/ main \in source.within[source.fun[l]]
        BY <1>1, <3>1, FunctionTree DEF main
      <3> QED
        BY <1>4, <3>2 DEF Covers
    <2> QED
      BY <1>4, <1>7, <2>1 DEF AllDue, DueOnce, FunsFirst
  <1>12. LoopNames /\ Counters
    BY <1>1, <1>7 DEF LoopNames, Counters
  <1>13. LoopVarsOwn
    <2>1. ASSUME NEW f \in Fun
          PROVE  Owns(source.vars[f], vardecs[f], name, RenamedLoops(f))
      <3>1. RenamedLoops(f) = {}
        BY <1>7 DEF RenamedLoops, Loops
      <3> QED
        BY <1>1, <3>1 DEF Owns
    <2> QED
      BY <1>4, <2>1, OwnsAll
  <1>14. WorkInv
    BY <1>5, <1>7 DEF WorkInv, Outward, DoneInside, LoopsNested, VisitsDone, Between
  <1>15. NameInv
    <2>1. UseNames
      BY <1>1 DEF UseNames
    <2> QED
      BY <1>1, <1>5, <1>7, <2>1 DEF NameInv, FirstVisit, SecondVisit, DoneSettled, CurrentNames
  <1> QED
    BY <1>8, <1>9, <1>10, <1>11, <1>12, <1>13, <1>14, <1>15
       DEF IteratorInv, OwnInv, FunInv

LEMMA IteratesStep ==
    ASSUME IteratorInv, Next
    PROVE  IteratorInv'
  <1>1. /\ TypeInv /\ FunsNested /\ InFun /\ AllDue /\ DueOnce /\ FunsFirst
        /\ LoopNames /\ Counters /\ LoopVarsOwn /\ WorkInv /\ NameInv /\ FirstVisit
    BY DEF IteratorInv, OwnInv, FunInv, NameInv
  <1>2. TypeInv'
    BY <1>1, TypeStep
  <1>3. FunsNested' /\ InFun'
    BY <1>1, FunsNestedStep, InFunStep
  <1>4. AllDue' /\ DueOnce' /\ FunsFirst'
    BY <1>1, AllDueStep, DueOnceStep, FunsFirstStep
  <1>5. LoopNames' /\ Counters'
    BY <1>1, LoopNamesStep, CountersStep
  <1>6. LoopVarsOwn'
    BY <1>1, <1>4, LoopVarsOwnStep
  <1>7. WorkInv' /\ NameInv'
    <2>1. LoopsNested
      BY <1>1 DEF WorkInv
    <2>2. CASE CA_EFIfundef \/ EndFundef
      BY <1>1, <2>1, <2>2, FunSteps, FunStepIterates
    <2>3. CASE ForloopEnd
      BY <1>1, <2>3, EndIterates
    <2>4. CASE \E new \in Seq(Task) : Expands(new)
      BY <1>1, <2>4, ExpandsWork, ExpandsNames
    <2>5. CASE \E new \in Seq(Task) : FirstVisited(new)
      BY <1>1, <2>5, FirstEnters, EntersWork, EntersNames
    <2>6. CASE \E new \in Seq(Task) : SecondVisited(new)
      BY <1>1, <2>6, SecondEnters, EntersWork, EntersNames
    <2> QED
      BY <1>1, <2>2, <2>3, <2>4, <2>5, <2>6, Steps
  <1> QED
    BY <1>2, <1>3, <1>4, <1>5, <1>6, <1>7 DEF IteratorInv, OwnInv, FunInv

LEMMA IteratesStays ==
    ASSUME IteratorInv, UNCHANGED vars
    PROVE  IteratorInv'
  <1>1. /\ source' = source /\ todo' = todo /\ name' = name /\ vardecs' = vardecs /\ fun' = fun
        /\ oldName' = oldName /\ newName' = newName /\ counter' = counter
    BY DEF vars
  <1>2. Fun' = Fun /\ Id' = Id /\ Loop' = Loop /\ Task' = Task /\ \A i : Iterated(i)' = Iterated(i)
    BY <1>1, Constant
  <1>3. TypeInv' <=> TypeInv
    BY <1>1, <1>2 DEF TypeInv
  <1>4. FunsNested' <=> FunsNested
    BY <1>1, <1>2 DEF FunsNested
  <1>5. InFun' <=> InFun
    BY <1>1, <1>2 DEF InFun, OfFun, Visits, Works
  <1>6. AllDue' <=> AllDue
    BY <1>1, <1>2, CoversSame DEF AllDue, Renamed
  <1>7. DueOnce' <=> DueOnce
    BY <1>1, <1>2, CoversSame DEF DueOnce, Renamed
  <1>8. FunsFirst' <=> FunsFirst
    BY <1>1, <1>2, CoversSame DEF FunsFirst, Renamed
  <1>9. LoopNames' <=> LoopNames
    BY <1>1, <1>2 DEF LoopNames, Renamed
  <1>10. Counters' <=> Counters
    BY <1>1, <1>2 DEF Counters, Renamed
  <1>11. Outward' <=> Outward
    BY <1>1, <1>2 DEF Outward, Renamed, Visits, Works
  <1>12. DoneInside' <=> DoneInside
    BY <1>1, <1>2 DEF DoneInside, Done, Renamed, Busy, Works
  <1>13. LoopsNested' <=> LoopsNested
    BY <1>1, <1>2 DEF LoopsNested, Visits, Works
  <1>14. VisitsDone' <=> VisitsDone
    BY <1>1, <1>2 DEF VisitsDone, Done, Renamed, Busy, Visits, Works
  <1>15. Between' <=> Between
    BY <1>1, <1>2 DEF Between, Done, Renamed, Busy, Visits, Works
  <1>16. FirstVisit' <=> FirstVisit
    BY <1>1, <1>2, CoversSame DEF FirstVisit, Renamed
  <1>17. SecondVisit' <=> SecondVisit
    BY <1>1, <1>2, CoversSame DEF SecondVisit, Same, Settled, Done, Busy, Works, Renamed
  <1>18. DoneSettled' <=> DoneSettled
    BY <1>1, <1>2 DEF DoneSettled, Same, Settled, Done, Busy, Works, Renamed
  <1>19. CurrentNames' <=> CurrentNames
    BY <1>1, <1>2 DEF CurrentNames, Visits, Works
  <1>20. UseNames' <=> UseNames
    BY <1>1, <1>2 DEF UseNames, Renamed
  <1>21. LoopVarsOwn' <=> LoopVarsOwn
    BY <1>1, <1>2 DEF LoopVarsOwn, Loops, Renamed
  <1> QED
    BY <1>3, <1>4, <1>5, <1>6, <1>7, <1>8, <1>9, <1>10, <1>11, <1>12, <1>13, <1>14, <1>15, <1>16, <1>17, <1>18, <1>19, <1>20, <1>21
       DEF IteratorInv, OwnInv, FunInv, WorkInv, NameInv

(***************************************************************************)
(* The invariant of the traversal: each task is within the function and    *)
(* the loops it belongs to, each loop is still to come or has its variable,*)
(* and a loop that is done has settled the uses of its variable.           *)
(***************************************************************************)
THEOREM Iterates == Spec => []IteratorInv
  <1>1. Init => IteratorInv
    BY InitIterates
  <1>2. IteratorInv /\ [Next]_vars => IteratorInv'
    <2>1. CASE Next
      BY <2>1, IteratesStep
    <2>2. CASE UNCHANGED vars
      BY <2>2, IteratesStays
    <2> QED
      BY <2>1, <2>2
  <1> QED
    BY <1>1, <1>2, PTL DEF Spec

(***************************************************************************)
(* LoopVarsOwn, for every program: each loop has a variable of its own,    *)
(* which its function declares once (for_counter, kept and set back by     *)
(* CA_EFIfundef, and the test whether a loop has been renamed).            *)
(***************************************************************************)
THEOREM LoopsHaveOwnVars == Spec => []LoopVarsOwn
  BY Iterates, PTL DEF IteratorInv, OwnInv

\* In the end all loops are done, and so are the uses of their variables.
LEMMA IteratedAll ==
    ASSUME IteratorInv
    PROVE  ShadowingKept
  <1> SUFFICES ASSUME todo = <<>>, NEW i \in Id, source.kind[i] = "var"
               PROVE  IF Iterated(i) = {} THEN name[i] = source.name[i]
                      ELSE \A l \in Iterated(i) : name[i] = name[l]
    BY DEF ShadowingKept
  <1>1. /\ AllDue /\ DoneSettled /\ UseNames /\ source \in Programs /\ i \in Id \ Loop
    BY DEF IteratorInv, OwnInv, FunInv, NameInv, TypeInv, Loop
  <1>2. DOMAIN todo = {}
    OBVIOUS
  <1>3. \A l \in Loop : Done(l)
    BY <1>1, <1>2 DEF AllDue, Done, Busy
  <1>4. name[i] = source.name[i] \/ \E l \in Iterated(i) : name[i] = name[l]
    BY <1>1 DEF UseNames
  <1>5. CASE Iterated(i) = {}
    BY <1>4, <1>5
  <1>6. CASE Iterated(i) # {}
    <2> SUFFICES ASSUME NEW l \in Iterated(i)
                 PROVE  name[i] = name[l]
      BY <1>6
    <2>1. l \in Loop /\ l \in Id /\ Same(i, l)
      BY <1>1, ItemTree DEF Iterated, Same, Loop
    <2>2. name[i] # source.name[i]
      BY <1>1, <1>3, <2>1 DEF DoneSettled, Settled
    <2>3. PICK m \in Iterated(i) : name[i] = name[m]
      BY <1>4, <2>2
    <2>4. m = l \/ (m \in source.around[l] /\ l \in source.around[m])
      BY <2>3 DEF Iterated
    <2>5. m \in source.around[l] => l \notin source.around[m]
      <3>1. m \in Id
        BY <1>1, <2>3, ItemTree DEF Iterated, Loop
      <3> QED
        BY <1>1, <2>1, <3>1, Apart
    <2> QED
      BY <2>3, <2>4, <2>5
  <1> QED
    BY <1>5, <1>6

(***************************************************************************)
(* ShadowingKept, for every program: a variable becomes that of the        *)
(* innermost loop over its name, and no other one changes ("Replace all    *)
(* variables inside the block, but ensure the shadowing").                 *)
(***************************************************************************)
THEOREM ShadowingIsKept == Spec => []ShadowingKept
  BY Iterates, IteratedAll, PTL
=============================================================================
