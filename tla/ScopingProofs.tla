--------------------------- MODULE ScopingProofs ---------------------------
(***************************************************************************)
(* Proofs about Scoping, for all programs: type correctness, and that the  *)
(* level in the name of a variable is the depth of its scope; then name    *)
(* resolution: each use gets the declaration the language gives it, the    *)
(* names left in the tree lead to it, the errors reported are the errors   *)
(* there are, and no entry of a table is lost or replaced.                 *)
(***************************************************************************)
EXTENDS Scoping, TLAPS, WellFoundedInduction

\* The state of the traversal: current climbs down and up the tree of scopes.
Control ==
    /\ WellFormed(prog)
    /\ phase \in {"FH", "DC", "done"}
    /\ current \in Scope
    /\ level \in Nat /\ saved \in [Scope -> Nat]
    /\ done \in [Scope -> SUBSET Nat] /\ sub \in Nat

\* The inductive invariant for the levels: while CA_DC runs, level is the
\* depth of the current scope, and what each entry that is still open saved
\* is the depth of the scope it came from.
Levels ==
    phase = "DC" =>
        /\ level = prog.depth[current]
        /\ \A s \in prog.outer[current] \ {Root} :
              saved[s] = prog.depth[prog.parent[s]]

LevelInv == Control /\ Levels /\ NamesQualified

\* The facts about the tree of scopes that the steps need.
LEMMA Tree ==
    ASSUME NEW p, WellFormed(p)
    PROVE  /\ p.parent \in [Scope -> Scope] /\ p.depth \in [Scope -> Nat]
           /\ p.items \in [Scope -> Seq(Item)]
           /\ p.outer \in [Scope -> SUBSET Scope]
           /\ p.outer[Root] = {Root} /\ p.depth[Root] = 0
           /\ \A s \in Scope \ {Root} :
                 /\ p.outer[s] = p.outer[p.parent[s]] \cup {s}
                 /\ p.depth[s] = p.depth[p.parent[s]] + 1
  BY ScopeAssumption DEF WellFormed, Program

LEMMA Opened ==
    ASSUME NEW p, WellFormed(p), NEW s \in Scope, NEW i \in Items(p, s)
    PROVE  /\ i \in Nat
           /\ p.items[s][i] \in Item
           /\ Is(p, s, i, "fundef") => /\ p.items[s][i].scope \in Scope \ {Root}
                                       /\ p.parent[p.items[s][i].scope] = s
  <1>1. p.items[s] \in Seq(Item)
    BY Tree
  <1>2. i \in 1..Len(p.items[s])
    BY <1>1 DEF Items
  <1>3. i \in Nat /\ p.items[s][i] \in Item
    BY <1>1, <1>2
  <1>4. p.items[s][i].scope \in Scope
    BY <1>3 DEF Item
  <1>5. Is(p, s, i, "fundef") => /\ p.items[s][i].scope # Root
                                 /\ p.parent[p.items[s][i].scope] = s
    BY DEF WellFormed
  <1> QED
    BY <1>3, <1>4, <1>5

LEMMA InitLevel == Init => LevelInv
  <1> SUFFICES ASSUME Init PROVE LevelInv
    OBVIOUS
  <1>1. WellFormed(prog)
    BY ProgramsAssumption DEF Init
  <1>2. Control
    BY <1>1, ScopeAssumption DEF Init, Control
  <1>3. Levels
    BY DEF Init, Levels
  <1>4. NamesQualified
    BY DEF Init, NamesQualified
  <1> QED
    BY <1>2, <1>3, <1>4 DEF LevelInv

\* A step that leaves alone the scope, the levels and the names.
LEMMA SameLevel ==
    ASSUME LevelInv, Control',
           UNCHANGED <<prog, phase, current, level, saved, varName>>
    PROVE  LevelInv'
  BY DEF LevelInv, Levels, NamesQualified, ItemAt, KeyOf, LvlKey, SrcKey

\* Outside CA_DC only the names matter.
LEMMA OutsideDC ==
    ASSUME LevelInv, Control', phase' # "DC", UNCHANGED <<prog, varName>>
    PROVE  LevelInv'
  BY DEF LevelInv, Levels, NamesQualified, ItemAt, KeyOf, LvlKey, SrcKey

LEMMA StepFHfundec ==
    ASSUME LevelInv, NEW i \in Items(prog, current), FHfundec(i)
    PROVE  LevelInv'
  <1>1. Control'
    <2>1. i \in Nat
      BY Opened DEF LevelInv, Control
    <2> QED
      BY <2>1 DEF LevelInv, Control, FHfundec, EnterFun
  <1> QED
    BY <1>1, SameLevel DEF FHfundec

LEMMA StepFHfundef ==
    ASSUME LevelInv, NEW i \in Items(prog, current), FHfundef(i)
    PROVE  LevelInv'
  <1>1. i \in Nat /\ ItemAt(current, i).scope \in Scope
    BY Opened DEF LevelInv, Control, FHfundef, ItemAt
  <1>2. Control'
    BY <1>1 DEF LevelInv, Control, FHfundef, EnterFun
  <1> QED
    BY <1>2, OutsideDC DEF FHfundef, FHAt

LEMMA StepFHleave == LevelInv /\ FHleave => LevelInv'
  <1> SUFFICES ASSUME LevelInv, FHleave PROVE LevelInv'
    OBVIOUS
  <1>1. Control'
    BY Tree DEF LevelInv, Control, FHleave
  <1> QED
    BY <1>1, OutsideDC DEF FHleave

LEMMA StepFHprogram == LevelInv /\ FHprogram => LevelInv'
  <1> SUFFICES ASSUME LevelInv, FHprogram PROVE LevelInv'
    OBVIOUS
  <1>1. Control'
    BY DEF LevelInv, Control, FHprogram
  <1>2. Levels'
    BY Tree DEF LevelInv, Control, Levels, FHprogram
  <1>3. NamesQualified'
    BY DEF LevelInv, NamesQualified, FHprogram, ItemAt, KeyOf, LvlKey, SrcKey
  <1> QED
    BY <1>1, <1>2, <1>3 DEF LevelInv

LEMMA StepDCuse ==
    ASSUME LevelInv, NEW i \in Items(prog, current), DCuse(i)
    PROVE  LevelInv'
  <1>1. Control'
    BY DEF LevelInv, Control, DCuse
  <1> QED
    BY <1>1, SameLevel DEF DCuse

\* The only step that names a variable: it takes the current level, which
\* is the depth of the scope.
LEMMA StepDCvar ==
    ASSUME LevelInv, NEW i \in Items(prog, current), DCvar(i)
    PROVE  LevelInv'
  <1>1. i \in Nat
    BY Opened DEF LevelInv, Control
  <1>2. Control'
    BY <1>1 DEF LevelInv, Control, DCvar, Finish
  <1>3. Levels'
    BY DEF LevelInv, Levels, DCvar
  <1>4. NamesQualified'
    <2> SUFFICES ASSUME NEW d \in DOMAIN varName'
                 PROVE  varName'[d] =
                           KeyOf(ItemAt(d[1], d[2]).name, prog.depth[d[1]])
      BY DEF NamesQualified, DCvar, ItemAt, KeyOf, LvlKey, SrcKey
    <2> DEFINE new == <<current, i>>
    <2>1. varName' = Put(varName, new, KeyOf(ItemAt(current, i).name, level))
      BY DEF DCvar, AddVarSymbol
    <2>2. CASE d \in DOMAIN varName
      BY <2>1, <2>2 DEF Put, LevelInv, NamesQualified
    <2>3. CASE d \notin DOMAIN varName
      <3>1. d = new
        BY <2>1, <2>3 DEF Put
      <3>2. varName'[d] = KeyOf(ItemAt(current, i).name, level)
        BY <2>1, <2>3, <3>1 DEF Put
      <3>3. level = prog.depth[current]
        BY DEF LevelInv, Levels, DCvar, DCAt
      <3> QED
        BY <3>1, <3>2, <3>3
    <2> QED
      BY <2>2, <2>3
  <1> QED
    BY <1>2, <1>3, <1>4 DEF LevelInv

LEMMA StepDCstmt ==
    ASSUME LevelInv, NEW i \in Items(prog, current), DCstmt(i)
    PROVE  LevelInv'
  <1>1. i \in Nat
    BY Opened DEF LevelInv, Control
  <1>2. Control'
    BY <1>1 DEF LevelInv, Control, DCstmt, Finish
  <1> QED
    BY <1>2, SameLevel DEF DCstmt

LEMMA StepDCfundec ==
    ASSUME LevelInv, NEW i \in Items(prog, current), DCfundec(i)
    PROVE  LevelInv'
  <1>1. i \in Nat
    BY Opened DEF LevelInv, Control
  <1>2. Control'
    BY <1>1 DEF LevelInv, Control, DCfundec, Finish
  <1> QED
    BY <1>2, SameLevel DEF DCfundec

\* Going down: the depth grows by one, and the level saved is the one of
\* the scope left.
LEMMA StepDCfundef ==
    ASSUME LevelInv, NEW i \in Items(prog, current), DCfundef(i)
    PROVE  LevelInv'
  <1> DEFINE child == ItemAt(current, i).scope
  <1>1. /\ i \in Nat /\ child \in Scope \ {Root}
        /\ prog.parent[child] = current
    BY Opened DEF LevelInv, Control, DCfundef, ItemAt
  <1>2. /\ prog.outer[child] = prog.outer[current] \cup {child}
        /\ prog.depth[child] = prog.depth[current] + 1
    BY <1>1, Tree DEF LevelInv, Control
  <1>3. Control'
    BY <1>1 DEF LevelInv, Control, DCfundef, Finish
  <1>4. Levels'
    <2>1. level = prog.depth[current]
      BY DEF LevelInv, Levels, DCfundef, DCAt
    <2>2. level' = prog.depth'[current']
      BY <1>2, <2>1 DEF DCfundef
    <2>3. ASSUME NEW s \in prog.outer[child] \ {Root}
          PROVE  saved'[s] = prog.depth[prog.parent[s]]
      <3>1. s \in Scope
        BY <1>1, Tree DEF LevelInv, Control
      <3>2. CASE s = child
        BY <1>1, <2>1, <3>1, <3>2 DEF LevelInv, Control, DCfundef
      <3>3. CASE s # child
        BY <1>2, <2>3, <3>1, <3>3 DEF LevelInv, Control, Levels, DCfundef, DCAt
      <3> QED
        BY <3>2, <3>3
    <2> QED
      BY <2>2, <2>3 DEF Levels, DCfundef
  <1>5. NamesQualified'
    BY DEF LevelInv, NamesQualified, DCfundef, ItemAt, KeyOf, LvlKey, SrcKey
  <1> QED
    BY <1>3, <1>4, <1>5 DEF LevelInv

\* Going up: the level restored is the one saved on the way down.
LEMMA StepDCleave == LevelInv /\ DCleave => LevelInv'
  <1> SUFFICES ASSUME LevelInv, DCleave PROVE LevelInv'
    OBVIOUS
  <1>1. /\ current \in Scope \ {Root}
        /\ prog.parent[current] \in Scope
        /\ prog.outer[current] = prog.outer[prog.parent[current]] \cup {current}
    BY Tree DEF LevelInv, Control, DCleave, LeaveTo
  <1>2. Control'
    BY <1>1 DEF LevelInv, Control, DCleave, LeaveTo
  <1>3. level' = prog.depth[prog.parent[current]]
    BY <1>1 DEF LevelInv, Levels, DCleave, LeaveTo
  <1>4. Levels'
    BY <1>1, <1>3 DEF LevelInv, Levels, DCleave, LeaveTo
  <1>5. NamesQualified'
    BY DEF LevelInv, NamesQualified, DCleave, LeaveTo, ItemAt, KeyOf, LvlKey, SrcKey
  <1> QED
    BY <1>2, <1>4, <1>5 DEF LevelInv

LEMMA StepDCprogram == LevelInv /\ DCprogram => LevelInv'
  <1> SUFFICES ASSUME LevelInv, DCprogram PROVE LevelInv'
    OBVIOUS
  <1>1. Control'
    BY DEF LevelInv, Control, DCprogram
  <1> QED
    BY <1>1, OutsideDC DEF DCprogram

LEMMA NextLevel == LevelInv /\ [Next]_vars => LevelInv'
  <1> SUFFICES ASSUME LevelInv, [Next]_vars PROVE LevelInv'
    OBVIOUS
  <1>1. CASE UNCHANGED vars
    BY <1>1, SameLevel DEF vars, LevelInv, Control
  <1>2. ASSUME NEW i \in Items(prog, current),
               \/ FHfundec(i) \/ FHfundef(i)
               \/ DCuse(i) \/ DCvar(i) \/ DCstmt(i) \/ DCfundec(i) \/ DCfundef(i)
        PROVE  LevelInv'
    BY <1>2, StepFHfundec, StepFHfundef, StepDCuse, StepDCvar, StepDCstmt,
       StepDCfundec, StepDCfundef
  <1>3. CASE FHleave \/ FHprogram \/ DCleave \/ DCprogram
    BY <1>3, StepFHleave, StepFHprogram, StepDCleave, StepDCprogram
  <1> QED
    BY <1>1, <1>2, <1>3 DEF Next, Terminated

\* The name of a variable carries the depth of the scope that declares it.
THEOREM LevelsInNames == Spec => []NamesQualified
  <1>1. LevelInv => NamesQualified
    BY DEF LevelInv
  <1> QED
    BY InitLevel, NextLevel, <1>1, PTL DEF Spec

-----------------------------------------------------------------------------
(* Type correctness.  sync_symbol_keys makes a key of the name of an       *)
(* entry's variable, so every entry for a variable must have been named.   *)

EntriesNamed ==
    \A s \in Scope : \A key \in DOMAIN table[s] :
        key.tag # "fun" => table[s][key] \in DOMAIN varName

Keys == \A s \in Scope : DOMAIN table[s] \subseteq Key

Names ==
    /\ DOMAIN varName \subseteq DeclIds(prog)
    /\ \A d \in DOMAIN varName : varName[d] \in Key

Visited ==
    /\ DOMAIN bound \subseteq UseIds(prog)
    /\ DOMAIN useName = DOMAIN bound

TypeInv == LevelInv /\ DOMAIN table = Scope /\ Keys /\ EntriesNamed /\ Names /\ Visited

LEMMA TypeInvGivesTypeOK == TypeInv => TypeOK
  BY DEF TypeInv, LevelInv, Control, Keys, Names, Visited, TypeOK

LEMMA InitType == Init => TypeInv
  <1> SUFFICES ASSUME Init PROVE TypeInv
    OBVIOUS
  <1>1. LevelInv
    BY InitLevel
  <1>2. DOMAIN table = Scope /\ Keys /\ EntriesNamed
    BY DEF Init, Keys, EntriesNamed
  <1>3. Names /\ Visited
    BY DEF Init, Names, Visited
  <1> QED
    BY <1>1, <1>2, <1>3 DEF TypeInv

\* A step that leaves the tables and all names alone.
LEMMA SameTypes ==
    ASSUME TypeInv, LevelInv', UNCHANGED <<prog, table, varName, useName, bound>>
    PROVE  TypeInv'
  BY DEF TypeInv, Keys, EntriesNamed, Names, Visited, DeclIds, UseIds, Is, Items

\* A new entry, of a function or of a variable that has its name.
LEMMA EntryAdded ==
    ASSUME TypeInv, LevelInv', NEW key \in Key, NEW d, NEW s \in Scope,
           table' = [table EXCEPT ![s] = Put(@, key, d)],
           key.tag # "fun" => d \in DOMAIN varName',
           DOMAIN varName \subseteq DOMAIN varName',
           Names', Visited'
    PROVE  TypeInv'
  <1>1. DOMAIN table' = Scope
    BY DEF TypeInv
  <1>2. ASSUME NEW t \in Scope
        PROVE  /\ t # s => table'[t] = table[t]
               /\ t = s => table'[t] = Put(table[t], key, d)
    BY DEF TypeInv
  <1>3. Keys'
    BY <1>2 DEF TypeInv, Keys, Put
  <1>4. EntriesNamed'
    <2> SUFFICES ASSUME NEW t \in Scope, NEW k \in DOMAIN table'[t], k.tag # "fun"
                 PROVE  table'[t][k] \in DOMAIN varName'
      BY DEF EntriesNamed
    <2>1. CASE k \in DOMAIN table[t]
      BY <1>2, <2>1 DEF TypeInv, EntriesNamed, Put
    <2>2. CASE k \notin DOMAIN table[t]
      BY <1>2, <2>2 DEF Put
    <2> QED
      BY <2>1, <2>2
  <1> QED
    BY <1>1, <1>3, <1>4 DEF TypeInv

\* Re-keying a table keeps its keys names and its entries named.
LEMMA SyncedTypes ==
    ASSUME TypeInv, LevelInv', NEW s \in Scope,
           table' = [table EXCEPT ![s] = Synced(s)],
           UNCHANGED <<prog, varName, useName, bound>>
    PROVE  TypeInv'
  <1>1. DOMAIN table' = Scope
    BY DEF TypeInv
  <1>2. ASSUME NEW t \in Scope
        PROVE  /\ t # s => table'[t] = table[t]
               /\ t = s => table'[t] = Synced(s)
    BY DEF TypeInv
  <1>3. ASSUME NEW key \in DOMAIN Synced(s)
        PROVE  /\ key \in Key
               /\ key.tag # "fun" => Synced(s)[key] \in DOMAIN varName
    <2> DEFINE old == CHOOSE k \in DOMAIN table[s] : NewKey(s, k) = key
    <2>1. old \in DOMAIN table[s] /\ NewKey(s, old) = key
      BY <1>3 DEF Synced
    <2>2. Synced(s)[key] = table[s][old]
      BY <1>3 DEF Synced
    <2>3. CASE old.tag = "fun"
      BY <2>1, <2>3 DEF TypeInv, Keys, NewKey
    <2>4. CASE old.tag # "fun"
      BY <2>1, <2>2, <2>4 DEF TypeInv, EntriesNamed, Names, NewKey
    <2> QED
      BY <2>3, <2>4
  <1>4. Keys' /\ EntriesNamed'
    BY <1>2, <1>3 DEF TypeInv, Keys, EntriesNamed
  <1>5. Names' /\ Visited'
    BY DEF TypeInv, Names, Visited, DeclIds, UseIds, Is, Items
  <1> QED
    BY <1>1, <1>4, <1>5 DEF TypeInv

LEMMA TypeFH ==
    ASSUME TypeInv, LevelInv', NEW i \in Items(prog, current),
           FHfundec(i) \/ FHfundef(i)
    PROVE  TypeInv'
  <1> DEFINE key == FunKey(ItemAt(current, i).name)
  <1>1. key \in Key /\ key.tag = "fun"
    BY Opened DEF TypeInv, LevelInv, Control, ItemAt, Item, FunKey, Key
  <1>2. UNCHANGED <<prog, varName, useName, bound>>
    BY DEF FHfundec, FHfundef
  <1>3. Names' /\ Visited'
    BY <1>2 DEF TypeInv, Names, Visited, DeclIds, UseIds, Is, Items
  <1>4. current \in Scope
    BY DEF TypeInv, LevelInv, Control
  <1>5. CASE key \in DOMAIN table[current]
    BY <1>2, <1>5, SameTypes DEF FHfundec, FHfundef, EnterFun
  <1>6. CASE key \notin DOMAIN table[current]
    <2>1. table' = [table EXCEPT ![current] = Put(@, key, <<current, i>>)]
      BY <1>6 DEF FHfundec, FHfundef, EnterFun
    <2> QED
      BY <1>1, <1>2, <1>3, <1>4, <2>1, EntryAdded
  <1> QED
    BY <1>5, <1>6

LEMMA TypeDCuse ==
    ASSUME TypeInv, LevelInv', NEW i \in Items(prog, current), DCuse(i)
    PROVE  TypeInv'
  <1> DEFINE u == <<current, i, sub + 1>>
  <1>1. u \in UseIds(prog)
    <2>1. /\ prog.items[current][i].uses \in Seq(Use)
          /\ sub \in Nat /\ current \in Scope
      BY Opened DEF TypeInv, LevelInv, Control, Item
    <2>2. sub + 1 \in DOMAIN prog.items[current][i].uses
      BY <2>1 DEF DCuse, ItemAt
    <2> QED
      BY <2>1, <2>2 DEF UseIds
  <1>2. DOMAIN bound' = DOMAIN bound \cup {u} /\ DOMAIN useName' = DOMAIN useName \cup {u}
    BY DEF DCuse, Put
  <1>3. Visited'
    BY <1>1, <1>2 DEF TypeInv, Visited, DCuse, UseIds, Items
  <1> QED
    BY <1>3 DEF TypeInv, Keys, EntriesNamed, Names, DCuse, DeclIds, Is, Items

LEMMA TypeDCvar ==
    ASSUME TypeInv, LevelInv', NEW i \in Items(prog, current), DCvar(i)
    PROVE  TypeInv'
  <1> DEFINE d == <<current, i>>
             n == ItemAt(current, i).name
  <1>1. current \in Scope /\ i \in Nat /\ n \in Name /\ level \in Nat
    BY Opened DEF TypeInv, LevelInv, Control, ItemAt, Item
  <1>2. d \in DeclIds(prog)
    BY <1>1 DEF DCvar, DeclIds, Is
  <1>3. varName' = Put(varName, d, KeyOf(n, level))
    BY DEF DCvar, AddVarSymbol
  <1>4. KeyOf(n, level) \in Key
    BY <1>1 DEF KeyOf, SrcKey, LvlKey, Key
  <1>5. Names'
    <2>1. DOMAIN varName' = DOMAIN varName \cup {d}
      BY <1>3 DEF Put
    <2>2. DeclIds(prog)' = DeclIds(prog)
      BY DEF DCvar, DeclIds, Is, Items
    <2>3. \A e \in DOMAIN varName' : varName'[e] \in Key
      BY <1>3, <1>4, <2>1 DEF Put, TypeInv, Names
    <2> QED
      BY <1>2, <2>1, <2>2, <2>3 DEF TypeInv, Names
  <1>6. Visited'
    BY DEF TypeInv, Visited, DCvar, UseIds, Items
  <1>7. DOMAIN varName \subseteq DOMAIN varName' /\ d \in DOMAIN varName'
    BY <1>3 DEF Put
  <1>8. CASE SrcKey(n) \in DOMAIN table[current]
    <2>1. UNCHANGED table
      BY <1>8 DEF DCvar, AddVarSymbol
    <2>2. Keys' /\ EntriesNamed'
      BY <1>7, <2>1 DEF TypeInv, Keys, EntriesNamed
    <2> QED
      BY <1>5, <1>6, <2>1, <2>2 DEF TypeInv
  <1>9. CASE SrcKey(n) \notin DOMAIN table[current]
    <2>1. table' = [table EXCEPT ![current] = Put(@, SrcKey(n), d)]
      BY <1>9 DEF DCvar, AddVarSymbol
    <2>2. SrcKey(n) \in Key
      BY <1>1 DEF SrcKey, Key
    <2> QED
      BY <1>1, <1>5, <1>6, <1>7, <2>1, <2>2, EntryAdded
  <1> QED
    BY <1>8, <1>9

LEMMA NextType == TypeInv /\ [Next]_vars => TypeInv'
  <1> SUFFICES ASSUME TypeInv, [Next]_vars PROVE TypeInv'
    OBVIOUS
  <1>1. LevelInv'
    BY NextLevel DEF TypeInv
  <1>2. CASE UNCHANGED vars
    BY <1>1, <1>2, SameTypes DEF vars
  <1>3. ASSUME NEW i \in Items(prog, current), FHfundec(i) \/ FHfundef(i)
        PROVE  TypeInv'
    BY <1>1, <1>3, TypeFH
  <1>4. ASSUME NEW i \in Items(prog, current), DCuse(i) PROVE TypeInv'
    BY <1>1, <1>4, TypeDCuse
  <1>5. ASSUME NEW i \in Items(prog, current), DCvar(i) PROVE TypeInv'
    BY <1>1, <1>5, TypeDCvar
  <1>6. ASSUME NEW i \in Items(prog, current), DCstmt(i) \/ DCfundec(i) \/ DCfundef(i)
        PROVE  TypeInv'
    BY <1>1, <1>6, SameTypes DEF DCstmt, DCfundec, DCfundef
  <1>7. CASE FHleave \/ FHprogram
    BY <1>1, <1>7, SameTypes DEF FHleave, FHprogram
  <1>8. CASE DCleave
    BY <1>1, <1>8, SyncedTypes DEF DCleave, LeaveTo, TypeInv, LevelInv, Control
  <1>9. CASE DCprogram
    BY <1>1, <1>9, SyncedTypes, ScopeAssumption DEF DCprogram
  <1> QED
    BY <1>2, <1>3, <1>4, <1>5, <1>6, <1>7, <1>8, <1>9 DEF Next, Terminated

\* Every variable of the two traversals keeps its type, in every program.
THEOREM ScopingTypes == Spec => []TypeOK
  BY InitType, NextType, TypeInvGivesTypeOK, PTL DEF Spec

---------------------------------------------------------------------------
\* Name resolution.
Functions(t) == {j \in Items(prog, t) : Is(prog, t, j, "fundef") \/ Is(prog, t, j, "fundec")}
Variables(t) == {j \in Items(prog, t) : Is(prog, t, j, "var")}
Defines(t, j) == j \in Items(prog, t) /\ Is(prog, t, j, "fundef")

First(S, j) == j \in S /\ \A i \in S : j <= i

\* The functions of a scope that CA_FH has entered.
Entered(t) == IF phase = "FH" THEN Functions(t) \cap done[t] ELSE Functions(t)

\* The declarations of a variable that CA_DC has entered.
Declared(t) == IF phase = "FH" THEN {} ELSE Variables(t) \cap done[t]

Named(t, S, n) == {j \in S : ItemAt(t, j).name = n}

\* A table has an entry for each function entered: the first of its name.
FunEntries ==
    \A t \in Scope :
        /\ \A key \in DOMAIN table[t] : key.tag = "fun" =>
              /\ key = FunKey(key.name)
              /\ \E j \in Items(prog, t) : /\ First(Named(t, Entered(t), key.name), j)
                                /\ table[t][key] = <<t, j>>
        /\ \A j \in Entered(t) : FunKey(ItemAt(t, j).name) \in DOMAIN table[t]

\* CA_FH goes through the functions of a scope in order; the scope of a
\* function it has entered is done, or around the current one.
HeaderOrder ==
    phase = "FH" =>
        /\ \A t \in Scope :
              /\ done[t] \subseteq Functions(t)
              /\ \A j \in done[t] : \A i \in Functions(t) : i < j => i \in done[t]
              /\ \A key \in DOMAIN table[t] : key.tag = "fun"
        /\ \A s \in Scope : \A j \in done[s] : Defines(s, j) =>
              LET t == ItemAt(s, j).scope IN
              t \in prog.outer[current] \/ Functions(t) \subseteq done[t]
        /\ varName = <<>> /\ bound = <<>>

\* The scopes CA_DC is in, whose tables have the names of the source.
Open(t) == phase = "DC" /\ t \in prog.outer[current]

TableKey(t, n) == IF Open(t) THEN SrcKey(n) ELSE KeyOf(n, prog.depth[t])

\* A table has an entry for each variable declared so far, the first of its
\* name, under the name the variable has in the source while CA_DC is in the
\* scope, and under its new name when it has left.
VarEntries ==
    \A t \in Scope :
        /\ \A key \in DOMAIN table[t] : key.tag # "fun" =>
              \E n \in Name : \E j \in Items(prog, t) :
                 /\ key = TableKey(t, n)
                 /\ First(Named(t, Declared(t), n), j)
                 /\ table[t][key] = <<t, j>>
        /\ \A j \in Declared(t) : TableKey(t, ItemAt(t, j).name) \in DOMAIN table[t]

\* CA_DC goes through the items of a scope in its order; a scope it has not
\* come to is untouched, one it has left is done, and all variables around
\* the current scope are declared.
CheckOrder ==
    phase # "FH" =>
        /\ \A t \in Scope :
              /\ done[t] \subseteq Items(prog, t)
              /\ \A j \in done[t] : \A i \in Items(prog, t) :
                    Before(t, i, j) => i \in done[t]
        /\ \A s \in Scope : \A j \in Items(prog, s) : Defines(s, j) =>
              LET t == ItemAt(s, j).scope IN
              IF j \in done[s] THEN Open(t) \/ Items(prog, t) \subseteq done[t]
                               ELSE ~Open(t) /\ done[t] = {}
        /\ phase = "done" => Items(prog, Root) \subseteq done[Root]
        /\ \A t \in Scope \ {current} : Open(t) => Variables(t) \subseteq done[t]

\* What has been visited of the item CA_DC is at
Visiting(u) == u[1] = current /\ DCAt(u[2]) /\ u[3] <= sub

Position ==
    sub > 0 => \E i \in Items(prog, current) :
                  DCAt(i) /\ sub <= Len(ItemAt(current, i).uses)

UsesVisitedOnce ==
    phase # "FH" =>
        DOMAIN bound = {u \in UseIds(prog) : u[2] \in done[u[1]] \/ Visiting(u)}

\* The declarations found are those the language means, and a variable has
\* the name of its declaration.
Answers == \A u \in DOMAIN bound : bound[u] = Meaning(prog, u)

NewNames ==
    \A u \in DOMAIN bound :
        LET use == UseOf(prog, u) IN
        useName[u] = IF use.ns = "fun" THEN FunKey(use.name)
                     ELSE IF bound[u] = Nowhere THEN SrcKey(use.name)
                     ELSE KeyOf(use.name, prog.depth[bound[u][1]])

\* The messages that are due so far
Due(d) == d[2] \in Entered(d[1]) \cup Declared(d[1])
Checked(d) == phase # "FH" /\ d[2] \in done[d[1]]

DueDefinitions == {d \in DeclIds(prog) : Due(d) /\ Again(prog, d)}
DueParameters == UNION {RepeatedParams(prog, d) : d \in {e \in DeclIds(prog) : Checked(e)}}
DueUses == {u \in DOMAIN bound : Meaning(prog, u) = Nowhere}

Messages(kind, ids) == {[kind |-> kind, id |-> i] : i \in ids}

Reported ==
    Messages("defined", DueDefinitions) \cup Messages("defined", DueParameters)
    \cup Messages("undeclared", DueUses)

\* The inductive invariant
Order == HeaderOrder /\ CheckOrder /\ Position /\ UsesVisitedOnce
Entries == FunEntries /\ VarEntries
ResolutionInv == TypeInv /\ Order /\ Entries /\ Answers /\ NewNames /\ errors = Reported

-----------------------------------------------------------------------------
(* The tree of scopes                                                      *)

LEMMA NatLess == OpToRel(<, Nat) = {ss \in Nat \X Nat : ss[1] < ss[2]}
  BY DEF OpToRel

\* Every set of natural numbers that is not empty has a least element.
LEMMA LeastNat ==
    ASSUME NEW T \in SUBSET Nat, T # {}
    PROVE  \E x \in T : \A y \in T : x <= y
  <1> DEFINE R == {ss \in Nat \X Nat : ss[1] < ss[2]}
  <1>1. IsWellFoundedOn(R, Nat)
    BY NatLessThanWellFounded, NatLess
  <1>2. \E x \in T : \A y \in T : ~(<<y, x>> \in R)
    <2> HIDE DEF R
    <2> QED
      BY <1>1, WFMin
  <1>3. ASSUME NEW x \in Nat, NEW y \in Nat, <<y, x>> \notin R
        PROVE  x <= y
    <2>1. <<y, x>> \in Nat \X Nat
      OBVIOUS
    <2>2. ~(y < x)
      BY <1>3, <2>1, Zenon
    <2> QED
      BY <2>2
  <1> QED
    BY <1>2, <1>3

\* The least of some scopes by depth, for induction along the tree.
LEMMA Shallowest ==
    ASSUME NEW p, WellFormed(p), NEW S \in SUBSET Scope, S # {}
    PROVE  \E s \in S : \A t \in S : p.depth[s] <= p.depth[t]
  <1> DEFINE T == {p.depth[s] : s \in S}
  <1>1. p.depth \in [Scope -> Nat]
    BY Tree
  <1>2. T \in SUBSET Nat /\ T # {}
    BY <1>1
  <1>3. PICK x \in T : \A y \in T : x <= y
    BY <1>2, LeastNat
  <1> QED
    BY <1>3

\* A scope and those around it lie on one path, which it ends.
LEMMA Path ==
    ASSUME NEW p, WellFormed(p), NEW s \in Scope
    PROVE  /\ s \in p.outer[s] /\ p.outer[s] \subseteq Scope
           /\ \A t \in p.outer[s] : p.depth[t] <= p.depth[s]
           /\ \A t, r \in p.outer[s] : p.depth[t] = p.depth[r] => t = r
  <1> DEFINE Good(x) ==
               /\ x \in p.outer[x] /\ p.outer[x] \subseteq Scope
               /\ \A t \in p.outer[x] : p.depth[t] <= p.depth[x]
               /\ \A t, r \in p.outer[x] : p.depth[t] = p.depth[r] => t = r
             Bad == {x \in Scope : ~Good(x)}
  <1>0. /\ p.parent \in [Scope -> Scope] /\ p.depth \in [Scope -> Nat]
        /\ p.outer \in [Scope -> SUBSET Scope]
    BY Tree
  <1>1. SUFFICES ASSUME Bad # {} PROVE FALSE
    OBVIOUS
  <1>2. PICK x \in Bad : \A t \in Bad : p.depth[x] <= p.depth[t]
    <2> HIDE DEF Bad
    <2>1. Bad \in SUBSET Scope
      BY DEF Bad
    <2> QED
      BY <1>1, <2>1, Shallowest
  <1>3. x # Root
    BY Tree, ScopeAssumption
  <1>4. /\ p.parent[x] \in Scope
        /\ p.outer[x] = p.outer[p.parent[x]] \cup {x}
        /\ p.depth[x] = p.depth[p.parent[x]] + 1
    BY <1>3, Tree
  <1>5. Good(p.parent[x])
    BY <1>0, <1>2, <1>4
  <1>6. x \in p.outer[x] /\ p.outer[x] \subseteq Scope
    BY <1>0, <1>4
  <1>7. \A t \in p.outer[p.parent[x]] : p.depth[t] < p.depth[x]
    BY <1>0, <1>4, <1>5
  <1>8. Good(x)
    BY <1>0, <1>4, <1>5, <1>6, <1>7
  <1> QED
    BY <1>2, <1>8

\* The scope around another one is on its path, and the scope itself is not
\* on the path of the one around it.
LEMMA Around ==
    ASSUME NEW p, WellFormed(p), NEW s \in Scope, s # Root
    PROVE  /\ p.parent[s] \in Scope /\ p.parent[s] \in p.outer[s]
           /\ s \notin p.outer[p.parent[s]]
           /\ p.outer[p.parent[s]] = p.outer[s] \ {s}
  <1>1. /\ p.parent[s] \in Scope /\ p.depth[p.parent[s]] \in Nat
        /\ p.outer[s] = p.outer[p.parent[s]] \cup {s}
        /\ p.depth[s] = p.depth[p.parent[s]] + 1
    BY Tree
  <1>2. /\ p.parent[s] \in p.outer[p.parent[s]]
        /\ \A t \in p.outer[p.parent[s]] : p.depth[t] <= p.depth[p.parent[s]]
    BY <1>1, Path
  <1> QED
    BY <1>1, <1>2

\* Of some scopes on a path, one is the innermost.
LEMMA Innermost ==
    ASSUME NEW p, WellFormed(p), NEW s \in Scope, NEW H \in SUBSET p.outer[s], H # {}
    PROVE  \E t \in H : \A r \in H : p.depth[r] <= p.depth[t]
  <1> DEFINE T == {p.depth[s] - p.depth[t] : t \in H}
  <1>1. /\ p.depth \in [Scope -> Nat] /\ H \subseteq Scope
        /\ \A t \in H : p.depth[t] <= p.depth[s]
    BY Tree, Path
  <1>2. T \in SUBSET Nat /\ T # {}
    BY <1>1
  <1>3. PICK x \in T : \A y \in T : x <= y
    BY <1>2, LeastNat
  <1>4. PICK t \in H : x = p.depth[s] - p.depth[t]
    BY <1>3
  <1>5. \A r \in H : p.depth[s] - p.depth[t] <= p.depth[s] - p.depth[r]
    BY <1>3, <1>4
  <1> QED
    BY <1>1, <1>4, <1>5

\* What holds of the scope of each function definition, if it holds of the
\* scope around it, holds of all scopes if it holds of the global one.
LEMMA ScopesReached ==
    ASSUME NEW p, WellFormed(p), NEW S, Root \in S,
           \A s \in Scope \cap S : \A j \in Items(p, s) :
              Is(p, s, j, "fundef") => p.items[s][j].scope \in S
    PROVE  Scope \subseteq S
  <1> DEFINE Bad == Scope \ S
  <1>1. SUFFICES ASSUME Bad # {} PROVE FALSE
    OBVIOUS
  <1>2. PICK x \in Bad : \A t \in Bad : p.depth[x] <= p.depth[t]
    <2> HIDE DEF Bad
    <2>1. Bad \in SUBSET Scope
      BY DEF Bad
    <2> QED
      BY <1>1, <2>1, Shallowest
  <1>3. /\ p.parent[x] \in Scope /\ p.depth[p.parent[x]] \in Nat
        /\ p.depth[x] = p.depth[p.parent[x]] + 1
    BY <1>2, Tree
  <1>4. p.parent[x] \in S
    BY <1>2, <1>3
  <1>5. PICK i \in Items(p, p.parent[x]) : /\ Is(p, p.parent[x], i, "fundef")
                                           /\ p.items[p.parent[x]][i].scope = x
    BY <1>2 DEF WellFormed
  <1> QED
    BY <1>2, <1>3, <1>4, <1>5

-----------------------------------------------------------------------------
(* Keys and lookups                                                        *)

LEMMA KeysApart ==
    /\ \A n : FunKey(n).tag = "fun" /\ FunKey(n).name = n
    /\ \A n : SrcKey(n).tag # "fun" /\ SrcKey(n).name = n
    /\ \A n, l : KeyOf(n, l).tag # "fun" /\ KeyOf(n, l).name = n
    /\ \A n, m, k, l : KeyOf(n, k) = KeyOf(m, l) => n = m /\ (n \notin ForName => k = l)
    /\ \A n, m, l : n \notin ForName => KeyOf(n, l) # SrcKey(m)
    /\ \A n, l : n \in ForName => KeyOf(n, l) = SrcKey(n)
  BY DEF FunKey, SrcKey, LvlKey, KeyOf

LEMMA PutEntry ==
    ASSUME NEW f, NEW k, NEW v
    PROVE  /\ DOMAIN Put(f, k, v) = DOMAIN f \cup {k}
           /\ \A x \in DOMAIN f : Put(f, k, v)[x] = f[x]
           /\ k \notin DOMAIN f => Put(f, k, v)[k] = v
  BY DEF Put

Seen(u, t) == {j \in Items(prog, t) : Sees(prog, u, t, j)}

\* Of the sets in which the first of two numbers can be, there is one.
LEMMA FirstUnique ==
    ASSUME NEW S \in SUBSET Nat, NEW j, First(S, j)
    PROVE  j = CHOOSE k \in S : \A i \in S : k <= i
  <1> DEFINE c == CHOOSE k \in S : \A i \in S : k <= i
  <1>1. c \in S /\ \A i \in S : c <= i
    BY DEF First
  <1>2. j \in S /\ j <= c /\ c <= j
    BY <1>1 DEF First
  <1> HIDE DEF c
  <1>3. j = c
    BY <1>1, <1>2
  <1> QED
    BY <1>3 DEF c

LEMMA ItemNumbers ==
    ASSUME NEW p, WellFormed(p), NEW t \in Scope
    PROVE  Items(p, t) = 1..Len(p.items[t]) /\ Len(p.items[t]) \in Nat /\ Items(p, t) \subseteq Nat
  BY Tree DEF Items

\* A lookup that finds in each table around a use what the use can see there
\* finds what the use means.
LEMMA LookupMeans ==
    ASSUME WellFormed(prog), NEW u, u[1] \in Scope, NEW key,
           \A t \in prog.outer[u[1]] :
              key \in DOMAIN table[t] =>
                 \E j \in Items(prog, t) : First(Seen(u, t), j) /\ table[t][key] = <<t, j>>,
           \A t \in prog.outer[u[1]] : Seen(u, t) # {} => key \in DOMAIN table[t]
    PROVE  DeepLookup(u[1], key) = Meaning(prog, u)
  <1> DEFINE H == {t \in prog.outer[u[1]] : key \in DOMAIN table[t]}
             T == CHOOSE t \in H : \A r \in H : prog.depth[r] <= prog.depth[t]
  <1>1. H = {t \in prog.outer[u[1]] : Seen(u, t) # {}}
    BY DEF First
  <1>2. DeepLookup(u[1], key) = IF H = {} THEN Nowhere ELSE table[T][key]
    BY DEF DeepLookup
  <1>3. Meaning(prog, u) =
           IF H = {} THEN Nowhere
           ELSE <<T, CHOOSE j \in Seen(u, T) : \A i \in Seen(u, T) : j <= i>>
    <2> DEFINE G == {t \in prog.outer[u[1]] : Seen(u, t) # {}}
               In(t) == CHOOSE j \in Seen(u, t) : \A i \in Seen(u, t) : j <= i
               Top(S) == CHOOSE t \in S : \A r \in S : prog.depth[r] <= prog.depth[t]
    <2>1. Meaning(prog, u) = IF G = {} THEN Nowhere ELSE <<Top(G), In(Top(G))>>
      BY Zenon DEF Meaning, Seen
    <2>2. H = G
      BY <1>1
    <2> HIDE DEF G
    <2>3. Meaning(prog, u) = IF H = {} THEN Nowhere ELSE <<Top(H), In(Top(H))>>
      BY <2>1, <2>2
    <2> QED
      BY <2>3
  <1>4. CASE H = {}
    BY <1>2, <1>3, <1>4
  <1>5. CASE H # {}
    <2>1. H \in SUBSET prog.outer[u[1]]
      OBVIOUS
    <2>2. T \in H
      <3> HIDE DEF H
      <3>1. \E t \in H : \A r \in H : prog.depth[r] <= prog.depth[t]
        BY <1>5, <2>1, Innermost
      <3> QED
        BY <3>1
    <2> HIDE DEF T
    <2>3. T \in Scope
      BY <2>2, Path
    <2>4. PICK j \in Items(prog, T) : First(Seen(u, T), j) /\ table[T][key] = <<T, j>>
      BY <2>2
    <2>5. Seen(u, T) \in SUBSET Nat
      BY <2>3, ItemNumbers DEF Seen
    <2>6. j = CHOOSE k \in Seen(u, T) : \A i \in Seen(u, T) : k <= i
      BY <2>4, <2>5, FirstUnique
    <2> QED
      BY <1>2, <1>3, <1>5, <2>4, <2>6
  <1> QED
    BY <1>4, <1>5

-----------------------------------------------------------------------------
(* What DCuse finds                                                        *)

LEMMA InvGives ==
    ASSUME ResolutionInv
    PROVE  /\ WellFormed(prog) /\ current \in Scope /\ prog.outer[current] \subseteq Scope
           /\ done \in [Scope -> SUBSET Nat] /\ sub \in Nat
           /\ DOMAIN table = Scope
           /\ current \in prog.outer[current]
  BY Path DEF ResolutionInv, TypeInv, LevelInv, Control

LEMMA UseAt ==
    ASSUME NEW p, WellFormed(p), NEW s \in Scope, NEW i \in Items(p, s),
           NEW k \in DOMAIN p.items[s][i].uses
    PROVE  /\ p.items[s][i].uses[k] \in Use
           /\ k \in 1..Len(p.items[s][i].uses) /\ Len(p.items[s][i].uses) \in Nat
           /\ Is(p, s, i, "var") \/ Is(p, s, i, "stmt")
           /\ <<s, i, k>> \in UseIds(p) /\ UseOf(p, <<s, i, k>>) = p.items[s][i].uses[k]
  <1>1. p.items[s][i].uses \in Seq(Use)
    BY Opened DEF Item
  <1>2. k \in 1..Len(p.items[s][i].uses)
    BY <1>1
  <1>3. p.items[s][i].uses # <<>>
    BY <1>2
  <1>4. Is(p, s, i, "var") \/ Is(p, s, i, "stmt")
    BY <1>3 DEF WellFormed
  <1> QED
    BY <1>1, <1>2, <1>4 DEF UseIds, UseOf

\* Of the variables of its scope, those before an expression are declared
\* when CA_DC comes to it.
LEMMA DeclaredBefore ==
    ASSUME ResolutionInv, NEW i \in Items(prog, current), DCAt(i), ~Defines(current, i)
    PROVE  Declared(current) = {j \in Variables(current) : j < i}
  <1>1. phase # "FH" /\ i \notin done[current]
    BY DEF DCAt
  <1>2. \A j \in done[current] : Before(current, i, j) => i \in done[current]
    BY <1>1, InvGives DEF ResolutionInv, Order, CheckOrder
  <1>3. ASSUME NEW j \in Variables(current)
        PROVE  j \in done[current] <=> j < i
    <2>1. j \in Items(prog, current) /\ ~Is(prog, current, j, "fundef") /\ j \in Nat /\ i \in Nat
      BY ItemNumbers, InvGives DEF Variables, Is
    <2>2. /\ Before(current, j, i) <=> j < i
          /\ Before(current, i, j) <=> i < j
      BY <2>1 DEF Before, Defines
    <2>3. j < i => j \in done[current]
      BY <2>1, <2>2 DEF DCAt
    <2>4. j \in done[current] => ~(i < j) /\ j # i
      BY <1>1, <1>2, <2>2
    <2> QED
      BY <2>1, <2>3, <2>4
  <1> QED
    BY <1>1, <1>3 DEF Declared

LEMMA FunctionFound ==
    ASSUME ResolutionInv, phase # "FH", NEW u \in UseIds(prog), UseOf(prog, u).ns = "fun"
    PROVE  DeepLookup(u[1], FunKey(UseOf(prog, u).name)) = Meaning(prog, u)
  <1> DEFINE n == UseOf(prog, u).name
             key == FunKey(n)
  <1>0. u[1] \in Scope /\ prog.outer[u[1]] \subseteq Scope
    BY Path, InvGives DEF UseIds
  <1>1. ASSUME NEW t \in prog.outer[u[1]]
        PROVE  /\ t \in Scope
               /\ Seen(u, t) = Named(t, Entered(t), n)
               /\ Entered(t) = Functions(t)
    BY <1>0 DEF Seen, Sees, Named, Entered, Functions, ItemAt
  <1>2. ASSUME NEW t \in prog.outer[u[1]], key \in DOMAIN table[t]
        PROVE  \E j \in Items(prog, t) : First(Seen(u, t), j) /\ table[t][key] = <<t, j>>
    BY <1>1, <1>2, KeysApart DEF ResolutionInv, Entries, FunEntries
  <1>3. ASSUME NEW t \in prog.outer[u[1]], Seen(u, t) # {}
        PROVE  key \in DOMAIN table[t]
    BY <1>1, <1>3 DEF ResolutionInv, Entries, FunEntries, Named
  <1> HIDE DEF key
  <1>4. DeepLookup(u[1], key) = Meaning(prog, u)
    BY <1>0, <1>2, <1>3, LookupMeans, InvGives
  <1> QED
    BY <1>4 DEF key

LEMMA VariableFound ==
    ASSUME ResolutionInv, NEW i \in Items(prog, current), DCAt(i), NEW k, NEW u,
           u = <<current, i, k>>, k \in DOMAIN ItemAt(current, i).uses,
           UseOf(prog, u).ns = "var"
    PROVE  DeepLookup(current, SrcKey(UseOf(prog, u).name)) = Meaning(prog, u)
  <1> DEFINE n == UseOf(prog, u).name
             key == SrcKey(n)
  <1>0. phase = "DC" /\ u[1] = current /\ u[2] = i
    BY DEF DCAt
  <1>1. ~Defines(current, i)
    BY UseAt, InvGives DEF Defines, Is, ItemAt
  <1>2. ASSUME NEW t \in prog.outer[current]
        PROVE  /\ t \in Scope /\ Open(t)
               /\ Seen(u, t) = Named(t, Declared(t), n)
    <2>1. t \in Scope /\ Open(t)
      BY <1>0, InvGives DEF Open
    <2>0. /\ Variables(t) = {j \in Items(prog, t) : Is(prog, t, j, "var")}
          /\ Seen(u, t) = {j \in Items(prog, t) :
                              /\ prog.items[t][j].name = n /\ Is(prog, t, j, "var")
                              /\ (t = current => j < i)}
      BY <1>0 DEF Seen, Sees, Variables
    <2>2. CASE t = current
      <3>1. Declared(t) = {j \in Variables(t) : j < i}
        BY <1>1, <2>2, DeclaredBefore
      <3>2. \A j : j \in Seen(u, t) <=> j \in Declared(t) /\ prog.items[t][j].name = n
        BY <2>0, <2>2, <3>1
      <3> QED
        BY <2>0, <2>1, <3>2 DEF Named, ItemAt
    <2>3. CASE t # current
      <3>1. Declared(t) = Variables(t)
        BY <1>0, <2>1, <2>3 DEF Declared, ResolutionInv, Order, CheckOrder
      <3>2. \A j : j \in Seen(u, t) <=> j \in Declared(t) /\ prog.items[t][j].name = n
        BY <2>0, <2>3, <3>1
      <3> QED
        BY <2>0, <2>1, <3>2 DEF Named, ItemAt
    <2> QED
      BY <2>1, <2>2, <2>3
  <1>3. ASSUME NEW t \in prog.outer[current], key \in DOMAIN table[t]
        PROVE  \E j \in Items(prog, t) : First(Seen(u, t), j) /\ table[t][key] = <<t, j>>
    <2>1. PICK m \in Name : \E j \in Items(prog, t) :
                 /\ key = TableKey(t, m)
                 /\ First(Named(t, Declared(t), m), j)
                 /\ table[t][key] = <<t, j>>
      BY <1>2, <1>3, KeysApart DEF ResolutionInv, Entries, VarEntries
    <2>2. m = n
      BY <1>2, <2>1, KeysApart DEF TableKey
    <2> QED
      BY <1>2, <2>1, <2>2
  <1>4. ASSUME NEW t \in prog.outer[current], Seen(u, t) # {}
        PROVE  key \in DOMAIN table[t]
    BY <1>2, <1>4 DEF ResolutionInv, Entries, VarEntries, Named, TableKey
  <1> HIDE DEF key
  <1>5. DeepLookup(u[1], key) = Meaning(prog, u)
    BY <1>0, <1>3, <1>4, LookupMeans, InvGives
  <1> QED
    BY <1>0, <1>5 DEF key

-----------------------------------------------------------------------------
(* The invariant holds initially.                                          *)

LEMMA InitResolution == Init => ResolutionInv
  <1> SUFFICES ASSUME Init PROVE ResolutionInv
    OBVIOUS
  <1>1. TypeInv
    BY InitType
  <1>2. Order
    BY DEF Init, Order, HeaderOrder, CheckOrder, Position, UsesVisitedOnce
  <1>3. Entries
    BY DEF Init, Entries, FunEntries, VarEntries, Entered, Declared
  <1>4. Answers /\ NewNames
    BY DEF Init, Answers, NewNames
  <1>5. DueDefinitions = {} /\ DueParameters = {} /\ DueUses = {}
    <2>1. \A d \in DeclIds(prog) : ~Due(d) /\ ~Checked(d)
      BY DEF Init, Due, Entered, Declared, Checked, DeclIds
    <2> QED
      BY <2>1 DEF Init, DueDefinitions, DueParameters, DueUses
  <1>6. errors = Reported
    BY <1>5 DEF Init, Reported, Messages
  <1> QED
    BY <1>1, <1>2, <1>3, <1>4, <1>6 DEF ResolutionInv

-----------------------------------------------------------------------------
(* What the steps have in common                                           *)

\* The program does not change.
LEMMA Static ==
    ASSUME prog' = prog
    PROVE  /\ \A t, j : ItemAt(t, j)' = ItemAt(t, j) /\ (Defines(t, j)' <=> Defines(t, j))
           /\ \A t : Functions(t)' = Functions(t) /\ Variables(t)' = Variables(t)
           /\ \A t, S, n : Named(t, S, n)' = Named(t, S, n)
           /\ \A t, i, j : Before(t, i, j)' <=> Before(t, i, j)
           /\ DeclIds(prog)' = DeclIds(prog) /\ UseIds(prog)' = UseIds(prog)
           /\ \A u : UseOf(prog, u)' = UseOf(prog, u) /\ Meaning(prog, u)' = Meaning(prog, u)
  BY DEF ItemAt, Defines, Functions, Variables, Named, Before

LEMMA Kinds ==
    ASSUME NEW p, WellFormed(p), NEW t \in Scope, NEW j \in Items(p, t)
    PROVE  /\ Is(p, t, j, "fundef") \/ Is(p, t, j, "fundec") \/ Is(p, t, j, "var") \/ Is(p, t, j, "stmt")
           /\ <<t, j>> \in DeclIds(p) <=> ~Is(p, t, j, "stmt")
           /\ \A k \in {"var", "stmt"} : Is(p, t, j, k) => ~Is(p, t, j, "fundef") /\ ~Is(p, t, j, "fundec")
           /\ ~(Is(p, t, j, "fundef") /\ Is(p, t, j, "fundec"))
  <1>1. p.items[t][j].kind \in {"var", "stmt", "fundef", "fundec"}
    BY Opened DEF Item
  <1> QED
    BY <1>1 DEF Is, DeclIds

LEMMA Declarations ==
    ASSUME NEW p, NEW d \in DeclIds(p)
    PROVE  /\ d = <<d[1], d[2]>> /\ d[1] \in Scope /\ d[2] \in Items(p, d[1])
           /\ ~Is(p, d[1], d[2], "stmt")
  BY DEF DeclIds

\* CA_DC is at one item at a time.
LEMMA OneAtATime ==
    ASSUME ResolutionInv, NEW i \in Items(prog, current), NEW j \in Items(prog, current),
           DCAt(i), DCAt(j)
    PROVE  i = j
  <1>1. i \in Nat /\ j \in Nat
    BY ItemNumbers, InvGives
  <1>2. i # j => Before(current, i, j) \/ Before(current, j, i)
    BY <1>1 DEF Before
  <1> QED
    BY <1>2 DEF DCAt

\* Outside of CA_DC nothing has been visited of an item.
LEMMA NoneVisited ==
    ASSUME ResolutionInv, phase # "DC" \/ DCfinished
    PROVE  sub = 0
  BY InvGives DEF ResolutionInv, Order, Position, DCAt, DCfinished

LEMMA UseParts ==
    ASSUME NEW p, WellFormed(p), NEW u \in UseIds(p)
    PROVE  /\ u = <<u[1], u[2], u[3]>> /\ u[1] \in Scope /\ u[2] \in Items(p, u[1])
           /\ u[3] \in DOMAIN p.items[u[1]][u[2]].uses /\ u[3] \in Nat \ {0}
           /\ u[3] <= Len(p.items[u[1]][u[2]].uses)
  <1>1. /\ u = <<u[1], u[2], u[3]>> /\ u[1] \in Scope /\ u[2] \in Items(p, u[1])
        /\ u[3] \in DOMAIN p.items[u[1]][u[2]].uses
    BY DEF UseIds
  <1> QED
    BY <1>1, UseAt

-----------------------------------------------------------------------------
(* FunctionHeader                                                          *)

\* A function whose name is in the table already is one that must be reported.
LEMMA FunctionAgain ==
    ASSUME ResolutionInv, NEW i \in Items(prog, current), FHAt(i)
    PROVE  /\ i \in Functions(current) /\ i \notin done[current] /\ <<current, i>> \in DeclIds(prog)
           /\ \A j \in Entered(current) : j < i
           /\ FunKey(ItemAt(current, i).name) \in DOMAIN table[current]
                 <=> Again(prog, <<current, i>>)
  <1> DEFINE n == ItemAt(current, i).name
  <1>1. /\ phase = "FH" /\ i \in Functions(current) /\ i \notin done[current]
        /\ \A j \in Functions(current) : j < i => j \in done[current]
    BY DEF FHAt, IsFun, Functions
  <1>2. Entered(current) = Functions(current) \cap done[current]
    BY <1>1 DEF Entered
  <1>3. <<current, i>> \in DeclIds(prog)
    BY <1>1, Kinds, InvGives DEF Functions
  <1>4. Items(prog, current) \subseteq Nat
    BY ItemNumbers, InvGives
  <1>5. ASSUME NEW j \in Entered(current)
        PROVE  j < i
    <2>1. /\ j \in Items(prog, current) /\ j # i
          /\ i < j => i \in done[current]
      BY <1>1, <1>2, InvGives DEF ResolutionInv, Order, HeaderOrder, Functions
    <2> QED
      BY <1>1, <1>4, <2>1
  <1>6. ASSUME FunKey(n) \in DOMAIN table[current]
        PROVE  Again(prog, <<current, i>>)
    <2>1. PICK j \in Items(prog, current) : First(Named(current, Entered(current), n), j)
      BY <1>6, InvGives, KeysApart DEF ResolutionInv, Entries, FunEntries
    <2>2. j \in Functions(current) /\ j < i /\ ItemAt(current, j).name = n
      BY <1>2, <1>5, <2>1 DEF First, Named
    <2>3. <<current, j>> \in DeclIds(prog) /\ ~Is(prog, current, j, "var") /\ ~Is(prog, current, i, "var")
      BY <1>1, <2>2, Kinds, InvGives DEF Functions
    <2> QED
      BY <2>2, <2>3 DEF Again, SameSpace, ItemAt
  <1>7. ASSUME Again(prog, <<current, i>>)
        PROVE  FunKey(n) \in DOMAIN table[current]
    <2>1. PICK j \in Items(prog, current) :
             j < i /\ <<current, j>> \in DeclIds(prog) /\ SameSpace(prog, current, j, i)
      BY <1>7 DEF Again
    <2>2. ~Is(prog, current, j, "var") /\ ItemAt(current, j).name = n
      BY <1>1, <2>1, Kinds, InvGives DEF SameSpace, Functions, ItemAt
    <2>3. j \in Functions(current)
      BY <2>1, <2>2, Kinds, InvGives DEF Functions
    <2> QED
      BY <1>1, <1>2, <2>1, <2>2, <2>3, InvGives DEF ResolutionInv, Entries, FunEntries
  <1> QED
    BY <1>1, <1>3, <1>5, <1>6, <1>7

LEMMA HeaderEntries ==
    ASSUME ResolutionInv, NEW i \in Items(prog, current), FHAt(i), EnterFun(i),
           UNCHANGED <<prog, phase, bound>>
    PROVE  Entries' /\ errors' = Reported'
  <1> DEFINE n == ItemAt(current, i).name
             key == FunKey(n)
  <1>0. phase = "FH" /\ WellFormed(prog) /\ current \in Scope
    BY InvGives DEF FHAt
  <1>1. done' = [done EXCEPT ![current] = @ \cup {i}] /\ done \in [Scope -> SUBSET Nat]
    BY InvGives DEF EnterFun
  <1>2. /\ i \in Functions(current) /\ i \notin done[current] /\ i \in Nat
        /\ \A j \in Entered(current) : j < i
    BY FunctionAgain, ItemNumbers, InvGives
  <1>3. \A t \in Scope : /\ t # current => Entered(t)' = Entered(t)
                         /\ t = current => Entered(t)' = Entered(t) \cup {i}
    BY <1>0, <1>1, <1>2, Static DEF Entered
  <1>4. \A t \in Scope : Entered(t) \subseteq Nat /\ Entered(t) \subseteq Items(prog, t)
    BY <1>0, ItemNumbers DEF Entered, Functions
  <1>5. \A t \in Scope : \A j \in Items(prog, t) : \A m :
           First(Named(t, Entered(t), m), j) => First(Named(t, Entered(t)', m), j)
    BY <1>2, <1>3, <1>4 DEF First, Named
  <1>6. FunEntries'
    <2>1. CASE key \in DOMAIN table[current]
      <3>1. table' = table
        BY <2>1 DEF EnterFun
      <3>2. ASSUME NEW t \in Scope, NEW k \in DOMAIN table[t], k.tag = "fun"
            PROVE  /\ k = FunKey(k.name)
                   /\ \E j \in Items(prog, t) : /\ First(Named(t, Entered(t)', k.name), j)
                                                /\ table[t][k] = <<t, j>>
        BY <1>5, <3>2 DEF ResolutionInv, Entries, FunEntries
      <3>3. \A t \in Scope : \A j \in Entered(t)' : FunKey(ItemAt(t, j).name) \in DOMAIN table[t]
        BY <1>3, <2>1 DEF ResolutionInv, Entries, FunEntries
      <3> QED
        BY <3>1, <3>2, <3>3, Static DEF FunEntries
    <2>2. CASE key \notin DOMAIN table[current]
      <3>1. table' = [table EXCEPT ![current] = Put(@, key, <<current, i>>)]
        BY <2>2 DEF EnterFun
      <3>0. key = FunKey(n) /\ key.tag = "fun" /\ key.name = n
        BY KeysApart
      <3> HIDE DEF key
      <3>2. \A t \in Scope : /\ t # current => table'[t] = table[t]
                             /\ t = current => table'[t] = Put(table[t], key, <<current, i>>)
        BY <3>1, InvGives
      <3>3. Named(current, Entered(current), n) = {}
        BY <1>0, <2>2, <3>0 DEF ResolutionInv, Entries, FunEntries, Named
      <3>4. \A t \in Scope : t = current => First(Named(t, Entered(t)', n), i)
        BY <1>0, <1>2, <1>3, <3>3 DEF First, Named
      <3>5. ASSUME NEW t \in Scope, NEW k \in DOMAIN table'[t], k.tag = "fun"
            PROVE  /\ k = FunKey(k.name)
                   /\ \E j \in Items(prog, t) : /\ First(Named(t, Entered(t)', k.name), j)
                                                /\ table'[t][k] = <<t, j>>
        <4>1. CASE k \in DOMAIN table[t]
          <5>1. table'[t][k] = table[t][k]
            BY <3>2, <4>1 DEF Put
          <5> QED
            BY <1>5, <3>5, <4>1, <5>1 DEF ResolutionInv, Entries, FunEntries
        <4>2. CASE k \notin DOMAIN table[t]
          <5>1. t = current
            BY <3>2, <4>2
          <5>2. k = key /\ table'[t][k] = <<current, i>>
            <6>1. table'[t] = Put(table[t], key, <<current, i>>)
              BY <3>2, <5>1
            <6>2. DOMAIN Put(table[t], key, <<current, i>>) = DOMAIN table[t] \cup {key}
              BY PutEntry
            <6>3. k = key
              BY <4>2, <6>1, <6>2
            <6>4. Put(table[t], key, <<current, i>>)[key] = <<current, i>>
              BY <4>2, <6>3 DEF Put
            <6> QED
              BY <6>1, <6>3, <6>4
          <5>3. First(Named(t, Entered(t)', k.name), i) /\ i \in Items(prog, t)
            BY <3>0, <3>4, <5>1, <5>2
          <5> QED
            BY <3>0, <5>1, <5>2, <5>3
        <4> QED
          BY <4>1, <4>2
      <3>6. ASSUME NEW t \in Scope, NEW j \in Entered(t)'
            PROVE  FunKey(ItemAt(t, j).name) \in DOMAIN table'[t]
        <4>1. DOMAIN table[t] \subseteq DOMAIN table'[t] /\ (t = current => key \in DOMAIN table'[t])
          <5>1. DOMAIN Put(table[t], key, <<current, i>>) = DOMAIN table[t] \cup {key}
            BY PutEntry
          <5> QED
            BY <3>2, <5>1
        <4> QED
          BY <1>3, <3>0, <4>1 DEF ResolutionInv, Entries, FunEntries
      <3> QED
        BY <3>5, <3>6, Static DEF FunEntries
    <2> QED
      BY <2>1, <2>2
  <1>7. \A t \in Scope : \A k \in DOMAIN table'[t] : k.tag = "fun"
    <2>1. \A t \in Scope : \A k \in DOMAIN table[t] : k.tag = "fun"
      BY <1>0 DEF ResolutionInv, Order, HeaderOrder
    <2> QED
      BY <2>1, KeysApart, InvGives DEF EnterFun, Put
  <1>8. VarEntries'
    BY <1>0, <1>7 DEF VarEntries, Declared
  <1>9. errors' = Reported'
    <2>1. \A t : Declared(t)' = {} /\ Declared(t) = {}
      BY <1>0 DEF Declared
    <2>2. \A d \in DeclIds(prog) : Due(d)' <=> Due(d) \/ d = <<current, i>>
      BY <1>3, <2>1, Declarations DEF Due
    <2>3. DueDefinitions' = DueDefinitions \cup
             (IF key \in DOMAIN table[current] THEN {<<current, i>>} ELSE {})
      BY <2>2, FunctionAgain, Static DEF DueDefinitions
    <2>4. DueParameters' = {} /\ DueParameters = {}
      BY <1>0 DEF DueParameters, Checked
    <2>5. DueUses' = DueUses
      BY Static DEF DueUses
    <2>6. errors = Reported
      BY DEF ResolutionInv
    <2> HIDE DEF key
    <2>7. CASE key \in DOMAIN table[current]
      <3>1. errors' = errors \cup {[kind |-> "defined", id |-> <<current, i>>]}
        BY <2>7 DEF EnterFun, key
      <3> QED
        BY <2>3, <2>4, <2>5, <2>6, <2>7, <3>1 DEF Reported, Messages
    <2>8. CASE key \notin DOMAIN table[current]
      <3>1. errors' = errors
        BY <2>8 DEF EnterFun, key
      <3> QED
        BY <2>3, <2>4, <2>5, <2>6, <2>8, <3>1 DEF Reported, Messages
    <2> QED
      BY <2>7, <2>8
  <1> QED
    BY <1>6, <1>8, <1>9 DEF Entries

\* While CA_FH runs there are no uses yet.
LEMMA NoUsesYet ==
    ASSUME ResolutionInv, phase = "FH", UNCHANGED bound
    PROVE  Answers' /\ NewNames'
  BY DEF ResolutionInv, Order, HeaderOrder, Answers, NewNames

LEMMA ResolveFHfun ==
    ASSUME ResolutionInv, TypeInv', NEW i \in Items(prog, current), FHfundec(i) \/ FHfundef(i)
    PROVE  ResolutionInv'
  <1>0. /\ FHAt(i) /\ EnterFun(i) /\ UNCHANGED <<prog, phase, sub, varName, bound>>
        /\ phase = "FH" /\ WellFormed(prog) /\ current \in Scope
    BY InvGives DEF FHfundec, FHfundef, FHAt
  <1>1. Entries' /\ errors' = Reported'
    BY <1>0, HeaderEntries
  <1>2. Answers' /\ NewNames'
    BY <1>0, NoUsesYet
  <1>3. \A t \in Scope : done'[t] = IF t = current THEN done[t] \cup {i} ELSE done[t]
    BY <1>0, InvGives DEF EnterFun
  <1>4. /\ i \in Functions(current)
        /\ \A j \in Functions(current) : j < i => j \in done[current]
    BY <1>0 DEF FHAt, IsFun, Functions
  <1>5. /\ prog.outer[current] \subseteq prog.outer[current']
        /\ Defines(current, i) => ItemAt(current, i).scope \in prog.outer[current']
    <2>1. CASE FHfundec(i)
      BY <1>0, <2>1, Kinds DEF FHfundec, Defines
    <2>2. CASE FHfundef(i)
      <3> DEFINE t == ItemAt(current, i).scope
      <3>1. t \in Scope \ {Root} /\ prog.parent[t] = current /\ current' = t
        BY <1>0, <2>2, Opened DEF FHfundef, ItemAt
      <3>2. prog.outer[t] = prog.outer[current] \cup {t}
        BY <1>0, <3>1, Tree
      <3> QED
        BY <3>1, <3>2
    <2> QED
      BY <2>1, <2>2
  <1>6. HeaderOrder'
    <2>1. ASSUME NEW t \in Scope
          PROVE  /\ done'[t] \subseteq Functions(t)
                 /\ \A j \in done'[t] : \A k \in Functions(t) : k < j => k \in done'[t]
      <3>1. /\ done[t] \subseteq Functions(t)
            /\ \A j \in done[t] : \A k \in Functions(t) : k < j => k \in done[t]
        BY <1>0 DEF ResolutionInv, Order, HeaderOrder
      <3>2. CASE t = current
        BY <1>3, <1>4, <3>1, <3>2
      <3>3. CASE t # current
        BY <1>3, <3>1, <3>3
      <3> QED
        BY <3>2, <3>3
    <2>2. \A t \in Scope : \A key \in DOMAIN table'[t] : key.tag = "fun"
      <3>1. \A t \in Scope : \A key \in DOMAIN table[t] : key.tag = "fun"
        BY <1>0 DEF ResolutionInv, Order, HeaderOrder
      <3> QED
        BY <1>0, <3>1, KeysApart, InvGives DEF EnterFun, Put
    <2>3. ASSUME NEW s \in Scope, NEW j \in done'[s], Defines(s, j)
          PROVE  LET t == ItemAt(s, j).scope IN
                 t \in prog.outer[current'] \/ Functions(t) \subseteq done'[t]
      <3>1. ItemAt(s, j).scope \in Scope
        BY <1>0, <2>3, Opened DEF Defines, ItemAt
      <3>2. CASE j \in done[s]
        BY <1>0, <1>3, <1>5, <2>3, <3>1, <3>2 DEF ResolutionInv, Order, HeaderOrder
      <3>3. CASE j \notin done[s]
        BY <1>3, <1>5, <2>3, <3>3
      <3> QED
        BY <3>2, <3>3
    <2>4. varName' = <<>> /\ bound' = <<>>
      BY <1>0 DEF ResolutionInv, Order, HeaderOrder
    <2> QED
      BY <1>0, <2>1, <2>2, <2>3, <2>4, Static DEF HeaderOrder
  <1>7. CheckOrder' /\ UsesVisitedOnce' /\ Position'
    BY <1>0, NoneVisited DEF CheckOrder, UsesVisitedOnce, Position
  <1> QED
    BY <1>1, <1>2, <1>6, <1>7 DEF ResolutionInv, Order

LEMMA ResolveFHleave ==
    ASSUME ResolutionInv, TypeInv', FHleave
    PROVE  ResolutionInv'
  <1>0. /\ phase = "FH" /\ current \in Scope \ {Root} /\ current' = prog.parent[current]
        /\ Functions(current) \subseteq done[current]
        /\ UNCHANGED <<prog, phase, done, sub, table, varName, useName, bound, errors>>
    BY InvGives DEF FHleave, FHfinished, IsFun, Functions
  <1>1. prog.outer[current'] = prog.outer[current] \ {current}
    BY <1>0, Around, InvGives
  <1>2. HeaderOrder'
    <2>1. ASSUME NEW s \in Scope, NEW j \in done'[s], Defines(s, j)
          PROVE  LET t == ItemAt(s, j).scope IN
                 t \in prog.outer[current'] \/ Functions(t) \subseteq done'[t]
      BY <1>0, <1>1, <2>1 DEF ResolutionInv, Order, HeaderOrder
    <2>2. /\ \A t \in Scope :
              /\ done'[t] \subseteq Functions(t)
              /\ \A j \in done'[t] : \A i \in Functions(t) : i < j => i \in done'[t]
              /\ \A key \in DOMAIN table'[t] : key.tag = "fun"
          /\ varName' = <<>> /\ bound' = <<>>
      BY <1>0 DEF ResolutionInv, Order, HeaderOrder
    <2>3. /\ prog' = prog
          /\ \A t : Functions(t)' = Functions(t)
          /\ \A t, j : ItemAt(t, j)' = ItemAt(t, j) /\ (Defines(t, j)' <=> Defines(t, j))
      BY <1>0, Static
    <2> QED
      BY <2>1, <2>2, <2>3 DEF HeaderOrder
  <1>3. CheckOrder' /\ UsesVisitedOnce' /\ Position'
    BY <1>0, NoneVisited DEF CheckOrder, UsesVisitedOnce, Position
  <1>4. \A t : Entered(t)' = Entered(t) /\ Declared(t)' = Declared(t)
    BY <1>0, Static DEF Entered, Declared
  <1>5. Entries'
    <2>1. FunEntries'
      BY <1>0, <1>4, Static DEF ResolutionInv, Entries, FunEntries
    <2>2. VarEntries'
      BY <1>0 DEF ResolutionInv, Order, HeaderOrder, VarEntries, Declared
    <2> QED
      BY <2>1, <2>2 DEF Entries
  <1>6. Answers' /\ NewNames'
    BY <1>0, NoUsesYet
  <1>7. errors' = Reported'
    BY <1>0, <1>4, Static DEF ResolutionInv, Reported, DueDefinitions, DueParameters, DueUses,
       Due, Checked
  <1> QED
    BY <1>2, <1>3, <1>5, <1>6, <1>7 DEF ResolutionInv, Order

\* When CA_FH is back at the global scope it has entered all functions.
LEMMA ResolveFHprogram ==
    ASSUME ResolutionInv, TypeInv', FHprogram
    PROVE  ResolutionInv'
  <1>0. /\ phase = "FH" /\ phase' = "DC" /\ current = Root /\ Root \in Scope
        /\ WellFormed(prog) /\ sub = 0
        /\ Functions(Root) \subseteq done[Root]
        /\ done' = [s \in Scope |-> {}]
        /\ UNCHANGED <<prog, current, sub, table, varName, useName, bound, errors>>
    BY InvGives, NoneVisited, ScopeAssumption DEF FHprogram, FHfinished, IsFun, Functions
  <1>1. \A t \in Scope : Functions(t) = done[t]
    <2> DEFINE S == {t \in Scope : Functions(t) \subseteq done[t]}
    <2>1. ASSUME NEW s \in Scope \cap S, NEW j \in Items(prog, s), Is(prog, s, j, "fundef")
          PROVE  prog.items[s][j].scope \in S
      <3> DEFINE t == prog.items[s][j].scope
      <3>1. t \in Scope \ {Root} /\ j \in done[s]
        BY <1>0, <2>1, Opened DEF Functions
      <3>2. t \in prog.outer[Root] \/ Functions(t) \subseteq done[t]
        BY <1>0, <2>1, <3>1 DEF ResolutionInv, Order, HeaderOrder, Defines, ItemAt
      <3> QED
        BY <1>0, <3>1, <3>2, Tree
    <2>2. Root \in S
      BY <1>0
    <2> HIDE DEF S
    <2>3. Scope \subseteq S
      BY <1>0, <2>1, <2>2, ScopesReached
    <2> QED
      BY <1>0, <2>3 DEF S, ResolutionInv, Order, HeaderOrder
  <1>2. \A t \in Scope : Entered(t)' = Entered(t) /\ Declared(t)' = {} /\ Declared(t) = {}
    BY <1>0, <1>1, Static DEF Entered, Declared
  <1>3. Entries'
    <2>1. FunEntries'
      BY <1>0, <1>2, Static DEF ResolutionInv, Entries, FunEntries
    <2>2. VarEntries'
      BY <1>0, <1>2 DEF ResolutionInv, Order, HeaderOrder, VarEntries
    <2> QED
      BY <2>1, <2>2 DEF Entries
  <1>4. CheckOrder'
    <2>1. \A t \in Scope : Open(t)' <=> t = Root
      BY <1>0, Tree DEF Open
    <2>2. ASSUME NEW s \in Scope, NEW j \in Items(prog, s), Defines(s, j)
          PROVE  /\ ItemAt(s, j).scope \in Scope \ {Root}
                 /\ ~Open(ItemAt(s, j).scope)' /\ done'[ItemAt(s, j).scope] = {}
      <3>1. ItemAt(s, j).scope \in Scope \ {Root}
        BY <1>0, <2>2, Opened DEF Defines, ItemAt
      <3>2. ItemAt(s, j)' = ItemAt(s, j)
        BY <1>0, Static
      <3> QED
        BY <1>0, <2>1, <3>1, <3>2
    <2> QED
      BY <1>0, <2>1, <2>2, Static DEF CheckOrder
  <1>5. HeaderOrder' /\ Position'
    BY <1>0 DEF HeaderOrder, Position
  <1>6. UsesVisitedOnce'
    <2>1. DOMAIN bound' = {}
      BY <1>0 DEF ResolutionInv, Order, HeaderOrder
    <2>2. \A u \in UseIds(prog) : u[3] \in Nat \ {0} /\ u[1] \in Scope
      BY <1>0, UseParts
    <2>3. \A u \in UseIds(prog) : ~(u[2] \in done'[u[1]]) /\ ~Visiting(u)'
      BY <1>0, <2>2 DEF Visiting
    <2>4. UseIds(prog)' = UseIds(prog)
      BY <1>0, Static
    <2> QED
      BY <1>0, <2>1, <2>3, <2>4 DEF UsesVisitedOnce
  <1>7. Answers' /\ NewNames'
    BY <1>0, NoUsesYet
  <1>8. errors' = Reported'
    <2>1. \A d \in DeclIds(prog) : (Due(d)' <=> Due(d)) /\ ~Checked(d)' /\ ~Checked(d)
      BY <1>0, <1>2, Declarations DEF Due, Checked
    <2>2. DueDefinitions' = DueDefinitions /\ DueParameters' = DueParameters
      BY <1>0, <2>1, Static DEF DueDefinitions, DueParameters
    <2>3. DueUses' = DueUses
      BY <1>0, Static DEF DueUses
    <2> QED
      BY <1>0, <2>2, <2>3 DEF ResolutionInv, Reported
  <1> QED
    BY <1>3, <1>4, <1>5, <1>6, <1>7, <1>8 DEF ResolutionInv, Order

-----------------------------------------------------------------------------
(* DeclarationCheck: a use                                                 *)

\* An answer other than Nowhere is an entry of a table around the use.
LEMMA LookupFinds ==
    ASSUME WellFormed(prog), NEW s \in Scope, NEW key, DeepLookup(s, key) # Nowhere
    PROVE  \E t \in prog.outer[s] : /\ key \in DOMAIN table[t]
                                    /\ DeepLookup(s, key) = table[t][key]
  <1> DEFINE H == {t \in prog.outer[s] : key \in DOMAIN table[t]}
             T == CHOOSE t \in H : \A r \in H : prog.depth[r] <= prog.depth[t]
  <1>1. DeepLookup(s, key) = IF H = {} THEN Nowhere ELSE table[T][key]
    BY DEF DeepLookup
  <1>2. H # {}
    BY <1>1
  <1>3. H \in SUBSET prog.outer[s]
    OBVIOUS
  <1>4. T \in H
    <2> HIDE DEF H
    <2>1. \E t \in H : \A r \in H : prog.depth[r] <= prog.depth[t]
      BY <1>2, <1>3, Innermost
    <2> QED
      BY <2>1
  <1> QED
    BY <1>1, <1>2, <1>4

\* The declaration found for a name of a variable has the name that belongs
\* to its scope.
LEMMA NameFound ==
    ASSUME ResolutionInv, phase = "DC", NEW n,
           NEW d, d = DeepLookup(current, SrcKey(n)), d # Nowhere
    PROVE  varName[d] = KeyOf(n, prog.depth[d[1]])
  <1>1. PICK t \in prog.outer[current] : SrcKey(n) \in DOMAIN table[t] /\ d = table[t][SrcKey(n)]
    BY LookupFinds, InvGives
  <1>2. t \in Scope /\ Open(t)
    BY <1>1, InvGives DEF Open
  <1>3. PICK m \in Name, j \in Items(prog, t) :
           /\ SrcKey(n) = TableKey(t, m)
           /\ First(Named(t, Declared(t), m), j)
           /\ d = <<t, j>>
    BY <1>1, <1>2, KeysApart DEF ResolutionInv, Entries, VarEntries
  <1>4. m = n /\ ItemAt(t, j).name = n
    BY <1>2, <1>3, KeysApart DEF TableKey, First, Named
  <1>5. d \in DOMAIN varName
    BY <1>1, <1>2, KeysApart DEF ResolutionInv, TypeInv, EntriesNamed
  <1>6. varName[d] = KeyOf(ItemAt(d[1], d[2]).name, prog.depth[d[1]])
    BY <1>5 DEF ResolutionInv, TypeInv, LevelInv, NamesQualified
  <1> QED
    BY <1>3, <1>4, <1>6

\* Steps within CA_DC that leave the traversal and the tables where they are.
LEMMA SameTables ==
    ASSUME ResolutionInv, phase # "FH", UNCHANGED <<prog, phase, current, done, table>>
    PROVE  /\ Entries' /\ HeaderOrder' /\ CheckOrder'
           /\ DueDefinitions' = DueDefinitions /\ DueParameters' = DueParameters
  <1>1. \A t : /\ Entered(t)' = Entered(t) /\ Declared(t)' = Declared(t)
               /\ Open(t)' <=> Open(t)
    BY Static DEF Entered, Declared, Open
  <1>2. \A t, n : TableKey(t, n)' = TableKey(t, n)
    BY <1>1 DEF TableKey
  <1>3. FunEntries'
    BY <1>1, Static DEF ResolutionInv, Entries, FunEntries
  <1>4. VarEntries'
    BY <1>1, <1>2, Static DEF ResolutionInv, Entries, VarEntries
  <1>5. CheckOrder'
    BY <1>1, Static DEF ResolutionInv, Order, CheckOrder
  <1>6. \A d : (Due(d)' <=> Due(d)) /\ (Checked(d)' <=> Checked(d))
    BY <1>1 DEF Due, Checked
  <1>7. DueDefinitions' = DueDefinitions /\ DueParameters' = DueParameters
    BY <1>6, Static DEF DueDefinitions, DueParameters
  <1> QED
    BY <1>3, <1>4, <1>5, <1>7 DEF Entries, HeaderOrder

LEMMA ResolveDCuse ==
    ASSUME ResolutionInv, TypeInv', NEW i \in Items(prog, current), DCuse(i)
    PROVE  ResolutionInv'
  <1> DEFINE u == <<current, i, sub + 1>>
             use == UseOf(prog, u)
             key == IF use.ns = "fun" THEN FunKey(use.name) ELSE SrcKey(use.name)
             entry == DeepLookup(current, key)
             newName == IF use.ns = "fun" THEN FunKey(use.name)
                        ELSE IF entry = Nowhere THEN SrcKey(use.name)
                        ELSE varName[entry]
  <1>0. /\ phase = "DC" /\ DCAt(i) /\ sub < Len(ItemAt(current, i).uses) /\ sub' = sub + 1
        /\ bound' = Put(bound, u, entry) /\ useName' = Put(useName, u, newName)
        /\ UNCHANGED <<prog, phase, current, done, table>>
    BY DEF DCuse, DCAt
  <1>1. /\ sub + 1 \in DOMAIN ItemAt(current, i).uses /\ sub \in Nat
        /\ sub + 1 <= Len(ItemAt(current, i).uses)
        /\ u \in UseIds(prog) /\ use.ns \in {"var", "fun"}
    <2>1. ItemAt(current, i).uses \in Seq(Use) /\ sub \in Nat
      BY Opened, InvGives DEF Item, ItemAt
    <2>2. sub + 1 \in DOMAIN ItemAt(current, i).uses /\ sub + 1 <= Len(ItemAt(current, i).uses)
      BY <1>0, <2>1
    <2>3. u \in UseIds(prog) /\ use \in Use
      BY <2>2, UseAt, InvGives DEF ItemAt
    <2> QED
      BY <2>1, <2>2, <2>3 DEF Use
  <1>2. entry = Meaning(prog, u)
    <2>1. CASE use.ns = "fun"
      BY <1>0, <1>1, <2>1, FunctionFound
    <2>2. CASE use.ns = "var"
      BY <1>0, <1>1, <2>2, VariableFound
    <2> QED
      BY <1>1, <2>1, <2>2
  <1>3. u \notin DOMAIN bound
    <2>1. u[2] \notin done[u[1]] /\ ~(u[3] <= sub)
      BY <1>0, <1>1 DEF DCAt
    <2> QED
      BY <1>0, <2>1 DEF ResolutionInv, Order, UsesVisitedOnce, Visiting
  <1>4. /\ DOMAIN bound' = DOMAIN bound \cup {u} /\ bound'[u] = entry
        /\ DOMAIN useName = DOMAIN bound /\ useName'[u] = newName
        /\ \A v \in DOMAIN bound : bound'[v] = bound[v] /\ useName'[v] = useName[v]
    <2>1. DOMAIN useName = DOMAIN bound
      BY DEF ResolutionInv, TypeInv, Visited
    <2> HIDE DEF u, entry, newName
    <2>2. /\ DOMAIN bound' = DOMAIN bound \cup {u} /\ bound'[u] = entry
          /\ \A v \in DOMAIN bound : bound'[v] = bound[v]
      BY <1>0, <1>3 DEF Put
    <2>3. /\ useName'[u] = newName
          /\ \A v \in DOMAIN bound : useName'[v] = useName[v]
      BY <1>0, <1>3, <2>1 DEF Put
    <2> QED
      BY <2>1, <2>2, <2>3
  <1>5. Entries' /\ HeaderOrder' /\ CheckOrder'
        /\ DueDefinitions' = DueDefinitions /\ DueParameters' = DueParameters
    BY <1>0, SameTables
  <1>6. DCAt(i)' /\ ItemAt(current, i)' = ItemAt(current, i) /\ i \in Items(prog, current)'
    BY <1>0 DEF DCAt, ItemAt, Before
  <1>7. Position'
    BY <1>0, <1>1, <1>6 DEF Position
  <1>8. UsesVisitedOnce'
    <2>1. ASSUME NEW v \in UseIds(prog)
          PROVE  Visiting(v)' <=> Visiting(v) \/ v = u
      <3>1. /\ v = <<v[1], v[2], v[3]>> /\ v[3] \in Nat /\ v[2] \in Items(prog, v[1])
        BY UseParts, InvGives
      <3>2. DCAt(v[2])' <=> DCAt(v[2])
        BY <1>0 DEF DCAt, Before
      <3>3. v[1] = current /\ DCAt(v[2]) => v[2] = i
        BY <1>0, <3>1, OneAtATime
      <3>4. v[3] <= sub + 1 <=> v[3] <= sub \/ v[3] = sub + 1
        BY <1>1, <3>1
      <3> QED
        BY <1>0, <3>1, <3>2, <3>3, <3>4 DEF Visiting
    <2>2. DOMAIN bound = {v \in UseIds(prog) : v[2] \in done[v[1]] \/ Visiting(v)}
      BY <1>0 DEF ResolutionInv, Order, UsesVisitedOnce
    <2>3. UseIds(prog)' = UseIds(prog)
      BY <1>0, Static
    <2> HIDE DEF u
    <2>4. DOMAIN bound' = {v \in UseIds(prog)' : v[2] \in done'[v[1]] \/ Visiting(v)'}
      BY <1>0, <1>1, <1>4, <2>1, <2>2, <2>3
    <2> QED
      BY <2>4 DEF UsesVisitedOnce
  <1>9. Answers'
    BY <1>0, <1>2, <1>4, Static DEF ResolutionInv, Answers
  <1>10. NewNames'
    <2>1. newName = IF use.ns = "fun" THEN FunKey(use.name)
                    ELSE IF entry = Nowhere THEN SrcKey(use.name)
                    ELSE KeyOf(use.name, prog.depth[entry[1]])
      BY <1>0, NameFound
    <2> DEFINE Right(v, name, d) ==
                 name = IF UseOf(prog, v).ns = "fun" THEN FunKey(UseOf(prog, v).name)
                        ELSE IF d = Nowhere THEN SrcKey(UseOf(prog, v).name)
                        ELSE KeyOf(UseOf(prog, v).name, prog.depth[d[1]])
    <2>2. \A v \in DOMAIN bound : Right(v, useName[v], bound[v])
      BY DEF ResolutionInv, NewNames
    <2>3. Right(u, newName, entry)
      BY <2>1
    <2> HIDE DEF Right, newName, entry, u
    <2>4. \A v \in DOMAIN bound' : Right(v, useName'[v], bound'[v])
      BY <1>4, <2>2, <2>3
    <2> QED
      BY <1>0, <2>4, Static DEF NewNames, Right
  <1>11. errors' = Reported'
    <2>1. DueUses' = DueUses \cup (IF entry = Nowhere THEN {u} ELSE {})
      <3> HIDE DEF u, entry
      <3> QED
        BY <1>0, <1>2, <1>4, Static DEF DueUses
    <2>2. errors' = errors \cup
             (IF entry = Nowhere THEN {[kind |-> "undeclared", id |-> u]} ELSE {})
      BY DEF DCuse
    <2>3. errors = Reported
      BY DEF ResolutionInv
    <2> HIDE DEF u, entry
    <2> QED
      BY <1>5, <2>1, <2>2, <2>3 DEF Reported, Messages
  <1> QED
    BY <1>5, <1>7, <1>8, <1>9, <1>10, <1>11 DEF ResolutionInv, Order

-----------------------------------------------------------------------------
(* DeclarationCheck: the end of an item                                    *)

LEMMA DoneWith ==
    ASSUME ResolutionInv, NEW i, Finish(i)
    PROVE  \A t \in Scope : done'[t] = IF t = current THEN done[t] \cup {i} ELSE done[t]
  BY InvGives DEF Finish

\* Only extern functions have parameters here.
LEMMA NoParams ==
    ASSUME ResolutionInv, NEW i \in Items(prog, current), ~Is(prog, current, i, "fundec")
    PROVE  RepeatedParams(prog, <<current, i>>) = {}
  <1>1. prog.items[current][i].params = <<>>
    BY InvGives DEF WellFormed
  <1> QED
    BY <1>1 DEF RepeatedParams

\* What becomes due when CA_DC is done with an item.
LEMMA FinishedMessages ==
    ASSUME ResolutionInv, NEW i \in Items(prog, current), DCAt(i), Finish(i),
           UNCHANGED <<prog, phase, bound>>
    PROVE  /\ DueDefinitions' = DueDefinitions \cup
                 (IF Is(prog, current, i, "var") /\ Again(prog, <<current, i>>)
                  THEN {<<current, i>>} ELSE {})
           /\ DueParameters' = DueParameters \cup RepeatedParams(prog, <<current, i>>)
           /\ DueUses' = DueUses
  <1> DEFINE c == <<current, i>>
  <1>0. phase = "DC" /\ current \in Scope /\ WellFormed(prog)
    BY InvGives DEF DCAt
  <1>1. \A t \in Scope : done'[t] = IF t = current THEN done[t] \cup {i} ELSE done[t]
    BY DoneWith
  <1>2. \A t \in Scope : /\ Entered(t)' = Entered(t) /\ Entered(t) = Functions(t)
                         /\ Declared(t)' = Variables(t) \cap done'[t]
                         /\ Declared(t) = Variables(t) \cap done[t]
    BY <1>0, Static DEF Entered, Declared
  <1>3. ASSUME NEW d \in DeclIds(prog)
        PROVE  /\ Due(d)' <=> Due(d) \/ (d = c /\ Is(prog, current, i, "var"))
               /\ Checked(d)' <=> Checked(d) \/ d = c
    <2>1. d = <<d[1], d[2]>> /\ d[1] \in Scope
      BY Declarations
    <2>2. d = c <=> d[1] = current /\ d[2] = i
      BY <2>1
    <2>3. i \in Variables(current) <=> Is(prog, current, i, "var")
      BY DEF Variables
    <2> HIDE DEF c
    <2>4. d[2] \in done'[d[1]] <=> d[2] \in done[d[1]] \/ d = c
      BY <1>1, <2>1, <2>2
    <2>5. Checked(d)' <=> Checked(d) \/ d = c
      BY <1>0, <2>4 DEF Checked
    <2>6. d[2] \in Declared(d[1])'
             <=> d[2] \in Declared(d[1]) \/ (d = c /\ Is(prog, current, i, "var"))
      BY <1>2, <2>1, <2>2, <2>3, <2>4
    <2>7. Due(d)' <=> Due(d) \/ (d = c /\ Is(prog, current, i, "var"))
      BY <1>2, <2>1, <2>6 DEF Due
    <2> QED
      BY <2>5, <2>7
  <1>4. Is(prog, current, i, "var") => c \in DeclIds(prog)
    BY <1>0, Kinds DEF Is
  <1>5. c \in DeclIds(prog) \/ RepeatedParams(prog, c) = {}
    <2>1. CASE Is(prog, current, i, "fundec")
      BY <1>0, <2>1, Kinds
    <2>2. CASE ~Is(prog, current, i, "fundec")
      BY <2>2, NoParams
    <2> QED
      BY <2>1, <2>2
  <1> HIDE DEF c
  <1>6. \A d : Again(prog, d)' = Again(prog, d) /\ RepeatedParams(prog, d)' = RepeatedParams(prog, d)
    OBVIOUS
  <1>7. DueDefinitions' = DueDefinitions \cup
           (IF Is(prog, current, i, "var") /\ Again(prog, c) THEN {c} ELSE {})
    BY <1>3, <1>4, <1>6, Static DEF DueDefinitions
  <1>8. DueParameters' = DueParameters \cup RepeatedParams(prog, c)
    BY <1>3, <1>5, <1>6, Static DEF DueParameters
  <1>9. DueUses' = DueUses
    BY Static DEF DueUses
  <1> QED
    BY <1>7, <1>8, <1>9 DEF c

\* The end of an item that is not a function definition.
LEMMA FinishedOrder ==
    ASSUME ResolutionInv, NEW i \in Items(prog, current), DCAt(i), ~Defines(current, i),
           Finish(i), sub = Len(ItemAt(current, i).uses), sub' = 0,
           UNCHANGED <<prog, phase, current, bound>>
    PROVE  Order'
  <1>0. phase = "DC" /\ current \in Scope /\ WellFormed(prog) /\ i \notin done[current]
    BY InvGives DEF DCAt
  <1>1. \A t \in Scope : done'[t] = IF t = current THEN done[t] \cup {i} ELSE done[t]
    BY DoneWith
  <1>2. \A t : Open(t)' <=> Open(t)
    BY DEF Open
  <1>3. CheckOrder'
    <2>1. ASSUME NEW t \in Scope
          PROVE  /\ done'[t] \subseteq Items(prog, t)
                 /\ \A j \in done'[t] : \A k \in Items(prog, t) :
                       Before(t, k, j) => k \in done'[t]
      <3>1. /\ done[t] \subseteq Items(prog, t)
            /\ \A j \in done[t] : \A k \in Items(prog, t) : Before(t, k, j) => k \in done[t]
        BY <1>0 DEF ResolutionInv, Order, CheckOrder
      <3>2. CASE t = current
        <4>1. \A k \in Items(prog, t) : Before(t, k, i) => k \in done[t]
          BY <3>2 DEF DCAt
        <4> QED
          BY <1>1, <3>1, <3>2, <4>1
      <3>3. CASE t # current
        BY <1>1, <3>1, <3>3
      <3> QED
        BY <3>2, <3>3
    <2>2. ASSUME NEW s \in Scope, NEW j \in Items(prog, s), Defines(s, j)
          PROVE  LET t == ItemAt(s, j).scope IN
                 IF j \in done'[s] THEN Open(t) \/ Items(prog, t) \subseteq done'[t]
                                   ELSE ~Open(t) /\ done'[t] = {}
      <3> DEFINE t == ItemAt(s, j).scope
      <3>1. t \in Scope
        BY <1>0, Opened, <2>2 DEF Defines, ItemAt
      <3>2. j \in done'[s] <=> j \in done[s]
        BY <1>1, <2>2
      <3>3. IF j \in done[s] THEN Open(t) \/ Items(prog, t) \subseteq done[t]
                             ELSE ~Open(t) /\ done[t] = {}
        BY <1>0, <2>2 DEF ResolutionInv, Order, CheckOrder
      <3>4. Open(current)
        BY <1>0, InvGives DEF Open
      <3> HIDE DEF t
      <3>5. IF j \in done'[s] THEN Open(t) \/ Items(prog, t) \subseteq done'[t]
                              ELSE ~Open(t) /\ done'[t] = {}
        BY <1>1, <3>1, <3>2, <3>3, <3>4
      <3> QED
        BY <3>5 DEF t
    <2>3. \A t \in Scope \ {current} : Open(t) => Variables(t) \subseteq done'[t]
      BY <1>0, <1>1 DEF ResolutionInv, Order, CheckOrder
    <2> QED
      BY <1>0, <1>2, <2>1, <2>2, <2>3, Static DEF CheckOrder
  <1>4. HeaderOrder' /\ Position'
    BY <1>0 DEF HeaderOrder, Position
  <1>5. UsesVisitedOnce'
    <2>1. ASSUME NEW v \in UseIds(prog)
          PROVE  v[2] \in done'[v[1]] \/ Visiting(v)' <=> v[2] \in done[v[1]] \/ Visiting(v)
      <3>1. /\ v = <<v[1], v[2], v[3]>> /\ v[1] \in Scope /\ v[2] \in Items(prog, v[1])
            /\ v[3] \in Nat \ {0} /\ v[3] <= Len(ItemAt(v[1], v[2]).uses)
        BY <1>0, UseParts DEF ItemAt
      <3>2. ~Visiting(v)'
        BY <3>1 DEF Visiting
      <3>3. Visiting(v) => v[1] = current /\ v[2] = i
        BY <3>1, OneAtATime DEF Visiting
      <3>4. v[1] = current /\ v[2] = i => Visiting(v)
        BY <3>1 DEF Visiting
      <3> QED
        BY <1>1, <3>1, <3>2, <3>3, <3>4
    <2>2. DOMAIN bound = {v \in UseIds(prog) : v[2] \in done[v[1]] \/ Visiting(v)}
      BY <1>0 DEF ResolutionInv, Order, UsesVisitedOnce
    <2>3. UseIds(prog)' = UseIds(prog)
      BY Static
    <2>4. DOMAIN bound' = {v \in UseIds(prog)' : v[2] \in done'[v[1]] \/ Visiting(v)'}
      BY <2>1, <2>2, <2>3
    <2> QED
      BY <2>4 DEF UsesVisitedOnce
  <1> QED
    BY <1>3, <1>4, <1>5 DEF Order

LEMMA SameUses ==
    ASSUME ResolutionInv, UNCHANGED <<prog, bound, useName>>
    PROVE  Answers' /\ NewNames'
  <1>1. Answers'
    BY Static DEF ResolutionInv, Answers
  <1>2. NewNames'
    BY Static DEF ResolutionInv, NewNames
  <1> QED
    BY <1>1, <1>2

-----------------------------------------------------------------------------
(* DeclarationCheck: the items that open no scope                          *)

\* A variable whose name is in the table already is one that must be reported.
LEMMA VariableAgain ==
    ASSUME ResolutionInv, NEW i \in Items(prog, current), DCAt(i), Is(prog, current, i, "var")
    PROVE  /\ i \in Variables(current) /\ i \notin Declared(current)
           /\ \A j \in Declared(current) : j < i
           /\ SrcKey(ItemAt(current, i).name) \in DOMAIN table[current]
                 <=> Again(prog, <<current, i>>)
  <1> DEFINE n == ItemAt(current, i).name
  <1>1. /\ phase = "DC" /\ i \in Variables(current) /\ ~Defines(current, i) /\ Open(current)
        /\ current \in Scope
    BY InvGives DEF DCAt, Variables, Defines, Is, Open
  <1>2. Declared(current) = {j \in Variables(current) : j < i} /\ i \in Nat
    BY <1>1, DeclaredBefore, ItemNumbers, InvGives
  <1>3. ASSUME SrcKey(n) \in DOMAIN table[current]
        PROVE  Again(prog, <<current, i>>)
    <2>1. PICK m \in Name, j \in Items(prog, current) :
             /\ SrcKey(n) = TableKey(current, m)
             /\ First(Named(current, Declared(current), m), j)
      BY <1>1, <1>3, KeysApart DEF ResolutionInv, Entries, VarEntries
    <2>2. m = n
      BY <1>1, <2>1, KeysApart DEF TableKey
    <2>3. j \in Variables(current) /\ j < i /\ ItemAt(current, j).name = n
      BY <1>2, <2>1, <2>2 DEF First, Named
    <2>4. <<current, j>> \in DeclIds(prog) /\ Is(prog, current, j, "var")
      BY <2>3, Kinds, InvGives DEF Variables, Is
    <2> QED
      BY <2>3, <2>4 DEF Again, SameSpace, ItemAt
  <1>4. ASSUME Again(prog, <<current, i>>)
        PROVE  SrcKey(n) \in DOMAIN table[current]
    <2>1. PICK j \in Items(prog, current) : j < i /\ SameSpace(prog, current, j, i)
      BY <1>4 DEF Again
    <2>2. j \in Declared(current) /\ ItemAt(current, j).name = n
      BY <1>2, <2>1 DEF SameSpace, Variables, ItemAt
    <2>3. TableKey(current, n) \in DOMAIN table[current]
      BY <1>1, <2>2 DEF ResolutionInv, Entries, VarEntries
    <2> QED
      BY <1>1, <2>3 DEF TableKey
  <1> QED
    BY <1>1, <1>2, <1>3, <1>4

\* The table after AddVarSymbol
LEMMA VariableEntries ==
    ASSUME ResolutionInv, NEW i \in Items(prog, current), DCAt(i), Is(prog, current, i, "var"),
           AddVarSymbol(i), Finish(i), UNCHANGED <<prog, phase, current>>
    PROVE  Entries'
  <1> DEFINE n == ItemAt(current, i).name
             key == SrcKey(n)
             c == <<current, i>>
  <1>0. phase = "DC" /\ current \in Scope /\ WellFormed(prog) /\ Open(current) /\ n \in Name
    BY InvGives, Opened DEF DCAt, Open, ItemAt, Item
  <1>1. \A t \in Scope : done'[t] = IF t = current THEN done[t] \cup {i} ELSE done[t]
    BY DoneWith
  <1>2. /\ i \in Variables(current) /\ i \in Nat
        /\ \A j \in Declared(current) : j < i
    BY VariableAgain, ItemNumbers, InvGives
  <1>3. \A t \in Scope : /\ t # current => Declared(t)' = Declared(t)
                         /\ t = current => Declared(t)' = Declared(t) \cup {i}
                         /\ Entered(t)' = Entered(t)
                         /\ \A m : TableKey(t, m)' = TableKey(t, m)
    BY <1>0, <1>1, <1>2, Static DEF Declared, Entered, TableKey, Open
  <1>4. \A t \in Scope : Declared(t) \subseteq Nat /\ Declared(t) \subseteq Items(prog, t)
    BY <1>0, ItemNumbers DEF Declared, Variables
  <1>5. \A t \in Scope : \A j \in Items(prog, t) : \A m :
           First(Named(t, Declared(t), m), j) => First(Named(t, Declared(t)', m), j)
    BY <1>2, <1>3, <1>4 DEF First, Named
  <1>6. CASE key \in DOMAIN table[current]
    <2>1. table' = table
      BY <1>6 DEF AddVarSymbol
    <2>2. FunEntries'
      BY <1>3, <2>1, Static DEF ResolutionInv, Entries, FunEntries
    <2>3. ASSUME NEW t \in Scope, NEW k \in DOMAIN table[t], k.tag # "fun"
          PROVE  \E m \in Name : \E j \in Items(prog, t) :
                    /\ k = TableKey(t, m)
                    /\ First(Named(t, Declared(t)', m), j)
                    /\ table[t][k] = <<t, j>>
      BY <1>5, <2>3 DEF ResolutionInv, Entries, VarEntries
    <2>4. TableKey(current, n) = key
      BY <1>0 DEF TableKey
    <2> HIDE DEF key
    <2>5. \A t \in Scope : \A j \in Declared(t)' : TableKey(t, ItemAt(t, j).name) \in DOMAIN table[t]
      BY <1>3, <1>6, <2>4 DEF ResolutionInv, Entries, VarEntries
    <2>6. VarEntries'
      BY <1>3, <2>1, <2>3, <2>5, Static DEF VarEntries
    <2> QED
      BY <2>2, <2>6 DEF Entries
  <1>7. CASE key \notin DOMAIN table[current]
    <2>1. table' = [table EXCEPT ![current] = Put(@, key, c)]
      BY <1>7 DEF AddVarSymbol
    <2>2. key = TableKey(current, n) /\ key.tag # "fun"
      BY <1>0, KeysApart DEF TableKey
    <2> HIDE DEF key
    <2>3. \A t \in Scope : /\ t # current => table'[t] = table[t]
                           /\ t = current => table'[t] = Put(table[t], key, c)
      BY <2>1, InvGives
    <2>4. ASSUME NEW t \in Scope
          PROVE  /\ DOMAIN table[t] \subseteq DOMAIN table'[t]
                 /\ \A k \in DOMAIN table[t] : table'[t][k] = table[t][k]
                 /\ \A k \in DOMAIN table'[t] \ DOMAIN table[t] :
                       t = current /\ k = key /\ table'[t][k] = c
                 /\ t = current => key \in DOMAIN table'[t]
      <3>1. CASE t # current
        BY <2>3, <3>1
      <3>2. CASE t = current
        <4>1. table'[t] = Put(table[t], key, c) /\ key \notin DOMAIN table[t]
          BY <1>7, <2>3, <3>2
        <4>2. DOMAIN table'[t] = DOMAIN table[t] \cup {key}
          BY <4>1 DEF Put
        <4>3. table'[t][key] = c
          BY <4>1 DEF Put
        <4>4. \A k \in DOMAIN table[t] : table'[t][k] = table[t][k]
          BY <4>1 DEF Put
        <4> QED
          BY <3>2, <4>2, <4>3, <4>4
      <3> QED
        BY <3>1, <3>2
    <2>5. FunEntries'
      <3>1. ASSUME NEW t \in Scope, NEW k \in DOMAIN table'[t], k.tag = "fun"
            PROVE  k \in DOMAIN table[t] /\ table'[t][k] = table[t][k]
        BY <2>2, <2>4, <3>1
      <3>2. \A t \in Scope : \A k \in DOMAIN table'[t] : k.tag = "fun" =>
               /\ k = FunKey(k.name)
               /\ \E j \in Items(prog, t) : /\ First(Named(t, Entered(t), k.name), j)
                                            /\ table'[t][k] = <<t, j>>
        BY <3>1 DEF ResolutionInv, Entries, FunEntries
      <3>3. \A t \in Scope : \A j \in Entered(t) : FunKey(ItemAt(t, j).name) \in DOMAIN table'[t]
        BY <2>4 DEF ResolutionInv, Entries, FunEntries
      <3> QED
        BY <1>3, <3>2, <3>3, Static DEF FunEntries
    <2>6. Named(current, Declared(current), n) = {}
      BY <1>0, <1>7, <2>2 DEF ResolutionInv, Entries, VarEntries, Named
    <2>7. \A t \in Scope : t = current => First(Named(t, Declared(t)', n), i)
      BY <1>0, <1>2, <1>3, <2>6 DEF First, Named
    <2>8. ASSUME NEW t \in Scope, NEW k \in DOMAIN table'[t], k.tag # "fun"
          PROVE  \E m \in Name : \E j \in Items(prog, t) :
                    /\ k = TableKey(t, m)
                    /\ First(Named(t, Declared(t)', m), j)
                    /\ table'[t][k] = <<t, j>>
      <3>1. CASE k \in DOMAIN table[t]
        <4>1. table'[t][k] = table[t][k]
          BY <2>4, <3>1
        <4> QED
          BY <1>5, <2>8, <3>1, <4>1 DEF ResolutionInv, Entries, VarEntries
      <3>2. CASE k \notin DOMAIN table[t]
        <4>1. t = current /\ k = key /\ table'[t][k] = <<t, i>>
          BY <2>4, <3>2
        <4>2. First(Named(t, Declared(t)', n), i) /\ i \in Items(prog, t) /\ k = TableKey(t, n)
          BY <2>2, <2>7, <4>1
        <4> QED
          BY <1>0, <4>1, <4>2
      <3> QED
        BY <3>1, <3>2
    <2>9. \A t \in Scope : \A j \in Declared(t)' : TableKey(t, ItemAt(t, j).name) \in DOMAIN table'[t]
      BY <1>3, <2>2, <2>4 DEF ResolutionInv, Entries, VarEntries
    <2>10. VarEntries'
      BY <1>3, <2>8, <2>9, Static DEF VarEntries
    <2> QED
      BY <2>5, <2>10 DEF Entries
  <1> QED
    BY <1>6, <1>7

LEMMA ResolveDCvar ==
    ASSUME ResolutionInv, TypeInv', NEW i \in Items(prog, current), DCvar(i)
    PROVE  ResolutionInv'
  <1> DEFINE c == <<current, i>>
  <1>1. /\ DCAt(i) /\ Is(prog, current, i, "var") /\ UsesVisited(i) /\ AddVarSymbol(i)
        /\ Finish(i) /\ sub' = 0
        /\ UNCHANGED <<prog, phase, current, level, saved, useName, bound>>
    BY DEF DCvar
  <1>2. Order'
    BY <1>1, FinishedOrder DEF Defines, Is, UsesVisited
  <1>3. Entries'
    BY <1>1, VariableEntries
  <1>4. Answers' /\ NewNames'
    BY <1>1, SameUses
  <1>5. errors' = Reported'
    <2>1. /\ DueDefinitions' = DueDefinitions \cup (IF Again(prog, c) THEN {c} ELSE {})
          /\ DueParameters' = DueParameters /\ DueUses' = DueUses
      BY <1>1, FinishedMessages, NoParams DEF Is
    <2>2. errors' = errors \cup (IF Again(prog, c) THEN {[kind |-> "defined", id |-> c]} ELSE {})
      BY <1>1, VariableAgain DEF AddVarSymbol
    <2>3. errors = Reported
      BY DEF ResolutionInv
    <2> HIDE DEF c
    <2> QED
      BY <2>1, <2>2, <2>3 DEF Reported, Messages
  <1> QED
    BY <1>2, <1>3, <1>4, <1>5 DEF ResolutionInv

\* An item that declares no variable leaves the tables as they are.
LEMMA OtherEntries ==
    ASSUME ResolutionInv, NEW i \in Items(prog, current), DCAt(i), ~Is(prog, current, i, "var"),
           Finish(i), UNCHANGED <<prog, phase, table>>,
           \A t \in Scope : Open(t) <=> Open(t)'
    PROVE  Entries'
  <1>1. \A t \in Scope : done'[t] = IF t = current THEN done[t] \cup {i} ELSE done[t]
    BY DoneWith
  <1>2. phase = "DC" /\ i \notin Variables(current)
    BY DEF DCAt, Variables
  <1>3. \A t \in Scope : /\ Declared(t)' = Declared(t) /\ Entered(t)' = Entered(t)
                         /\ \A m : TableKey(t, m)' = TableKey(t, m)
    BY <1>1, <1>2, Static DEF Declared, Entered, TableKey
  <1>4. FunEntries'
    BY <1>3, Static DEF ResolutionInv, Entries, FunEntries
  <1>5. VarEntries'
    BY <1>3, Static DEF ResolutionInv, Entries, VarEntries
  <1> QED
    BY <1>4, <1>5 DEF Entries

LEMMA ResolveDCstmt ==
    ASSUME ResolutionInv, TypeInv', NEW i \in Items(prog, current), DCstmt(i)
    PROVE  ResolutionInv'
  <1>1. /\ DCAt(i) /\ Is(prog, current, i, "stmt") /\ UsesVisited(i)
        /\ Finish(i) /\ sub' = 0
        /\ UNCHANGED <<prog, phase, current, table, useName, bound, errors>>
    BY DEF DCstmt
  <1>2. Order'
    BY <1>1, FinishedOrder DEF Defines, Is, UsesVisited
  <1>3. Entries'
    BY <1>1, OtherEntries DEF Is, Open
  <1>4. Answers' /\ NewNames'
    BY <1>1, SameUses
  <1>5. DueDefinitions' = DueDefinitions /\ DueParameters' = DueParameters /\ DueUses' = DueUses
    BY <1>1, FinishedMessages, NoParams DEF Is
  <1>6. errors' = Reported'
    BY <1>1, <1>5 DEF ResolutionInv, Reported
  <1> QED
    BY <1>2, <1>3, <1>4, <1>6 DEF ResolutionInv

LEMMA ResolveDCfundec ==
    ASSUME ResolutionInv, TypeInv', NEW i \in Items(prog, current), DCfundec(i)
    PROVE  ResolutionInv'
  <1> DEFINE c == <<current, i>>
  <1>1. /\ DCAt(i) /\ Is(prog, current, i, "fundec") /\ Finish(i)
        /\ UNCHANGED <<prog, phase, current, sub, table, useName, bound>>
    BY DEF DCfundec
  <1>2. Len(ItemAt(current, i).uses) = 0
    BY <1>1, InvGives, SMTT(30) DEF WellFormed, Is, ItemAt
  <1>3. sub = 0
    BY <1>1, <1>2, OneAtATime, InvGives DEF ResolutionInv, Order, Position
  <1>4. Order'
    BY <1>1, <1>2, <1>3, FinishedOrder DEF Defines, Is
  <1>5. Entries'
    BY <1>1, OtherEntries DEF Is, Open
  <1>6. Answers' /\ NewNames'
    BY <1>1, SameUses
  <1>7. /\ DueDefinitions' = DueDefinitions /\ DueUses' = DueUses
        /\ DueParameters' = DueParameters \cup RepeatedParams(prog, c)
    BY <1>1, FinishedMessages DEF Is
  <1>8. errors' = errors \cup Messages("defined", RepeatedParams(prog, c))
    BY DEF DCfundec, Messages, RepeatedParams, ItemAt
  <1>9. errors' = Reported'
    <2> HIDE DEF c
    <2> QED
      BY <1>7, <1>8 DEF ResolutionInv, Reported, Messages
  <1> QED
    BY <1>4, <1>5, <1>6, <1>9 DEF ResolutionInv

-----------------------------------------------------------------------------
(* DeclarationCheck: into a function and out of it                         *)

\* CA_DC comes to a function definition when the variables of the scope are
\* declared and enters a scope it has not been in.
LEMMA FreshScope ==
    ASSUME ResolutionInv, NEW i \in Items(prog, current), DCAt(i), Defines(current, i),
           NEW c, c = ItemAt(current, i).scope
    PROVE  /\ c \in Scope \ {Root} /\ c # current /\ prog.outer[c] = prog.outer[current] \cup {c}
           /\ ~Open(c) /\ done[c] = {}
           /\ Variables(current) \subseteq done[current]
           /\ sub = 0
  <1>0. phase = "DC" /\ current \in Scope /\ WellFormed(prog) /\ Is(prog, current, i, "fundef")
        /\ i \notin done[current]
    BY InvGives DEF DCAt, Defines
  <1>1. c \in Scope \ {Root} /\ prog.parent[c] = current
    BY <1>0, Opened DEF ItemAt
  <1>2. c # current /\ prog.outer[c] = prog.outer[current] \cup {c}
    BY <1>0, <1>1 DEF WellFormed
  <1>3. ~Open(c) /\ done[c] = {}
    BY <1>0 DEF ResolutionInv, Order, CheckOrder, Defines
  <1>4. ASSUME NEW j \in Variables(current)
        PROVE  j \in done[current]
    <2>1. j \in Items(prog, current) /\ Is(prog, current, j, "var") /\ j \in Nat /\ i \in Nat
      BY <1>0, ItemNumbers DEF Variables
    <2>2. ~Is(prog, current, j, "fundef") /\ ~Is(prog, current, i, "var")
      BY <1>0, <2>1 DEF Is
    <2>3. current # Root => j < i
      BY <1>0, <2>1, <2>2 DEF WellFormed
    <2>4. Before(current, j, i)
      BY <1>0, <2>2, <2>3 DEF Before
    <2> QED
      BY <2>1, <2>4 DEF DCAt
  <1>5. Len(ItemAt(current, i).uses) = 0
    BY <1>0 DEF WellFormed, Is, ItemAt
  <1>6. sub = 0
    BY <1>5, OneAtATime, InvGives DEF ResolutionInv, Order, Position
  <1> QED
    BY <1>1, <1>2, <1>3, <1>4, <1>6

LEMMA DoneOrder ==
    ASSUME ResolutionInv, NEW i \in Items(prog, current), DCAt(i), Finish(i), NEW t \in Scope
    PROVE  /\ done'[t] \subseteq Items(prog, t)
           /\ \A j \in done'[t] : \A k \in Items(prog, t) : Before(t, k, j) => k \in done'[t]
  <1>0. done'[t] = IF t = current THEN done[t] \cup {i} ELSE done[t]
    BY DoneWith
  <1>1. /\ done[t] \subseteq Items(prog, t)
        /\ \A j \in done[t] : \A k \in Items(prog, t) : Before(t, k, j) => k \in done[t]
    BY DEF DCAt, ResolutionInv, Order, CheckOrder
  <1>2. CASE t = current
    <2>1. \A k \in Items(prog, t) : Before(t, k, i) => k \in done[t]
      BY <1>2 DEF DCAt
    <2> QED
      BY <1>0, <1>1, <1>2, <2>1
  <1>3. CASE t # current
    BY <1>0, <1>1, <1>3
  <1> QED
    BY <1>2, <1>3

LEMMA ResolveDCfundef ==
    ASSUME ResolutionInv, TypeInv', NEW i \in Items(prog, current), DCfundef(i)
    PROVE  ResolutionInv'
  <1> DEFINE c == ItemAt(current, i).scope
  <1>0. /\ phase = "DC" /\ DCAt(i) /\ Defines(current, i) /\ Finish(i) /\ current' = c
        /\ UNCHANGED <<prog, phase, sub, table, useName, bound, errors>>
        /\ current \in Scope /\ WellFormed(prog) /\ i \notin done[current]
    BY InvGives DEF DCfundef, DCAt, Defines
  <1>1. /\ c \in Scope \ {Root} /\ c # current /\ prog.outer[c] = prog.outer[current] \cup {c}
        /\ ~Open(c) /\ done[c] = {} /\ Variables(current) \subseteq done[current] /\ sub = 0
    BY <1>0, FreshScope
  <1> HIDE DEF c
  <1>2. \A t : Open(t)' <=> Open(t) \/ t = c
    BY <1>0, <1>1 DEF Open
  <1>3. \A t \in Scope : done'[t] = IF t = current THEN done[t] \cup {i} ELSE done[t]
    BY <1>0, DoneWith
  <1>4. i \notin Variables(current) /\ ~Is(prog, current, i, "var") /\ ~Is(prog, current, i, "fundec")
    BY <1>0, Kinds DEF Variables, Defines, Is
  <1>5. Entries'
    <2>1. \A t \in Scope : /\ Declared(t)' = Declared(t) /\ Entered(t)' = Entered(t)
                           /\ \A m : t # c => TableKey(t, m)' = TableKey(t, m)
      BY <1>0, <1>2, <1>3, <1>4, Static DEF Declared, Entered, TableKey
    <2>2. Declared(c) = {}
      BY <1>0, <1>1 DEF Declared
    <2>3. \A k \in DOMAIN table[c] : k.tag = "fun"
      BY <1>1, <2>2 DEF ResolutionInv, Entries, VarEntries, First, Named
    <2>4. FunEntries'
      BY <1>0, <2>1, Static DEF ResolutionInv, Entries, FunEntries
    <2>5. ASSUME NEW t \in Scope
          PROVE  /\ \A key \in DOMAIN table[t] : key.tag # "fun" =>
                      \E n \in Name : \E j \in Items(prog, t) :
                         /\ key = TableKey(t, n)'
                         /\ First(Named(t, Declared(t), n), j)
                         /\ table[t][key] = <<t, j>>
                 /\ \A j \in Declared(t) : \A n :
                      n = ItemAt(t, j).name => TableKey(t, n)' \in DOMAIN table[t]
      <3>1. CASE t = c
        BY <2>2, <2>3, <3>1
      <3>2. CASE t # c
        <4>1. /\ \A key \in DOMAIN table[t] : key.tag # "fun" =>
                   \E n \in Name : \E j \in Items(prog, t) :
                      /\ key = TableKey(t, n)
                      /\ First(Named(t, Declared(t), n), j)
                      /\ table[t][key] = <<t, j>>
              /\ \A j \in Declared(t) : TableKey(t, ItemAt(t, j).name) \in DOMAIN table[t]
          BY DEF ResolutionInv, Entries, VarEntries
        <4>2. \A n : TableKey(t, n)' = TableKey(t, n)
          BY <2>1, <3>2
        <4> QED
          BY <4>1, <4>2
      <3> QED
        BY <3>1, <3>2
    <2>6. VarEntries'
      BY <1>0, <2>1, <2>5, Static DEF VarEntries
    <2> QED
      BY <2>4, <2>6 DEF Entries
  <1>6. CheckOrder'
    <2>1. \A t \in Scope :
             /\ done'[t] \subseteq Items(prog, t)
             /\ \A j \in done'[t] : \A k \in Items(prog, t) : Before(t, k, j) => k \in done'[t]
      BY <1>0, DoneOrder
    <2>2. ASSUME NEW s \in Scope, NEW j \in Items(prog, s), Defines(s, j),
                 NEW t, t = ItemAt(s, j).scope
          PROVE  IF j \in done'[s] THEN Open(t)' \/ Items(prog, t) \subseteq done'[t]
                                   ELSE ~Open(t)' /\ done'[t] = {}
      <3>1. t \in Scope /\ prog.parent[t] = s
        BY <1>0, Opened, <2>2 DEF Defines, ItemAt
      <3>2. IF j \in done[s] THEN Open(t) \/ Items(prog, t) \subseteq done[t]
                             ELSE ~Open(t) /\ done[t] = {}
        BY <1>0, <2>2 DEF ResolutionInv, Order, CheckOrder
      <3>3. t = c => s = current /\ j = i
        <4>1. c \in Scope /\ prog.parent[c] = current
          BY <1>0, Opened DEF Defines, ItemAt, c
        <4>2. s = current /\ j # i => t # c
          BY <1>0, <2>2 DEF WellFormed, Defines, ItemAt, c
        <4> QED
          BY <3>1, <4>1, <4>2
      <3>4. Open(current)
        BY <1>0, InvGives DEF Open
      <3>5. s = current /\ j = i => t = c
        BY <2>2 DEF c
      <3>6. CASE t = c
        BY <1>0, <1>2, <1>3, <3>3, <3>6
      <3>7. CASE t # c
        <4>1. j \in done'[s] <=> j \in done[s]
          BY <1>3, <3>5, <3>7
        <4>2. Open(t)' <=> Open(t)
          BY <1>2, <3>7
        <4>3. done'[t] = IF t = current THEN done[t] \cup {i} ELSE done[t]
          BY <1>3, <3>1
        <4> QED
          BY <3>2, <3>4, <4>1, <4>2, <4>3
      <3> QED
        BY <3>6, <3>7
    <2>3. \A t \in Scope \ {current'} : Open(t)' => Variables(t) \subseteq done'[t]
      <3>1. \A t \in Scope \ {current} : Open(t) => Variables(t) \subseteq done[t]
        BY <1>0 DEF ResolutionInv, Order, CheckOrder
      <3> QED
        BY <1>0, <1>1, <1>2, <1>3, <3>1
    <2> QED
      BY <1>0, <2>1, <2>2, <2>3, Static DEF CheckOrder
  <1>7. HeaderOrder' /\ Position'
    BY <1>0, <1>1 DEF HeaderOrder, Position
  <1>8. UsesVisitedOnce'
    <2>1. ASSUME NEW v \in UseIds(prog)
          PROVE  v[2] \in done'[v[1]] \/ Visiting(v)' <=> v[2] \in done[v[1]] \/ Visiting(v)
      <3>1. /\ v[1] \in Scope /\ v[2] \in Items(prog, v[1]) /\ v[3] \in Nat \ {0}
            /\ v[3] \in DOMAIN prog.items[v[1]][v[2]].uses
        BY <1>0, UseParts
      <3>2. ~Visiting(v)' /\ ~Visiting(v)
        BY <1>0, <1>1, <3>1 DEF Visiting
      <3>3. ~(v[1] = current /\ v[2] = i)
        <4>1. Is(prog, v[1], v[2], "var") \/ Is(prog, v[1], v[2], "stmt")
          BY <1>0, <3>1, UseAt
        <4> QED
          BY <1>0, <4>1 DEF Defines, Is
      <3> QED
        BY <1>3, <3>1, <3>2, <3>3
    <2>2. DOMAIN bound = {v \in UseIds(prog) : v[2] \in done[v[1]] \/ Visiting(v)}
      BY <1>0 DEF ResolutionInv, Order, UsesVisitedOnce
    <2>3. UseIds(prog)' = UseIds(prog)
      BY <1>0, Static
    <2>4. DOMAIN bound' = {v \in UseIds(prog)' : v[2] \in done'[v[1]] \/ Visiting(v)'}
      BY <1>0, <2>1, <2>2, <2>3
    <2> QED
      BY <2>4 DEF UsesVisitedOnce
  <1>9. Answers' /\ NewNames'
    BY <1>0, SameUses
  <1>10. errors' = Reported'
    <2>1. DueDefinitions' = DueDefinitions /\ DueParameters' = DueParameters /\ DueUses' = DueUses
      BY <1>0, <1>4, FinishedMessages, NoParams
    <2> QED
      BY <1>0, <2>1 DEF ResolutionInv, Reported
  <1> QED
    BY <1>5, <1>6, <1>7, <1>8, <1>9, <1>10 DEF ResolutionInv, Order

\* The entries of a table that CA_DC leaves keep their declarations under
\* their new keys, which no two of them share.
LEMMA SyncedEntries ==
    ASSUME ResolutionInv, phase = "DC", NEW s, s = current
    PROVE  /\ \A old \in DOMAIN table[s] :
                 /\ NewKey(s, old) \in DOMAIN Synced(s)
                 /\ Synced(s)[NewKey(s, old)] = table[s][old]
                 /\ NewKey(s, old).tag = "fun" <=> old.tag = "fun"
                 /\ old.tag = "fun" => NewKey(s, old) = old
           /\ \A key \in DOMAIN Synced(s) : \E old \in DOMAIN table[s] : key = NewKey(s, old)
           /\ \A n : SrcKey(n) \in DOMAIN table[s] =>
                        NewKey(s, SrcKey(n)) = KeyOf(n, prog.depth[s])
  <1>0. s \in Scope /\ Open(s)
    BY InvGives DEF Open
  <1>1. ASSUME NEW old \in DOMAIN table[s], old.tag # "fun"
        PROVE  \E n \in Name : old = SrcKey(n) /\ NewKey(s, old) = KeyOf(n, prog.depth[s])
    <2>1. PICK n \in Name, j \in Items(prog, s) :
             /\ old = TableKey(s, n)
             /\ First(Named(s, Declared(s), n), j)
             /\ table[s][old] = <<s, j>>
      BY <1>0, <1>1 DEF ResolutionInv, Entries, VarEntries
    <2>2. old = SrcKey(n) /\ ItemAt(s, j).name = n
      BY <1>0, <2>1 DEF TableKey, First, Named
    <2>3. table[s][old] \in DOMAIN varName
      BY <1>0, <1>1 DEF ResolutionInv, TypeInv, EntriesNamed
    <2>4. varName[<<s, j>>] = KeyOf(n, prog.depth[s])
      BY <2>1, <2>2, <2>3 DEF ResolutionInv, TypeInv, LevelInv, NamesQualified
    <2> QED
      BY <1>1, <2>1, <2>2, <2>4 DEF NewKey
  <1>2. \A old : old.tag = "fun" => NewKey(s, old) = old
    BY DEF NewKey
  <1>3. \A old \in DOMAIN table[s] : NewKey(s, old).tag = "fun" <=> old.tag = "fun"
    BY <1>1, <1>2, KeysApart
  <1>4. ASSUME NEW k \in DOMAIN table[s], NEW m \in DOMAIN table[s], NewKey(s, k) = NewKey(s, m)
        PROVE  k = m
    <2>1. CASE k.tag = "fun"
      BY <1>2, <1>3, <1>4, <2>1
    <2>2. CASE k.tag # "fun"
      BY <1>1, <1>3, <1>4, <2>2, KeysApart
    <2> QED
      BY <2>1, <2>2
  <1>5. DOMAIN Synced(s) = {NewKey(s, old) : old \in DOMAIN table[s]}
    BY DEF Synced
  <1>6. ASSUME NEW old \in DOMAIN table[s]
        PROVE  Synced(s)[NewKey(s, old)] = table[s][old]
    <2> DEFINE o == CHOOSE k \in DOMAIN table[s] : NewKey(s, k) = NewKey(s, old)
    <2>1. o \in DOMAIN table[s] /\ NewKey(s, o) = NewKey(s, old)
      OBVIOUS
    <2>2. Synced(s)[NewKey(s, old)] = table[s][o]
      BY DEF Synced
    <2> HIDE DEF o
    <2> QED
      BY <1>4, <2>1, <2>2
  <1>7. \A n : SrcKey(n) \in DOMAIN table[s] => NewKey(s, SrcKey(n)) = KeyOf(n, prog.depth[s])
    BY <1>1, KeysApart
  <1> QED
    BY <1>2, <1>3, <1>5, <1>6, <1>7

LEMMA LeftEntries ==
    ASSUME ResolutionInv, phase = "DC", phase' # "FH", UNCHANGED <<prog, done>>,
           table' = [table EXCEPT ![current] = Synced(current)],
           \A t \in Scope : Open(t)' <=> Open(t) /\ t # current
    PROVE  Entries'
  <1>0. current \in Scope /\ Open(current) /\ DOMAIN table = Scope
    BY InvGives DEF Open
  <1>1. \A t \in Scope : /\ t # current => table'[t] = table[t]
                         /\ t = current => table'[t] = Synced(t)
    BY <1>0
  <1>2. \A t \in Scope : /\ Declared(t)' = Declared(t) /\ Entered(t)' = Entered(t)
                         /\ \A n : t # current => TableKey(t, n)' = TableKey(t, n)
                         /\ \A n : t = current => /\ TableKey(t, n) = SrcKey(n)
                                                  /\ TableKey(t, n)' = KeyOf(n, prog.depth[t])
    BY <1>0, Static DEF Declared, Entered, TableKey
  <1>3. ASSUME NEW t \in Scope
        PROVE  /\ \A key \in DOMAIN table'[t] : key.tag = "fun" =>
                     key \in DOMAIN table[t] /\ table'[t][key] = table[t][key]
               /\ \A key \in DOMAIN table[t] : key.tag = "fun" => key \in DOMAIN table'[t]
    <2>1. CASE t = current
      BY <1>1, <2>1, SyncedEntries
    <2>2. CASE t # current
      BY <1>1, <2>2
    <2> QED
      BY <2>1, <2>2
  <1>4. FunEntries'
    <2>1. ASSUME NEW t \in Scope, NEW k \in DOMAIN table'[t], k.tag = "fun"
          PROVE  /\ k = FunKey(k.name)
                 /\ \E j \in Items(prog, t) : /\ First(Named(t, Entered(t), k.name), j)
                                              /\ table'[t][k] = <<t, j>>
      <3>1. k \in DOMAIN table[t] /\ table'[t][k] = table[t][k]
        BY <1>3, <2>1
      <3> QED
        BY <2>1, <3>1 DEF ResolutionInv, Entries, FunEntries
    <2>2. \A t \in Scope : \A j \in Entered(t) : FunKey(ItemAt(t, j).name) \in DOMAIN table'[t]
      BY <1>3, KeysApart DEF ResolutionInv, Entries, FunEntries
    <2> QED
      BY <1>2, <2>1, <2>2, Static DEF FunEntries
  <1>5. ASSUME NEW t \in Scope
        PROVE  /\ \A key \in DOMAIN table'[t] : key.tag # "fun" =>
                    \E n \in Name : \E j \in Items(prog, t) :
                       /\ key = TableKey(t, n)'
                       /\ First(Named(t, Declared(t), n), j)
                       /\ table'[t][key] = <<t, j>>
               /\ \A j \in Declared(t) : \A n :
                    n = ItemAt(t, j).name => TableKey(t, n)' \in DOMAIN table'[t]
    <2>1. /\ \A key \in DOMAIN table[t] : key.tag # "fun" =>
               \E n \in Name : \E j \in Items(prog, t) :
                  /\ key = TableKey(t, n)
                  /\ First(Named(t, Declared(t), n), j)
                  /\ table[t][key] = <<t, j>>
          /\ \A j \in Declared(t) : TableKey(t, ItemAt(t, j).name) \in DOMAIN table[t]
      BY DEF ResolutionInv, Entries, VarEntries
    <2>2. CASE t # current
      BY <1>1, <1>2, <2>1, <2>2
    <2>3. CASE t = current
      <3>1. ASSUME NEW key \in DOMAIN table'[t], key.tag # "fun"
            PROVE  \E n \in Name : \E j \in Items(prog, t) :
                      /\ key = TableKey(t, n)'
                      /\ First(Named(t, Declared(t), n), j)
                      /\ table'[t][key] = <<t, j>>
        <4>1. PICK old \in DOMAIN table[t] :
                 key = NewKey(t, old) /\ table'[t][key] = table[t][old] /\ old.tag # "fun"
          BY <1>1, <2>3, <3>1, SyncedEntries
        <4>2. PICK n \in Name, j \in Items(prog, t) :
                 /\ old = TableKey(t, n)
                 /\ First(Named(t, Declared(t), n), j)
                 /\ table[t][old] = <<t, j>>
          BY <2>1, <4>1
        <4>3. old = SrcKey(n) /\ TableKey(t, n)' = KeyOf(n, prog.depth[t])
          BY <1>2, <2>3, <4>2
        <4>4. key = KeyOf(n, prog.depth[t])
          BY <2>3, <4>1, <4>3, SyncedEntries
        <4> QED
          BY <4>1, <4>2, <4>3, <4>4
      <3>2. ASSUME NEW j \in Declared(t), NEW n, n = ItemAt(t, j).name
            PROVE  TableKey(t, n)' \in DOMAIN table'[t]
        <4>1. SrcKey(n) \in DOMAIN table[t]
          BY <1>2, <2>1, <2>3, <3>2
        <4>2. NewKey(t, SrcKey(n)) = KeyOf(n, prog.depth[t]) /\ NewKey(t, SrcKey(n)) \in DOMAIN table'[t]
          BY <1>1, <2>3, <4>1, SyncedEntries
        <4> QED
          BY <1>2, <2>3, <4>2
      <3> QED
        BY <3>1, <3>2
    <2> QED
      BY <2>2, <2>3
  <1>6. VarEntries'
    BY <1>2, <1>5, Static DEF VarEntries
  <1> QED
    BY <1>4, <1>6 DEF Entries

LEMMA Left ==
    ASSUME ResolutionInv, TypeInv', phase = "DC", DCfinished,
           table' = [table EXCEPT ![current] = Synced(current)],
           UNCHANGED <<prog, done, sub, varName, useName, bound, errors>>,
           phase' \in {"DC", "done"}, phase' = "done" => current = Root,
           \A t \in Scope : Open(t)' <=> Open(t) /\ t # current
    PROVE  ResolutionInv'
  <1>0. current \in Scope /\ WellFormed(prog) /\ sub = 0 /\ Items(prog, current) \subseteq done[current]
    BY InvGives, NoneVisited DEF DCfinished
  <1>1. Entries'
    BY LeftEntries
  <1>2. CheckOrder'
    <2>1. \A t \in Scope :
             /\ done[t] \subseteq Items(prog, t)
             /\ \A j \in done[t] : \A k \in Items(prog, t) : Before(t, k, j) => k \in done[t]
      BY DEF ResolutionInv, Order, CheckOrder
    <2>2. ASSUME NEW s \in Scope, NEW j \in Items(prog, s), Defines(s, j),
                 NEW t, t = ItemAt(s, j).scope
          PROVE  IF j \in done[s] THEN Open(t)' \/ Items(prog, t) \subseteq done[t]
                                  ELSE ~Open(t)' /\ done[t] = {}
      <3>1. t \in Scope
        BY <1>0, <2>2, Opened DEF Defines, ItemAt
      <3>2. IF j \in done[s] THEN Open(t) \/ Items(prog, t) \subseteq done[t]
                             ELSE ~Open(t) /\ done[t] = {}
        BY <2>2 DEF ResolutionInv, Order, CheckOrder
      <3> QED
        BY <1>0, <3>1, <3>2
    <2>3. \A t \in Scope \ {current'} : Open(t)' => Variables(t) \subseteq done[t]
      BY DEF ResolutionInv, Order, CheckOrder
    <2> QED
      BY <1>0, <2>1, <2>2, <2>3, Static DEF CheckOrder
  <1>3. HeaderOrder' /\ Position'
    BY <1>0 DEF HeaderOrder, Position
  <1>4. UsesVisitedOnce'
    <2>1. ASSUME NEW v \in UseIds(prog)
          PROVE  ~Visiting(v) /\ ~Visiting(v)'
      <3>1. v[3] \in Nat \ {0}
        BY <1>0, UseParts
      <3> QED
        BY <1>0, <3>1 DEF Visiting
    <2>2. DOMAIN bound = {v \in UseIds(prog) : v[2] \in done[v[1]] \/ Visiting(v)}
      BY DEF ResolutionInv, Order, UsesVisitedOnce
    <2>3. DOMAIN bound' = {v \in UseIds(prog)' : v[2] \in done'[v[1]] \/ Visiting(v)'}
      BY <2>1, <2>2, Static
    <2> QED
      BY <2>3 DEF UsesVisitedOnce
  <1>5. Answers' /\ NewNames'
    BY SameUses
  <1>6. errors' = Reported'
    <2>1. \A d : (Due(d)' <=> Due(d)) /\ (Checked(d)' <=> Checked(d))
      BY Static DEF Due, Checked, Entered, Declared
    <2>2. DueDefinitions' = DueDefinitions /\ DueParameters' = DueParameters /\ DueUses' = DueUses
      BY <2>1, Static DEF DueDefinitions, DueParameters, DueUses
    <2> QED
      BY <2>2 DEF ResolutionInv, Reported
  <1> QED
    BY <1>1, <1>2, <1>3, <1>4, <1>5, <1>6 DEF ResolutionInv, Order

LEMMA ResolveDCleave ==
    ASSUME ResolutionInv, TypeInv', DCleave
    PROVE  ResolutionInv'
  <1>1. /\ phase = "DC" /\ current \in Scope \ {Root} /\ DCfinished
        /\ table' = [table EXCEPT ![current] = Synced(current)]
        /\ current' = prog.parent[current]
        /\ UNCHANGED <<prog, phase, done, sub, varName, useName, bound, errors>>
    BY InvGives DEF DCleave, LeaveTo
  <1>2. prog.outer[current'] = prog.outer[current] \ {current}
    BY <1>1, Around, InvGives
  <1>3. \A t \in Scope : Open(t)' <=> Open(t) /\ t # current
    BY <1>1, <1>2 DEF Open
  <1> QED
    BY <1>1, <1>3, Left

LEMMA ResolveDCprogram ==
    ASSUME ResolutionInv, TypeInv', DCprogram
    PROVE  ResolutionInv'
  <1>1. /\ phase = "DC" /\ phase' = "done" /\ current = Root /\ DCfinished
        /\ table' = [table EXCEPT ![current] = Synced(current)]
        /\ UNCHANGED <<prog, current, done, sub, varName, useName, bound, errors>>
    BY DEF DCprogram
  <1>2. \A t \in Scope : Open(t)' <=> Open(t) /\ t # current
    BY <1>1, Tree, InvGives DEF Open
  <1> QED
    BY <1>1, <1>2, Left

LEMMA SameResolution ==
    ASSUME ResolutionInv, TypeInv', UNCHANGED vars
    PROVE  ResolutionInv'
  <1> USE DEF vars
  <1>1. \A t : /\ Entered(t)' = Entered(t) /\ Declared(t)' = Declared(t)
               /\ Open(t)' <=> Open(t)
    BY Static DEF Entered, Declared, Open
  <1>2. \A t, n : TableKey(t, n)' = TableKey(t, n)
    BY <1>1 DEF TableKey
  <1>3. Entries'
    <2>1. FunEntries'
      BY <1>1, Static DEF ResolutionInv, Entries, FunEntries
    <2>2. VarEntries'
      BY <1>1, <1>2, Static DEF ResolutionInv, Entries, VarEntries
    <2> QED
      BY <2>1, <2>2 DEF Entries
  <1>4. Order'
    <2>1. HeaderOrder'
      <3>1. HeaderOrder
        BY DEF ResolutionInv, Order
      <3>2. \A s, j : /\ Defines(s, j)' <=> Defines(s, j)
                      /\ ItemAt(s, j)' = ItemAt(s, j) /\ Functions(s)' = Functions(s)
        BY Static
      <3>3. /\ prog' = prog /\ phase' = phase /\ current' = current /\ done' = done
            /\ table' = table /\ varName' = varName /\ bound' = bound
        OBVIOUS
      <3> HIDE DEF vars
      <3> QED
        BY ONLY <3>1, <3>2, <3>3 DEF HeaderOrder
    <2>2. CheckOrder'
      BY <1>1, Static DEF ResolutionInv, Order, CheckOrder
    <2>3. \A i : DCAt(i)' <=> DCAt(i)
      BY Static DEF DCAt
    <2>4. Position'
      BY <2>3, Static DEF ResolutionInv, Order, Position
    <2>5. UsesVisitedOnce'
      BY <2>3, Static DEF ResolutionInv, Order, UsesVisitedOnce, Visiting
    <2> QED
      BY <2>1, <2>2, <2>4, <2>5 DEF Order
  <1>5. Answers' /\ NewNames'
    BY SameUses
  <1>6. errors' = Reported'
    <2>1. \A d : (Due(d)' <=> Due(d)) /\ (Checked(d)' <=> Checked(d))
      BY <1>1 DEF Due, Checked
    <2>2. DueDefinitions' = DueDefinitions /\ DueParameters' = DueParameters /\ DueUses' = DueUses
      BY <2>1, Static DEF DueDefinitions, DueParameters, DueUses
    <2> QED
      BY <2>2 DEF ResolutionInv, Reported
  <1> QED
    BY <1>3, <1>4, <1>5, <1>6 DEF ResolutionInv

LEMMA NextResolution == ResolutionInv /\ [Next]_vars => ResolutionInv'
  <1> SUFFICES ASSUME ResolutionInv, [Next]_vars PROVE ResolutionInv'
    OBVIOUS
  <1>1. TypeInv'
    BY NextType DEF ResolutionInv
  <1>2. CASE UNCHANGED vars
    BY <1>1, <1>2, SameResolution
  <1>3. ASSUME NEW i \in Items(prog, current), FHfundec(i) \/ FHfundef(i)
        PROVE  ResolutionInv'
    BY <1>1, <1>3, ResolveFHfun
  <1>4. ASSUME NEW i \in Items(prog, current), DCuse(i) PROVE ResolutionInv'
    BY <1>1, <1>4, ResolveDCuse
  <1>5. ASSUME NEW i \in Items(prog, current), DCvar(i) PROVE ResolutionInv'
    BY <1>1, <1>5, ResolveDCvar
  <1>6. ASSUME NEW i \in Items(prog, current), DCstmt(i) PROVE ResolutionInv'
    BY <1>1, <1>6, ResolveDCstmt
  <1>7. ASSUME NEW i \in Items(prog, current), DCfundec(i) PROVE ResolutionInv'
    BY <1>1, <1>7, ResolveDCfundec
  <1>8. ASSUME NEW i \in Items(prog, current), DCfundef(i) PROVE ResolutionInv'
    BY <1>1, <1>8, ResolveDCfundef
  <1>9. CASE FHleave
    BY <1>1, <1>9, ResolveFHleave
  <1>10. CASE FHprogram
    BY <1>1, <1>10, ResolveFHprogram
  <1>11. CASE DCleave
    BY <1>1, <1>11, ResolveDCleave
  <1>12. CASE DCprogram
    BY <1>1, <1>12, ResolveDCprogram
  <1> QED
    BY <1>2, <1>3, <1>4, <1>5, <1>6, <1>7, <1>8, <1>9, <1>10, <1>11, <1>12
    DEF Next, Terminated

THEOREM ResolutionInvariant == Spec => []ResolutionInv
  BY InitResolution, NextResolution, PTL DEF Spec

-----------------------------------------------------------------------------
(* What the traversals achieve                                             *)

\* The instance of ScopeProgram within LexicalScope reads programs alike.
LEMMA SameRules ==
    /\ \A p : Lexical!WellFormed(p) <=> WellFormed(p)
    /\ \A p : Lexical!UseIds(p) = UseIds(p)
    /\ \A p, u : Lexical!Meaning(p, u) = Meaning(p, u)
  <1>1. ASSUME NEW p
        PROVE  Lexical!WellFormed(p) <=> WellFormed(p)
    BY DEF Lexical!WellFormed, WellFormed, Lexical!Program, Program, Lexical!Item, Item,
       Lexical!Use, Use, Lexical!Items, Items, Lexical!Is, Is
  <1>2. ASSUME NEW p
        PROVE  Lexical!UseIds(p) = UseIds(p)
    BY DEF Lexical!UseIds, UseIds, Lexical!Items, Items
  <1>3. ASSUME NEW p, NEW u
        PROVE  Lexical!Meaning(p, u) = Meaning(p, u)
    BY DEF Lexical!Meaning, Meaning, Lexical!Nowhere, Nowhere, Lexical!Sees, Sees,
       Lexical!UseOf, UseOf, Lexical!Items, Items, Lexical!Is, Is
  <1> QED
    BY <1>1, <1>2, <1>3

\* The answers to the uses are those of the language, each given once and
\* none taken back: CA_DC, which enters symbols in the order of
\* CA_DCdeclarations and CA_DCvardec and looks them up by name, takes the
\* steps of LexicalScope.
THEOREM ResolvesLexically == Spec => Lexical!LexSafety
  <1>1. Init => Lexical!LexInit
    BY ProgramsAssumption, SameRules DEF Init, Lexical!LexInit
  <1>2. ResolutionInv /\ ResolutionInv' /\ [Next]_vars => [Lexical!LexNext]_(Lexical!lexVars)
    <2> SUFFICES ASSUME ResolutionInv, ResolutionInv', [Next]_vars
                 PROVE  Lexical!LexNext \/ UNCHANGED <<prog, bound>>
      BY DEF Lexical!lexVars
    <2>1. ASSUME NEW i \in Items(prog, current), DCuse(i)
          PROVE  Lexical!LexNext
      <3> DEFINE u == <<current, i, sub + 1>>
      <3>1. u \notin DOMAIN bound /\ DOMAIN bound' = DOMAIN bound \cup {u} /\ prog' = prog
            /\ bound' = Put(bound, u, bound'[u])
        <4>1. DCAt(i) /\ sub \in Nat /\ phase # "FH" /\ prog' = prog
          BY <2>1, InvGives DEF DCuse, DCAt
        <4>2. u[2] \notin done[u[1]] /\ ~(u[3] <= sub)
          BY <4>1 DEF DCAt
        <4>3. u \notin DOMAIN bound
          BY <4>1, <4>2 DEF ResolutionInv, Order, UsesVisitedOnce, Visiting
        <4>4. PICK entry : bound' = Put(bound, u, entry)
          BY <2>1 DEF DCuse
        <4> HIDE DEF u
        <4>5. DOMAIN bound' = DOMAIN bound \cup {u} /\ bound'[u] = entry
          BY <4>3, <4>4 DEF Put
        <4> QED
          BY <4>1, <4>3, <4>4, <4>5
      <3>2. u \in UseIds(prog) /\ bound'[u] = Meaning(prog, u)
        <4>1. DOMAIN bound' \subseteq UseIds(prog)
          BY <3>1 DEF ResolutionInv, TypeInv, Visited, UseIds, Items
        <4> HIDE DEF u
        <4>2. bound'[u] = Meaning(prog, u)
          BY <3>1, Static DEF ResolutionInv, Answers
        <4> QED
          BY <3>1, <4>1, <4>2
      <3> HIDE DEF u
      <3>3. bound' = [v \in DOMAIN bound \cup {u} |->
                         IF v = u THEN Meaning(prog, u) ELSE bound[v]]
        BY <3>1, <3>2 DEF Put
      <3>4. Lexical!Answer(u)
        BY <3>1, <3>3, SameRules DEF Lexical!Answer
      <3> QED
        BY <3>2, <3>4, SameRules DEF Lexical!LexNext
    <2>2. ASSUME NEW i \in Items(prog, current),
                 \/ FHfundec(i) \/ FHfundef(i)
                 \/ DCvar(i) \/ DCstmt(i) \/ DCfundec(i) \/ DCfundef(i)
          PROVE  UNCHANGED <<prog, bound>>
      BY <2>2 DEF FHfundec, FHfundef, DCvar, DCstmt, DCfundec, DCfundef
    <2>3. CASE FHleave \/ FHprogram \/ DCleave \/ DCprogram
      BY <2>3 DEF FHleave, FHprogram, DCleave, LeaveTo, DCprogram
    <2>4. CASE UNCHANGED vars
      BY <2>4 DEF vars
    <2> QED
      BY <2>1, <2>2, <2>3, <2>4 DEF Next, Terminated
  <1> QED
    BY <1>1, <1>2, ResolutionInvariant, PTL DEF Spec, Lexical!LexSafety

\* When CA_DC is at its end it has been through every scope.
LEMMA AllDone ==
    ASSUME ResolutionInv, phase = "done"
    PROVE  /\ \A t \in Scope : done[t] = Items(prog, t) /\ Declared(t) = Variables(t)
           /\ \A t : ~Open(t)
           /\ DOMAIN bound = UseIds(prog)
  <1>1. WellFormed(prog) /\ (\A t : ~Open(t))
    BY InvGives DEF Open
  <1> DEFINE S == {t \in Scope : Items(prog, t) \subseteq done[t]}
  <1>2. Root \in S
    BY ScopeAssumption DEF ResolutionInv, Order, CheckOrder
  <1>3. ASSUME NEW s \in Scope \cap S, NEW j \in Items(prog, s), Is(prog, s, j, "fundef")
        PROVE  prog.items[s][j].scope \in S
    <2>1. prog.items[s][j].scope \in Scope /\ j \in done[s]
      BY <1>1, <1>3, Opened
    <2> HIDE DEF S
    <2>2. Items(prog, prog.items[s][j].scope) \subseteq done[prog.items[s][j].scope]
      BY <1>1, <1>3, <2>1 DEF ResolutionInv, Order, CheckOrder, Defines, ItemAt
    <2> QED
      BY <2>1, <2>2 DEF S
  <1> HIDE DEF S
  <1>4. Scope \subseteq S
    BY <1>1, <1>2, <1>3, ScopesReached
  <1>5. \A t \in Scope : done[t] = Items(prog, t)
    <2>1. \A t \in Scope : Items(prog, t) \subseteq done[t]
      BY <1>4 DEF S
    <2>2. \A t \in Scope : done[t] \subseteq Items(prog, t)
      BY DEF ResolutionInv, Order, CheckOrder
    <2> QED
      BY <2>1, <2>2
  <1>6. \A t \in Scope : Declared(t) = Variables(t)
    BY <1>5 DEF Declared, Variables
  <1>7. \A u \in UseIds(prog) : u[2] \in done[u[1]]
    BY <1>1, <1>5, UseParts
  <1>8. DOMAIN bound = UseIds(prog)
    BY <1>7 DEF ResolutionInv, Order, UsesVisitedOnce
  <1> QED
    BY <1>1, <1>5, <1>6, <1>8

\* The compiler reports each second declaration of a name in a scope and a
\* name space, each repeated parameter of an extern function and each use
\* without a declaration, and nothing else, in every program.
THEOREM AllErrorsReported == Spec => []ErrorsExact
  <1>1. ResolutionInv => ErrorsExact
    <2> SUFFICES ASSUME ResolutionInv, phase = "done"
                 PROVE  ErrorsExact
      BY DEF ErrorsExact
    <2>1. \A d \in DeclIds(prog) : Due(d) /\ Checked(d)
      <3> SUFFICES ASSUME NEW d \in DeclIds(prog) PROVE Due(d) /\ Checked(d)
        OBVIOUS
      <3>1. d[1] \in Scope /\ d[2] \in Items(prog, d[1]) /\ ~Is(prog, d[1], d[2], "stmt")
        BY Declarations
      <3>2. d[2] \in Functions(d[1]) \cup Variables(d[1])
        BY <3>1, Kinds, InvGives DEF Functions, Variables
      <3> QED
        BY <3>1, <3>2, AllDone DEF Due, Checked, Entered
    <2>2. DueDefinitions = {e \in DeclIds(prog) : Again(prog, e)}
      BY <2>1 DEF DueDefinitions
    <2>3. DueParameters = UNION {RepeatedParams(prog, d) : d \in DeclIds(prog)}
      BY <2>1 DEF DueParameters
    <2>4. DueUses = {v \in UseIds(prog) : Meaning(prog, v) = Nowhere}
      BY AllDone DEF DueUses
    <2> QED
      BY <2>2, <2>3, <2>4 DEF ErrorsExact, ResolutionInv, Reported, Messages
  <1> QED
    BY <1>1, ResolutionInvariant, PTL

-----------------------------------------------------------------------------
(* The names left in the tree                                              *)

\* Of the tables on a path that have a key, the lookup takes the innermost.
LEMMA LookupAt ==
    ASSUME WellFormed(prog), NEW s \in Scope, NEW key, NEW T \in prog.outer[s],
           key \in DOMAIN table[T],
           \A r \in prog.outer[s] : key \in DOMAIN table[r] => prog.depth[r] <= prog.depth[T]
    PROVE  DeepLookup(s, key) = table[T][key]
  <1> DEFINE H == {t \in prog.outer[s] : key \in DOMAIN table[t]}
             C == CHOOSE t \in H : \A r \in H : prog.depth[r] <= prog.depth[t]
  <1>1. DeepLookup(s, key) = IF H = {} THEN Nowhere ELSE table[C][key]
    BY DEF DeepLookup
  <1>2. T \in H /\ \A r \in H : prog.depth[r] <= prog.depth[T]
    OBVIOUS
  <1>3. C \in H /\ \A r \in H : prog.depth[r] <= prog.depth[C]
    <2> HIDE DEF H
    <2> QED
      BY <1>2
  <1> HIDE DEF C
  <1>4. prog.depth[C] = prog.depth[T]
    <2>1. prog.depth[C] \in Nat /\ prog.depth[T] \in Nat
      BY <1>3, Tree, Path
    <2>2. prog.depth[C] <= prog.depth[T] /\ prog.depth[T] <= prog.depth[C]
      BY <1>2, <1>3
    <2> QED
      BY <2>1, <2>2
  <1>5. C = T
    BY <1>3, <1>4, Path
  <1> QED
    BY <1>1, <1>2, <1>5

\* What it is for a declaration to be meant
LEMMA MeaningParts ==
    ASSUME WellFormed(prog), NEW u, u[1] \in Scope, Meaning(prog, u) # Nowhere
    PROVE  \E T \in prog.outer[u[1]] : \E J \in Items(prog, T) :
              /\ Meaning(prog, u) = <<T, J>> /\ T \in Scope
              /\ First(Seen(u, T), J)
              /\ \A r \in prog.outer[u[1]] : Seen(u, r) # {} => prog.depth[r] <= prog.depth[T]
  <1> DEFINE G == {t \in prog.outer[u[1]] : Seen(u, t) # {}}
             In(t) == CHOOSE j \in Seen(u, t) : \A i \in Seen(u, t) : j <= i
             T == CHOOSE t \in G : \A r \in G : prog.depth[r] <= prog.depth[t]
  <1>1. Meaning(prog, u) = IF G = {} THEN Nowhere ELSE <<T, In(T)>>
    BY Zenon DEF Meaning, Seen
  <1>2. G # {} /\ G \in SUBSET prog.outer[u[1]]
    BY <1>1
  <1>3. T \in G /\ \A r \in G : prog.depth[r] <= prog.depth[T]
    <2> HIDE DEF G
    <2>1. \E t \in G : \A r \in G : prog.depth[r] <= prog.depth[t]
      BY <1>2, Innermost
    <2> QED
      BY <2>1
  <1> HIDE DEF T
  <1>4. T \in Scope
    BY <1>3, Path
  <1>5. Seen(u, T) \in SUBSET Nat /\ Seen(u, T) # {} /\ Seen(u, T) \subseteq Items(prog, T)
    BY <1>3, <1>4, ItemNumbers DEF Seen
  <1>6. First(Seen(u, T), In(T))
    <2>1. \E j \in Seen(u, T) : \A i \in Seen(u, T) : j <= i
      BY <1>5, LeastNat
    <2> QED
      BY <2>1 DEF First
  <1> HIDE DEF In
  <1>7. In(T) \in Items(prog, T)
    BY <1>5, <1>6 DEF First
  <1> QED
    BY <1>1, <1>2, <1>3, <1>4, <1>6, <1>7

\* The first variable of a name in a scope that a use means is the first one
\* of that name in the scope: what comes later in the scope of the use does
\* not matter.
LEMMA FirstSeen ==
    ASSUME WellFormed(prog), NEW u \in UseIds(prog), UseOf(prog, u).ns = "var",
           NEW T \in Scope, NEW J, First(Seen(u, T), J)
    PROVE  First(Named(T, Variables(T), UseOf(prog, u).name), J)
  <1> DEFINE n == UseOf(prog, u).name
  <1>1. Seen(u, T) = {j \in Variables(T) : ItemAt(T, j).name = n /\ (T = u[1] => j < u[2])}
    BY DEF Seen, Sees, Variables, ItemAt
  <1>2. Variables(T) \subseteq Nat /\ u[2] \in Nat
    BY ItemNumbers, UseParts, Opened DEF Variables
  <1> QED
    BY <1>1, <1>2 DEF First, Named

\* An iterator is declared in the scope that uses it.
LEMMA IteratorSeen ==
    ASSUME WellFormed(prog), NEW u \in UseIds(prog), UseOf(prog, u).name \in ForName
    PROVE  Seen(u, u[1]) # {}
  <1>1. /\ u[1] \in Scope /\ u[2] \in Items(prog, u[1])
        /\ u[3] \in DOMAIN prog.items[u[1]][u[2]].uses
        /\ prog.items[u[1]][u[2]].uses[u[3]].name \in ForName
    BY UseParts DEF UseOf
  <1>2. ASSUME NEW s \in Scope, NEW i \in Items(prog, s), NEW k \in DOMAIN prog.items[s][i].uses,
               prog.items[s][i].uses[k].name \in ForName
        PROVE  /\ prog.items[s][i].uses[k].ns = "var"
               /\ \E j \in Items(prog, s) :
                     /\ j < i /\ Is(prog, s, j, "var")
                     /\ prog.items[s][j].name = prog.items[s][i].uses[k].name
    BY <1>2 DEF WellFormed
  <1>3. /\ UseOf(prog, u).ns = "var"
        /\ \E j \in Items(prog, u[1]) :
              /\ j < u[2] /\ Is(prog, u[1], j, "var")
              /\ prog.items[u[1]][j].name = UseOf(prog, u).name
    BY <1>1, <1>2 DEF UseOf
  <1> QED
    BY <1>3 DEF Seen, Sees

\* The entry of the variable that is the first of its name in a scope, when
\* CA_DC has left it
LEMMA FinalEntry ==
    ASSUME ResolutionInv, phase = "done", NEW T \in Scope, NEW n, NEW J,
           First(Named(T, Variables(T), n), J),
           NEW key, key = KeyOf(n, prog.depth[T])
    PROVE  key \in DOMAIN table[T] /\ table[T][key] = <<T, J>>
  <1>1. Declared(T) = Variables(T) /\ \A m : TableKey(T, m) = KeyOf(m, prog.depth[T])
    BY AllDone DEF TableKey
  <1>2. J \in Variables(T) /\ ItemAt(T, J).name = n
    BY DEF First, Named
  <1>3. key \in DOMAIN table[T]
    BY <1>1, <1>2 DEF ResolutionInv, Entries, VarEntries
  <1>4. PICK m \in Name : \E j \in Items(prog, T) :
           /\ key = TableKey(T, m)
           /\ First(Named(T, Declared(T), m), j)
           /\ table[T][key] = <<T, j>>
    <2>1. key.tag # "fun"
      BY KeysApart
    <2> QED
      BY <1>3, <2>1 DEF ResolutionInv, Entries, VarEntries
  <1>5. m = n
    <2>1. KeyOf(m, prog.depth[T]) = KeyOf(n, prog.depth[T])
      BY <1>1, <1>4
    <2> QED
      BY <2>1, KeysApart
  <1>6. PICK j \in Items(prog, T) : First(Named(T, Variables(T), n), j) /\ table[T][key] = <<T, j>>
    BY <1>1, <1>4, <1>5
  <1>7. j = J
    <2>1. j \in Nat /\ J \in Nat
      BY <1>2, ItemNumbers, InvGives DEF Variables
    <2> QED
      BY <1>6, <2>1 DEF First
  <1> QED
    BY <1>3, <1>6, <1>7

LEMMA FinalNames ==
    ASSUME ResolutionInv, phase = "done", NEW u \in DOMAIN bound, bound[u] # Nowhere
    PROVE  DeepLookup(u[1], useName[u]) = bound[u]
  <1> DEFINE use == UseOf(prog, u)
             n == use.name
             key == useName[u]
  <1>0. /\ WellFormed(prog) /\ u \in UseIds(prog) /\ u[1] \in Scope
        /\ bound[u] = Meaning(prog, u) /\ use.ns \in {"var", "fun"}
    <2>1. WellFormed(prog) /\ u \in UseIds(prog)
      BY InvGives, AllDone
    <2>2. use \in Use /\ u[1] \in Scope
      BY <2>1, UseParts, UseAt DEF UseOf
    <2> QED
      BY <2>1, <2>2 DEF Use, ResolutionInv, Answers
  <1>1. key = IF use.ns = "fun" THEN FunKey(n) ELSE KeyOf(n, prog.depth[bound[u][1]])
    BY DEF ResolutionInv, NewNames
  <1>2. CASE use.ns = "fun"
    BY <1>0, <1>1, <1>2, FunctionFound
  <1>3. CASE use.ns = "var"
    <2>1. PICK T \in prog.outer[u[1]] : \E J \in Items(prog, T) :
             /\ bound[u] = <<T, J>> /\ T \in Scope
             /\ First(Seen(u, T), J)
             /\ \A r \in prog.outer[u[1]] : Seen(u, r) # {} => prog.depth[r] <= prog.depth[T]
      BY <1>0, MeaningParts
    <2>2. PICK J \in Items(prog, T) : bound[u] = <<T, J>> /\ First(Seen(u, T), J)
      BY <2>1
    <2>3. First(Named(T, Variables(T), n), J)
      BY <1>0, <1>3, <2>1, <2>2, FirstSeen
    <2>4. key = KeyOf(n, prog.depth[T])
      BY <1>1, <1>3, <2>2
    <2> HIDE DEF key
    <2>5. key \in DOMAIN table[T] /\ table[T][key] = <<T, J>>
      <3> HIDE DEF n
      <3> QED
        BY <2>1, <2>3, <2>4, FinalEntry
    <2>6. ASSUME NEW r \in prog.outer[u[1]], key \in DOMAIN table[r]
          PROVE  prog.depth[r] <= prog.depth[T]
      <3>1. r \in Scope /\ prog.depth[r] <= prog.depth[u[1]] /\ u[1] \in prog.outer[u[1]]
        BY <1>0, Path
      <3>2. prog.depth \in [Scope -> Nat]
        BY <1>0, Tree
      <3>3. PICK m \in Name : key = TableKey(r, m)
        BY <2>4, <2>6, <3>1, KeysApart DEF ResolutionInv, Entries, VarEntries
      <3>4. KeyOf(m, prog.depth[r]) = KeyOf(n, prog.depth[T])
        BY <2>4, <3>3, AllDone DEF TableKey
      <3>5. CASE n \in ForName
        <4>1. prog.depth[u[1]] <= prog.depth[T]
          BY <1>0, <2>1, <3>1, <3>5, IteratorSeen
        <4> QED
          BY <1>0, <2>1, <3>1, <3>2, <4>1
      <3>6. CASE n \notin ForName
        <4>1. prog.depth[r] = prog.depth[T]
          BY <3>4, <3>6, KeysApart
        <4> QED
          BY <2>1, <3>2, <4>1
      <3> QED
        BY <3>5, <3>6
    <2>7. DeepLookup(u[1], key) = table[T][key]
      BY <1>0, <2>1, <2>5, <2>6, LookupAt
    <2> QED
      BY <2>2, <2>5, <2>7 DEF key
  <1> QED
    BY <1>0, <1>2, <1>3

\* What every later pass relies on, in every program: when the traversals are
\* through, a lookup of the new name of a use, from the scope of the use,
\* leads to the declaration that was found for it, whatever the scopes in
\* between declare.
THEOREM NewNamesResolve == Spec => []FinalNamesResolve
  <1>1. ResolutionInv => FinalNamesResolve
    BY FinalNames DEF FinalNamesResolve
  <1> QED
    BY <1>1, ResolutionInvariant, PTL

-----------------------------------------------------------------------------
(* The entries of the tables                                               *)

\* A table that is changed gets one more entry or is re-keyed.
LEMMA TableSteps ==
    ASSUME ResolutionInv, [Next]_vars, NEW s \in Scope
    PROVE  \/ table'[s] = table[s]
           \/ \E k, v : table'[s] = Put(table[s], k, v)
           \/ phase = "DC" /\ s = current /\ table'[s] = Synced(s)
  <1>0. DOMAIN table = Scope /\ Root \in Scope
    BY InvGives, ScopeAssumption
  <1>1. ASSUME NEW i \in Items(prog, current), FHfundec(i) \/ FHfundef(i)
        PROVE  table'[s] = table[s] \/ \E k, v : table'[s] = Put(table[s], k, v)
    <2>1. EnterFun(i)
      BY <1>1 DEF FHfundec, FHfundef
    <2>2. CASE table' = table
      BY <2>2
    <2>3. CASE table' # table
      <3>1. PICK k : table' = [table EXCEPT ![current] = Put(@, k, <<current, i>>)]
        BY <2>1, <2>3 DEF EnterFun
      <3> QED
        BY <1>0, <3>1
    <2> QED
      BY <2>2, <2>3
  <1>2. ASSUME NEW i \in Items(prog, current), DCvar(i)
        PROVE  table'[s] = table[s] \/ \E k, v : table'[s] = Put(table[s], k, v)
    <2>1. AddVarSymbol(i)
      BY <1>2 DEF DCvar
    <2>2. CASE table' = table
      BY <2>2
    <2>3. CASE table' # table
      <3>1. PICK k : table' = [table EXCEPT ![current] = Put(@, k, <<current, i>>)]
        BY <2>1, <2>3 DEF AddVarSymbol
      <3> QED
        BY <1>0, <3>1
    <2> QED
      BY <2>2, <2>3
  <1>3. ASSUME NEW i \in Items(prog, current),
               DCuse(i) \/ DCstmt(i) \/ DCfundec(i) \/ DCfundef(i)
        PROVE  table' = table
    BY <1>3 DEF DCuse, DCstmt, DCfundec, DCfundef
  <1>4. CASE FHleave \/ FHprogram \/ UNCHANGED vars
    BY <1>4 DEF FHleave, FHprogram, vars
  <1>5. CASE DCleave \/ DCprogram
    <2>1. phase = "DC" /\ table' = [table EXCEPT ![current] = Synced(current)]
      BY <1>5 DEF DCleave, LeaveTo, DCprogram
    <2>2. CASE s = current
      BY <1>0, <2>1, <2>2
    <2>3. CASE s # current
      BY <1>0, <2>1, <2>3
    <2> QED
      BY <2>2, <2>3
  <1> QED
    BY <1>1, <1>2, <1>3, <1>4, <1>5 DEF Next, Terminated

\* No entry of a symbol table is replaced or lost, in every program: HTinsert
\* only adds, and the re-keying of sync_symbol_keys never gives two entries
\* the same key.
THEOREM EntriesKept == Spec => EntriesStable
  <1> DEFINE Kept(s) ==
               /\ \A key \in DOMAIN table[s] \cap DOMAIN table'[s] :
                     table'[s][key] = table[s][key]
               /\ \A key \in DOMAIN table[s] :
                     \E new \in DOMAIN table'[s] : table'[s][new] = table[s][key]
  <1>1. ASSUME ResolutionInv, [Next]_vars, NEW s \in Scope
        PROVE  Kept(s)
    <2>1. CASE table'[s] = table[s]
      BY <2>1
    <2>2. CASE \E k, v : table'[s] = Put(table[s], k, v)
      BY <2>2 DEF Put
    <2>3. CASE phase = "DC" /\ s = current /\ table'[s] = Synced(s)
      <3>1. ASSUME NEW key \in DOMAIN table[s], key \in DOMAIN Synced(s)
            PROVE  Synced(s)[key] = table[s][key]
        <4>1. PICK old \in DOMAIN table[s] : key = NewKey(s, old)
          BY <1>1, <2>3, <3>1, SyncedEntries
        <4>2. old = key
          <5>1. CASE key.tag = "fun"
            BY <1>1, <2>3, <4>1, <5>1, SyncedEntries
          <5>2. CASE key.tag # "fun"
            <6>1. old.tag # "fun"
              BY <1>1, <2>3, <4>1, <5>2, SyncedEntries
            <6>2. \A k \in DOMAIN table[s] : k.tag # "fun" => \E n : k = SrcKey(n)
              BY <1>1, <2>3, InvGives DEF ResolutionInv, Entries, VarEntries, TableKey, Open
            <6>3. PICK n, m : old = SrcKey(n) /\ key = SrcKey(m)
              BY <3>1, <5>2, <6>1, <6>2
            <6>4. key = KeyOf(n, prog.depth[s])
              BY <1>1, <2>3, <4>1, <6>3, SyncedEntries
            <6>5. n \in ForName
              BY <6>3, <6>4 DEF KeyOf, SrcKey, LvlKey
            <6>6. KeyOf(n, prog.depth[s]) = SrcKey(n)
              BY <6>5, KeysApart
            <6> QED
              BY <6>3, <6>4, <6>6
          <5> QED
            BY <5>1, <5>2
        <4>3. Synced(s)[NewKey(s, old)] = table[s][old]
          BY <1>1, <2>3, SyncedEntries
        <4> QED
          BY <4>1, <4>2, <4>3
      <3>2. \A key \in DOMAIN table[s] :
               \E new \in DOMAIN Synced(s) : Synced(s)[new] = table[s][key]
        BY <1>1, <2>3, SyncedEntries
      <3> QED
        BY <2>3, <3>1, <3>2
    <2> QED
      BY <1>1, <2>1, <2>2, <2>3, TableSteps
  <1>2. ResolutionInv /\ [Next]_vars => [\A s \in Scope : Kept(s)]_vars
    BY <1>1
  <1> QED
    BY <1>2, ResolutionInvariant, PTL DEF Spec, EntriesStable
=============================================================================
