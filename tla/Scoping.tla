------------------------------- MODULE Scoping -------------------------------
(***************************************************************************)
(* Name resolution: the traversals FunctionHeader (CA_FH) and              *)
(* DeclarationCheck (CA_DC) over the symbol tables.  CA_FH enters all      *)
(* functions; CA_DC enters variables, gives every variable the name        *)
(* "@<level>_<name>", renames the uses to it and, when it leaves a scope,  *)
(* re-keys the table with the new names, by which every later pass looks   *)
(* a variable up.                                                          *)
(*                                                                         *)
(* The recursion of the traversals is kept as the set of items done in     *)
(* each scope.  Leading underscores are left out: the lexer never makes    *)
(* an identifier of one.                                                   *)
(***************************************************************************)
EXTENDS ScopeProgram

VARIABLES
    prog,       \* the program
    phase,      \* the traversal that runs: "FH", "DC" or "done"
    current,    \* the scope whose table is current
    level,      \* CA_DC: depth of the current function
    saved,      \* CA_DCfundef: its local parent_level, per function entered
    done,       \* items the traversal has finished, per scope
    sub,        \* names it has visited in the item it is at
    table,      \* symbol tables: scope -> key -> declaration
    varName,    \* VAR_NAME of the variable of a declaration, once entered
    useName,    \* VAR_NAME of a use, once visited
    bound,      \* the declaration found for a use, or Nowhere
    errors      \* error messages: [kind, id of the declaration or use]

vars == <<prog, phase, current, level, saved, done, sub, table, varName,
          useName, bound, errors>>

\* Keys of a table and names of variables
SrcKey(n)    == [tag |-> "src", level |-> 0, name |-> n]    \* as written
LvlKey(l, n) == [tag |-> "lvl", level |-> l, name |-> n]    \* "@<l>_n"
FunKey(n)    == [tag |-> "fun", level |-> 0, name |-> n]    \* "@fun_n"

Key == [tag : {"src", "lvl", "fun"}, level : Nat, name : Name]

\* HTinsert of a key that is not in the table
Put(f, k, v) == [x \in DOMAIN f \cup {k} |-> IF x \in DOMAIN f THEN f[x] ELSE v]

ItemAt(s, i) == prog.items[s][i]

\* mutant: a lookup that does not climb
FlatLookup(s, key) ==
    IF key \in DOMAIN table[s] THEN table[s][key] ELSE Nowhere

\* The table entry a lookup that climbs the "@parent" links ends at.
DeepLookup(s, key) ==
    LET holders == {t \in prog.outer[s] : key \in DOMAIN table[t]} IN
    IF holders = {} THEN Nowhere
    ELSE table[CHOOSE t \in holders :
                  \A r \in holders : prog.depth[r] <= prog.depth[t]][key]

Init ==
    /\ prog \in Programs
    /\ phase = "FH" /\ current = Root
    /\ level = 0 /\ saved = [s \in Scope |-> 0]
    /\ done = [s \in Scope |-> {}] /\ sub = 0
    /\ table = [s \in Scope |-> <<>>]
    /\ varName = <<>> /\ useName = <<>> /\ bound = <<>>
    /\ errors = {}

-----------------------------------------------------------------------------
(* FunctionHeader: functions in source order, a body after its header.     *)

IsFun(i) == Is(prog, current, i, "fundef") \/ Is(prog, current, i, "fundec")

FHAt(i) ==
    /\ phase = "FH"
    /\ i \in Items(prog, current) \ done[current] /\ IsFun(i)
    /\ \A j \in Items(prog, current) :
          j < i /\ IsFun(j) => j \in done[current]

\* The HTlookup and HTinsert of CA_FHfundec and CA_FHfundef
EnterFun(i) ==
    LET key == FunKey(ItemAt(current, i).name) IN
    /\ IF key \in DOMAIN table[current]
       THEN /\ errors' = errors \cup {[kind |-> "defined", id |-> <<current, i>>]}
            /\ UNCHANGED table
       ELSE /\ table' = [table EXCEPT ![current] = Put(@, key, <<current, i>>)]
            /\ UNCHANGED errors
    /\ done' = [done EXCEPT ![current] = @ \cup {i}]

FHfundec(i) ==
    /\ FHAt(i) /\ Is(prog, current, i, "fundec")
    /\ EnterFun(i)
    /\ UNCHANGED <<prog, phase, current, level, saved, sub, varName, useName,
                   bound>>

FHfundef(i) ==
    /\ FHAt(i) /\ Is(prog, current, i, "fundef")
    /\ EnterFun(i)
    /\ current' = ItemAt(current, i).scope
    /\ UNCHANGED <<prog, phase, level, saved, sub, varName, useName, bound>>

FHfinished == \A i \in Items(prog, current) : IsFun(i) => i \in done[current]

\* current = HTlookup(current, htable_parent_name)
FHleave ==
    /\ phase = "FH" /\ current # Root /\ FHfinished
    /\ current' = prog.parent[current]
    /\ UNCHANGED <<prog, phase, level, saved, done, sub, table, varName,
                   useName, bound, errors>>

\* An error stops the compiler only after the phase, so CA_DC runs anyway.
FHprogram ==
    /\ phase = "FH" /\ current = Root /\ FHfinished
    /\ phase' = "DC" /\ level' = 0
    /\ done' = [s \in Scope |-> {}]
    /\ UNCHANGED <<prog, current, saved, sub, table, varName, useName, bound,
                   errors>>
-----------------------------------------------------------------------------
(* DeclarationCheck                                                        *)

\* mutant: the order of the source everywhere
SourceOrder(s, j, i) == j < i

\* CA_DCdeclarations: function definitions after everything else and last
\* one first; in a function body the order of the source.
Before(s, j, i) ==
    LET def(k) == Is(prog, s, k, "fundef") IN
    IF s = Root THEN \/ ~def(j) /\ (def(i) \/ j < i)
                     \/ def(j) /\ def(i) /\ j > i
    ELSE j < i

DCAt(i) ==
    /\ phase = "DC"
    /\ i \in Items(prog, current) \ done[current]
    /\ \A j \in Items(prog, current) : Before(current, j, i) => j \in done[current]

Finish(i) == done' = [done EXCEPT ![current] = @ \cup {i}]

\* mutant: no level in the name
PlainKey(n, l) == SrcKey(n)

\* no_level_name keeps the name of an iterator as it is.
KeyOf(n, l) == IF n \in ForName THEN SrcKey(n) ELSE LvlKey(l, n)

\* CA_DCvar, and CA_DCproccall for a function: the next name of the item.
\* The lookup is by the name as written; a variable takes the name of its
\* declaration.
DCuse(i) ==
    LET u     == <<current, i, sub + 1>>
        use   == UseOf(prog, u)
        entry == DeepLookup(current, IF use.ns = "fun" THEN FunKey(use.name)
                                                       ELSE SrcKey(use.name))
    IN
    /\ DCAt(i) /\ sub < Len(ItemAt(current, i).uses)
    /\ sub' = sub + 1
    /\ bound' = Put(bound, u, entry)
    /\ IF entry = Nowhere
       THEN errors' = errors \cup {[kind |-> "undeclared", id |-> u]}
       ELSE UNCHANGED errors
    /\ useName' = Put(useName, u,
                      IF use.ns = "fun" THEN FunKey(use.name)
                      ELSE IF entry = Nowhere THEN SrcKey(use.name)
                      ELSE varName[entry])
    /\ UNCHANGED <<prog, phase, current, level, saved, done, table, varName>>

UsesVisited(i) == sub = Len(ItemAt(current, i).uses)

\* mutant: the later of two declarations counts
AddVarSymbolOverrides(i) ==
    LET n == ItemAt(current, i).name
        d == <<current, i>>
    IN
    /\ varName' = Put(varName, d, KeyOf(n, level))
    /\ table' = [table EXCEPT ![current] =
                    [k \in DOMAIN @ \cup {SrcKey(n)} |->
                        IF k = SrcKey(n) THEN d ELSE @[k]]]
    /\ UNCHANGED errors

\* add_var_symbol: the variable is renamed, the table keeps the old name
\* as its key and, of two declarations, the first.
AddVarSymbol(i) ==
    LET n == ItemAt(current, i).name
        d == <<current, i>>
    IN
    /\ varName' = Put(varName, d, KeyOf(n, level))
    /\ IF SrcKey(n) \in DOMAIN table[current]
       THEN /\ errors' = errors \cup {[kind |-> "defined", id |-> d]}
            /\ UNCHANGED table
       ELSE /\ table' = [table EXCEPT ![current] = Put(@, SrcKey(n), d)]
            /\ UNCHANGED errors

\* CA_DCvardec, CA_DCglobaldec, CA_DCparams, CA_DCdimensionvars: the symbol
\* after the expressions of the item.
DCvar(i) ==
    /\ DCAt(i) /\ Is(prog, current, i, "var") /\ UsesVisited(i)
    /\ AddVarSymbol(i)
    /\ Finish(i) /\ sub' = 0
    /\ UNCHANGED <<prog, phase, current, level, saved, useName, bound>>

DCstmt(i) ==
    /\ DCAt(i) /\ Is(prog, current, i, "stmt") /\ UsesVisited(i)
    /\ Finish(i) /\ sub' = 0
    /\ UNCHANGED <<prog, phase, current, level, saved, table, varName, useName,
                   bound, errors>>

\* The parameters of an extern function go to a table that is thrown away.
DCfundec(i) ==
    LET params == ItemAt(current, i).params
        again  == {k \in DOMAIN params : \E m \in 1..(k - 1) : params[m] = params[k]}
    IN
    /\ DCAt(i) /\ Is(prog, current, i, "fundec")
    /\ errors' = errors \cup
          {[kind |-> "defined", id |-> <<current, i, k>>] : k \in again}
    /\ Finish(i)
    /\ UNCHANGED <<prog, phase, current, level, saved, sub, table, varName,
                   useName, bound>>

DCfundef(i) ==
    /\ DCAt(i) /\ Is(prog, current, i, "fundef")
    /\ current' = ItemAt(current, i).scope
    /\ saved' = [saved EXCEPT ![ItemAt(current, i).scope] = level]
    /\ level' = level + 1
    /\ Finish(i)
    /\ UNCHANGED <<prog, phase, sub, table, varName, useName, bound, errors>>

DCfinished == Items(prog, current) \subseteq done[current]

\* sync_symbol_keys: the entries of variables move to their new names.
NewKey(s, key) == IF key.tag = "fun" THEN key ELSE varName[table[s][key]]

Synced(s) ==
    [key \in {NewKey(s, old) : old \in DOMAIN table[s]} |->
        table[s][CHOOSE old \in DOMAIN table[s] : NewKey(s, old) = key]]

LeaveTo(l) ==
    /\ phase = "DC" /\ current # Root /\ DCfinished
    /\ table' = [table EXCEPT ![current] = Synced(current)]
    /\ current' = prog.parent[current]
    /\ level' = l
    /\ UNCHANGED <<prog, phase, saved, done, sub, varName, useName, bound, errors>>

\* mutants: the level is not restored, or once too often
DCleaveKeepsLevel == LeaveTo(level)
DCleaveTooFar == LeaveTo(saved[current] - 1)

\* The end of CA_DCfundef
DCleave == LeaveTo(saved[current])

\* The end of CA_DCprogram
DCprogram ==
    /\ phase = "DC" /\ current = Root /\ DCfinished
    /\ table' = [table EXCEPT ![Root] = Synced(Root)]
    /\ phase' = "done"
    /\ UNCHANGED <<prog, current, level, saved, done, sub, varName, useName,
                   bound, errors>>

-----------------------------------------------------------------------------
Terminated == phase = "done" /\ UNCHANGED vars

Next ==
    \/ \E i \in Items(prog, current) :
          \/ FHfundec(i) \/ FHfundef(i)
          \/ DCuse(i) \/ DCvar(i) \/ DCstmt(i) \/ DCfundec(i) \/ DCfundef(i)
    \/ FHleave \/ FHprogram
    \/ DCleave \/ DCprogram
    \/ Terminated

Spec == Init /\ [][Next]_vars

FairSpec == Spec /\ WF_vars(Next)

-----------------------------------------------------------------------------
(* Properties                                                              *)

TypeOK ==
    /\ WellFormed(prog)
    /\ phase \in {"FH", "DC", "done"}
    /\ current \in Scope
    /\ level \in Nat /\ saved \in [Scope -> Nat]
    /\ done \in [Scope -> SUBSET Nat] /\ sub \in Nat
    /\ DOMAIN table = Scope
    /\ \A s \in Scope : DOMAIN table[s] \subseteq Key
    /\ DOMAIN varName \subseteq DeclIds(prog)
    /\ \A d \in DOMAIN varName : varName[d] \in Key
    /\ DOMAIN bound \subseteq UseIds(prog)
    /\ DOMAIN useName = DOMAIN bound

\* The traversals give every use the declaration the language rules give it,
\* once, and leave none out (CA_DCvar against the order in which
\* CA_DCdeclarations and CA_DCvardec enter symbols).
Lexical == INSTANCE LexicalScope WITH answer <- bound
ImplementsLexicalScope == Lexical!LexSpec

\* A name in the tree belongs to one level: the variable of a declaration is
\* named after the depth of its scope, however the traversal got there
\* (level and parent_level of CA_DCfundef).
NamesQualified ==
    \A d \in DOMAIN varName :
        varName[d] = KeyOf(ItemAt(d[1], d[2]).name, prog.depth[d[1]])

\* What every later pass relies on: looked up from the scope of the use, its
\* new name leads to the declaration found here, whatever scopes in between
\* declare, even for a name used before a local one shadows it.
FinalNamesResolve ==
    phase = "done" =>
        \A u \in DOMAIN bound :
            bound[u] # Nowhere => DeepLookup(u[1], useName[u]) = bound[u]

\* The compiler reports exactly the programs the language forbids: a second
\* declaration in the same scope and the same name space, and a use without
\* a declaration.
SameSpace(p, s, i, j) ==
    /\ p.items[s][i].name = p.items[s][j].name
    /\ Is(p, s, i, "var") <=> Is(p, s, j, "var")

Again(p, d) == \E j \in Items(p, d[1]) :
                  j < d[2] /\ <<d[1], j>> \in DeclIds(p) /\ SameSpace(p, d[1], j, d[2])

RepeatedParams(p, d) ==
    LET params == p.items[d[1]][d[2]].params IN
    {<<d[1], d[2], k>> : k \in {m \in DOMAIN params :
                                   \E l \in 1..(m - 1) : params[l] = params[m]}}

ErrorsExact ==
    phase = "done" =>
        errors = {[kind |-> "defined", id |-> d] :
                     d \in {e \in DeclIds(prog) : Again(prog, e)}}
            \cup {[kind |-> "defined", id |-> k] :
                     k \in UNION {RepeatedParams(prog, d) : d \in DeclIds(prog)}}
            \cup {[kind |-> "undeclared", id |-> u] :
                     u \in {v \in UseIds(prog) : Meaning(prog, v) = Nowhere}}

\* An entry of a table never comes to stand for another declaration: HTinsert
\* only adds, and the re-keying of sync_symbol_keys does not merge entries.
EntriesStable ==
    [][\A s \in Scope :
          /\ \A key \in DOMAIN table[s] \cap DOMAIN table'[s] :
                table'[s][key] = table[s][key]
          /\ \A key \in DOMAIN table[s] :
                \E new \in DOMAIN table'[s] : table'[s][new] = table[s][key]]_vars
=============================================================================
