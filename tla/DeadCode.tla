------------------------------ MODULE DeadCode ------------------------------
(***************************************************************************)
(* DeadCodeElimination on the statements of a function main over local     *)
(* scalar variables, and of a function g within it that uses the same      *)
(* variables.  The pass walks the statements backwards and keeps, for each *)
(* variable, whether its value is used later (UC_USAGE) or will have been  *)
(* assigned before (UC_CONSUMED).  It is repeated until it changes nothing.*)
(*                                                                         *)
(* An expression is the variables it reads and the calls with effects in   *)
(* it, each with the variables in its arguments.  A block is a sequence of *)
(* statements.                                                             *)
(***************************************************************************)
EXTENDS Naturals, Sequences, SequencesExt

CONSTANTS
    Var,        \* the variables of main
    Sources,    \* the programs to optimise, a sequence of sets
    Oracles,    \* the ways conditions can turn out
    MaxCycles   \* the limit of the phase driver

Expr(reads, calls) == [reads |-> reads, calls |-> calls]
Called(id, args)   == [id |-> id, args |-> args]

Assign(id, x, e)  == [node |-> "assign", id |-> id, var |-> x, expr |-> e]
Return(id, e)     == [node |-> "return", id |-> id, expr |-> e]
CallStmt(c)       == [node |-> "call", id |-> c.id, expr |-> Expr({}, <<c>>)]
CallG             == [node |-> "callg", expr |-> Expr({}, <<>>)]
If(id, e, b, c)   == [node |-> "if", id |-> id, expr |-> e, block |-> b, else |-> c]
\* kind is one of Loops; of a for loop expr stands for its
\* bounds, and its own variable is left out
Loop(kind, id, e, b) == [node |-> kind, id |-> id, expr |-> e, block |-> b]

Program(main, g) == [main |-> main, g |-> g]

\* "once" is a do-while loop whose condition has become the constant false.
Loops == {"while", "for", "dowhile", "once"}

Reads(e) == e.reads \cup UNION {e.calls[k].args : k \in DOMAIN e.calls}

-----------------------------------------------------------------------------
(* Questions about a block                                                 *)

Blocks(s) == CASE s.node = "if" -> <<s.block, s.else>>
               [] s.node \in Loops -> <<s.block>>
               [] OTHER -> <<>>

\* A block and all blocks in it, as a set of statements
RECURSIVE Within(_)
Within(block) ==
    UNION {{block[k]} \cup UNION {Within(Blocks(block[k])[j]) : j \in DOMAIN Blocks(block[k])}
              : k \in DOMAIN block}

Exprs(block) == {s.expr : s \in Within(block)}

Assigned(block) == {s.var : s \in {t \in Within(block) : t.node = "assign"}}

\* check_fun_sideeffect: all variables of g are those of main
EffectG(g) == Assigned(g) # {} \/ \E e \in Exprs(g) : e.calls # <<>>

-----------------------------------------------------------------------------
(* The state of the traversal                                              *)

NoTable == [x \in {} |-> "none"]

\* use    usage_table, for the variables
\* calledG  whether the table says UC_USAGE for g
\* g      its body
\* effectG  the verdict on g in sideeffect_table, from the first question on
\* ifs, elses  if_usage_stmts and else_usage_stmts: usage before the branch
\* collect     which of the two is being filled
Start(g) ==
    [use |-> [x \in Var |-> "none"], calledG |-> FALSE, g |-> g, effectG |-> EffectG(g),
     ifs |-> NoTable, elses |-> NoTable, collect |-> "no",
     check |-> FALSE, return |-> FALSE, ok |-> TRUE, changed |-> FALSE]

\* OPT_DCEvar
Use(xs, st) == [st EXCEPT !.use = [x \in Var |-> IF x \in xs THEN "usage" ELSE @[x]]]

Set(table, x, v) == [y \in DOMAIN table \cup {x} |-> IF y = x THEN v ELSE table[y]]

\* mutant: an assigned variable is still used
ConsumeNot(x, st) ==
    [st EXCEPT !.ifs   = IF st.collect = "if" THEN Set(@, x, st.use[x]) ELSE @,
               !.elses = IF st.collect = "else" THEN Set(@, x, st.use[x]) ELSE @]

\* OPT_DCEassign: the variable is consumed, and noted for the branch
Consume(x, st) ==
    [st EXCEPT !.ifs   = IF st.collect = "if" THEN Set(@, x, st.use[x]) ELSE @,
               !.elses = IF st.collect = "else" THEN Set(@, x, st.use[x]) ELSE @,
               !.use   = [@ EXCEPT ![x] = "consumed"]]

\* mutant: what one branch has consumed stays consumed
RestoreNot(st) == st

\* UCrestore: variables that only one of the branches assigns to are set back
Restore(st) ==
    LET both   == DOMAIN st.ifs \cap DOMAIN st.elses
        one    == (DOMAIN st.ifs \cup DOMAIN st.elses) \ both
        was(x) == IF x \in DOMAIN st.ifs THEN st.ifs[x] ELSE st.elses[x]
    IN
    [st EXCEPT !.ok  = @ /\ \A x \in both : st.use[x] = "consumed",
               !.use = [x \in Var |-> IF x \notin one THEN @[x]
                                      ELSE IF was(x) = "none" THEN "consumed"
                                      ELSE was(x)]]

\* The tables of an enclosing statement, after those of an inner one
Outer(st, old) == [st EXCEPT !.ifs = old.ifs, !.elses = old.elses, !.collect = old.collect]

Inner(st) == [st EXCEPT !.ifs = NoTable, !.elses = NoTable, !.collect = "if"]

\* check_stmts_sideffect, "f" the function the block is in
HasEffect(block, f, st) ==
    \/ \E e \in Exprs(block) : e.calls # <<>>
    \/ f = "g" /\ Assigned(block) # {}
    \/ CallG \in Within(block) /\ st.effectG

\* has_consume
HasConsume(block, st) == \E x \in Assigned(block) : st.use[x] = "usage"

-----------------------------------------------------------------------------
(* The traversal of a block in function f, from its end.  Handled says of  *)
(* a statement whether it stays.                                           *)

Handled(keep, stmt, st) == [keep |-> keep, stmt |-> stmt, st |-> st]
Traversed(block, st)    == [block |-> block, st |-> st]

\* mutant: assignments always stay
NeverDropped(x, f, st) == FALSE

\* An assignment to a variable of another function is an effect.
Dropped(x, f, st) == st.use[x] # "usage" /\ f = "main"

\* What stays of a dropped statement: its calls with effects
Extracted(s) == [k \in DOMAIN s.expr.calls |-> CallStmt(s.expr.calls[k])]

RECURSIVE Traverse(_, _, _)

\* A call of g that stays: g is traversed at the first one that is met.
VisitG(st) ==
    IF st.calledG THEN st
    ELSE LET body == Traverse(st.g, "g", [st EXCEPT !.calledG = TRUE])
         IN  [body.st EXCEPT !.g = body.block]

\* What a loop reads may have been assigned in the iteration before: all
\* variables read in the block count as used (tag_usages).
Tagged(block, st) == Use(UNION {Reads(e) : e \in Exprs(block)}, st)

Matters(s, f, st) == HasEffect(s.block, f, st) \/ HasConsume(s.block, st)

Empty(s) == s.block = <<>> /\ s.expr.calls = <<>>

\* OPT_DCEifstatement
HandleIf(s, f, st) ==
    LET b    == Traverse(s.block, f, Inner(st))
        c    == Traverse(s.else, f, [Restore(b.st) EXCEPT !.collect = "else"])
        stmt == [s EXCEPT !.block = b.block, !.else = c.block]
        done == Outer(Restore(c.st), st)
    IN  IF b.block = <<>> /\ c.block = <<>> THEN Handled(FALSE, stmt, done)
        ELSE Handled(TRUE, stmt, Use(Reads(s.expr), done))

\* OPT_DCEwhileloop and OPT_DCEforloop
HandleLoop(s, f, st) ==
    LET carry  == Matters(s, f, st)
        before == IF carry /\ s.node = "while" THEN Use(Reads(s.expr), st) ELSE st
        b      == Traverse(s.block, f, IF carry THEN Tagged(s.block, Inner(before))
                                                ELSE Inner(before))
        stmt   == [s EXCEPT !.block = b.block]
        done   == Outer(Restore(b.st), st)
    IN  IF Empty(stmt) THEN Handled(FALSE, stmt, done)
        ELSE Handled(TRUE, stmt, Use(Reads(s.expr), done))

\* OPT_DCEdowhileloop: with a return in the block, the condition is taken to
\* be out of reach.
HandleDoWhile(s, f, st) ==
    LET before == IF Matters(s, f, st)
                  THEN Tagged(s.block, Use(Reads(s.expr), st)) ELSE st
        b      == Traverse(s.block, f, [before EXCEPT !.check = TRUE, !.return = FALSE])
        stmt   == [s EXCEPT !.block = b.block,
                            !.expr  = IF b.st.return THEN Expr({}, <<>>) ELSE @,
                            !.node  = IF b.st.return THEN "once" ELSE @]
        done   == [b.st EXCEPT !.check = st.check, !.return = st.return,
                               !.changed = @ \/ b.st.return]
    IN  IF Empty(stmt) THEN Handled(FALSE, stmt, done)
        ELSE Handled(TRUE, stmt, Use(Reads(stmt.expr), done))

Handle(s, f, st) ==
    CASE s.node = "assign" ->
            IF Dropped(s.var, f, st) THEN Handled(FALSE, s, st)
            ELSE Handled(TRUE, s, Use(Reads(s.expr), Consume(s.var, st)))
      [] s.node = "call"  -> Handled(TRUE, s, Use(Reads(s.expr), st))
      [] s.node = "callg" -> IF st.effectG THEN Handled(TRUE, s, VisitG(st))
                             ELSE Handled(FALSE, s, st)
      [] s.node = "if"    -> HandleIf(s, f, st)
      [] s.node \in {"while", "for"}    -> HandleLoop(s, f, st)
      [] s.node \in {"dowhile", "once"} -> HandleDoWhile(s, f, st)

\* OPT_DCEstatements: what follows a return is dropped; the others are
\* handled after what follows them.
Traverse(block, f, st) ==
    IF block = <<>> THEN Traversed(block, st)
    ELSE IF Head(block).node = "return"
    THEN Traversed(<<Head(block)>>,
                   [Use(Reads(Head(block).expr), st) EXCEPT !.return = @ \/ st.check])
    ELSE LET rest == Traverse(Tail(block), f, st)
             s    == Handle(Head(block), f, rest.st)
         IN  IF s.keep THEN Traversed(<<s.stmt>> \o rest.block, s.st)
             ELSE Traversed(Extracted(s.stmt) \o rest.block,
                            [Use(UNION {c.args : c \in Range(s.stmt.expr.calls)}, s.st) EXCEPT !.changed = TRUE])

-----------------------------------------------------------------------------
(* The cycle: BranchEvaluation, of which only the rule for loops that end  *)
(* after one iteration matters here, and DeadCodeElimination.              *)

\* OPT_BEdowhileloop: the block of such a loop moves behind it, and is not
\* traversed itself in this cycle (OPT_BEstatements splices it afterwards).
RECURSIVE Spliced(_)
Spliced(block) ==
    FlattenSeq([k \in DOMAIN block |->
        LET s == block[k] IN
        CASE s.node = "once" -> <<[s EXCEPT !.block = <<>>]>> \o s.block
          [] s.node = "if"   -> <<[s EXCEPT !.block = Spliced(@), !.else = Spliced(s.else)]>>
          [] s.node \in {"while", "for", "dowhile"} -> <<[s EXCEPT !.block = Spliced(@)]>>
          [] OTHER -> <<s>>])

VARIABLES
    source,     \* the program as written
    prog,       \* what has become of it
    changed,    \* whether the last cycle reported a change
    cycles,     \* cycle_iter of the phase driver
    ok          \* whether the asserts of UCrestore have held

vars == <<source, prog, changed, cycles, ok>>

Init ==
    /\ \E k \in DOMAIN Sources : source \in Sources[k]
    /\ prog = source /\ changed = TRUE /\ cycles = 0 /\ ok = TRUE

\* mutant: reports a change if there is no g to drop, too
LocalFunDefsNotifies(st) ==
    IF st.calledG THEN LET body == Traverse(st.g, "g", st)
                       IN  [body.st EXCEPT !.g = body.block]
    ELSE [st EXCEPT !.g = <<>>, !.changed = TRUE]

\* OPT_DCElocalfundefs of main: g goes if nobody has called it, and is
\* traversed once more if it stays.
LocalFunDefs(st) ==
    IF st.calledG THEN LET body == Traverse(st.g, "g", st)
                       IN  [body.st EXCEPT !.g = body.block]
    ELSE [st EXCEPT !.g = <<>>, !.changed = @ \/ st.g # <<>>]

\* OPT_DCEprogram
Eliminate ==
    LET before == Program(Spliced(prog.main), Spliced(prog.g)) IN
    /\ ok /\ changed /\ cycles < MaxCycles
    /\ \E main \in {Traverse(before.main, "main", Start(before.g))} :
       \E st \in {LocalFunDefs(main.st)} :
          /\ prog' = Program(main.block, st.g)
          /\ changed' = (st.changed \/ before # prog)
          /\ ok' = st.ok
    /\ cycles' = cycles + 1
    /\ UNCHANGED source

AtRest == ~changed

Terminated == (~ok \/ AtRest \/ cycles = MaxCycles) /\ UNCHANGED vars

Next == Eliminate \/ Terminated

Spec == Init /\ [][Next]_vars

-----------------------------------------------------------------------------
(* What a program does.  A value is the assignment that made it, with the  *)
(* values this one has read.  The trace is the calls with effects, the     *)
(* returns and the conditions, each with the values it reads.              *)

Machine == [env |-> [x \in Var |-> <<x>>], trace |-> <<>>, seen |-> <<>>, stop |-> FALSE]

Event(id, xs, m) ==
    [m EXCEPT !.trace = Append(@, <<id, [x \in xs |-> m.env[x]]>>)]

Eval(e, m) == FoldLeft(LAMBDA n, c : Event(c.id, c.args, n), m, e.calls)

\* How often the condition id has been decided
Seen(id, m) == IF id \in DOMAIN m.seen THEN m.seen[id] ELSE 0

\* An oracle gives each condition a number: of a loop its iterations, of an
\* if the branches it takes in turns.
Takes(o, id, m) == (o[id] \div (1 + (Seen(id, m) % 2))) % 2 = 1

RECURSIVE Exec(_, _, _, _)
RECURSIVE Iterate(_, _, _, _, _)

\* n more iterations, the condition before or after each
Iterate(s, n, g, o, m) ==
    IF m.stop \/ n = 0 THEN m
    ELSE LET b == Exec(s.block, g, o, m)
             c == IF b.stop \/ s.node \in {"for", "once"} THEN b
                  ELSE Event(s.id, s.expr.reads, Eval(s.expr, b))
         IN  Iterate(s, n - 1, g, o, c)

Step(s, g, o, m) ==
    IF s.node = "callg" THEN [Exec(g, g, o, m) EXCEPT !.stop = FALSE]
    ELSE LET e == Eval(s.expr, m)
             c == Event(s.id, s.expr.reads, e)
    IN
    CASE s.node = "assign" ->
            [e EXCEPT !.env = [@ EXCEPT ![s.var] = <<s.id, [x \in s.expr.reads |-> m.env[x]]>>]]
      [] s.node = "call"   -> e
      [] s.node = "return" -> [c EXCEPT !.stop = TRUE]
      [] s.node = "if"     ->
            Exec(IF Takes(o, s.id, c) THEN s.block ELSE s.else, g, o,
                 [c EXCEPT !.seen = Set(@, s.id, Seen(s.id, c) + 1)])
      [] s.node \in {"while", "for"} -> Iterate(s, o[s.id] % 3, g, o, c)
      [] s.node = "dowhile" -> Iterate(s, 1 + (o[s.id] % 2), g, o, m)
      [] s.node = "once"    -> Iterate(s, 1, g, o, m)

Exec(block, g, o, m) ==
    IF block = <<>> \/ m.stop THEN m
    ELSE Exec(Tail(block), g, o, Step(Head(block), g, o, m))

Trace(p, o) == Exec(p.main, p.g, o, Machine).trace

Conditions(p) == {s.id : s \in {t \in Within(p.main) \cup Within(p.g) :
                                   t.node \in {"if", "while", "for", "dowhile"}}}

-----------------------------------------------------------------------------
(* Properties                                                              *)

\* All that can be observed stays: the calls with effects and the returned
\* values, in their order and with their arguments; and the conditions that
\* are still there decide on the same values.
EffectsKept ==
    ok => \A o \in Oracles :
        LET gone == Conditions(source) \ Conditions(prog) IN
        Trace(prog, o) = SelectSeq(Trace(source, o), LAMBDA ev : ev[1] \notin gone)

\* What both branches have consumed is consumed (release_assert in
\* UCrestore): the usages noted for the branches fit together.
AssertsHold == ok

\* At rest no variable is assigned that is read nowhere.
NothingUnread ==
    AtRest => Assigned(prog.main) \subseteq
                 UNION {Reads(e) : e \in Exprs(prog.main) \cup Exprs(prog.g)}

\* The pass does not go on for ever.
Settles == cycles = MaxCycles => AtRest
=============================================================================
