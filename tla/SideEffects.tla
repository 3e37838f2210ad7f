----------------------------- MODULE SideEffects -----------------------------
(***************************************************************************)
(* check_fun_sideeffect, check_stmt_sideeffect and check_expr_sideeffect   *)
(* of utils.h: the recursive analysis by which AlgebraicSimplification and *)
(* DeadCodeElimination decide that a call may be dropped.  One table per   *)
(* pass remembers the verdict on each function, and marks the functions    *)
(* that are being checked, so that recursion in the program ends.          *)
(*                                                                         *)
(* A statement is the calls in its expressions, in the order in which they *)
(* are checked, the calls nobody looks at (in arguments of other calls and *)
(* in the indices of an assigned element), and what it writes.  The blocks *)
(* of a compound statement are the statements that follow it.              *)
(***************************************************************************)
EXTENDS Naturals, Sequences, FiniteSets

CONSTANTS
    Fun,        \* the FunDef nodes
    Extern,     \* the FunDec nodes
    NoFun,      \* of a frame that checks a statement, not a function
    Bodies      \* the programs: bodies for all functions

Write == {"local", "outer", "array"}    \* "array": an element of an array
                                        \* that is a parameter or not local
Stmt == [calls : Seq(Fun \cup Extern), unseen : SUBSET (Fun \cup Extern),
         write : Write]

ASSUME FunAssumption ==
    /\ IsFiniteSet(Fun) /\ Fun \cap Extern = {} /\ NoFun \notin Fun
    /\ Bodies \subseteq [Fun -> Seq(Stmt)]

\* enum sideeffect: a larger value includes the bits of a smaller one.
NULL       == 0
NO         == 1
PROCESSING == 3
YES        == 7

\* mutant: the bits are added
OrAdds(e1, e2) == e1 + e2

Or(e1, e2) == IF e1 >= e2 THEN e1 ELSE e2

VARIABLES
    body,       \* the program
    memo,       \* sideeffect_table, NULL where it has no entry
    stack,      \* the calls of check_fun_sideeffect that are open, innermost
                \* last; the first may be a check of a single statement
    asked,      \* what the pass asked: a function, and its statement, or 0
    answer      \* the last answer, NULL before it

vars == <<body, memo, stack, asked, answer>>

Init ==
    /\ body \in Bodies
    /\ memo = [f \in Fun |-> NULL]
    /\ stack = <<>>
    /\ asked = <<NoFun, 0>> /\ answer = NULL

\* "symbols" is the function whose table symbols are looked up in.
Frame(f, symbols, stmts) ==
    [fun |-> f, symbols |-> symbols, stmts |-> stmts, call |-> 0, effect |-> NO]

Top == stack[Len(stack)]
Below == SubSeq(stack, 1, Len(stack) - 1)
Push(frame) == Append(stack, frame)
SetTop(frame) == [stack EXCEPT ![Len(stack)] = frame]

-----------------------------------------------------------------------------
(* What a pass asks.                                                       *)

\* mutant: the table is not consulted
AskFunAgain(f) ==
    /\ stack = <<>>
    /\ asked' = <<f, 0>> /\ answer' = NULL
    /\ memo' = [memo EXCEPT ![f] = PROCESSING]
    /\ stack' = Push(Frame(f, f, body[f]))
    /\ UNCHANGED body

\* check_fun_sideeffect(f)
AskFun(f) ==
    /\ stack = <<>>
    /\ asked' = <<f, 0>>
    /\ IF memo[f] # NULL
       THEN /\ answer' = memo[f]
            /\ UNCHANGED <<memo, stack>>
       ELSE /\ answer' = NULL
            /\ memo' = [memo EXCEPT ![f] = PROCESSING]
            /\ stack' = Push(Frame(f, f, body[f]))
    /\ UNCHANGED body

\* check_stmt_sideeffect, or check_expr_sideeffect, in function f
AskStmt(f, i) ==
    /\ stack = <<>>
    /\ asked' = <<f, i>> /\ answer' = NULL
    /\ stack' = Push(Frame(NoFun, f, <<body[f][i]>>))
    /\ UNCHANGED <<body, memo>>

-----------------------------------------------------------------------------
(* The check itself: one call after the other.                             *)

Checking == stack # <<>> /\ Top.stmts # <<>>

AtCall(c) ==
    /\ Checking
    /\ Top.call < Len(Head(Top.stmts).calls)
    /\ c = Head(Top.stmts).calls[Top.call + 1]

Merge(effect) ==
    stack' = SetTop([Top EXCEPT !.effect = Or(@, effect), !.call = @ + 1])

\* Nothing is known of an extern function.
CallExtern(c) ==
    /\ c \in Extern /\ AtCall(c)
    /\ Merge(YES)
    /\ UNCHANGED <<body, memo, asked, answer>>

\* mutants: recursion like any open call, and any open call like recursion
IsSelfNever(c) == FALSE
IsSelfAny(c) == memo[c] = PROCESSING

\* A function that calls itself: the rest of it is being checked.
IsSelf(c) == memo[c] = PROCESSING /\ c = Top.symbols

\* mutant: recursion is an effect
CallSelfPessimistic(c) ==
    /\ c \in Fun /\ AtCall(c) /\ IsSelf(c)
    /\ Merge(YES)
    /\ UNCHANGED <<body, memo, asked, answer>>

CallSelf(c) ==
    /\ c \in Fun /\ AtCall(c) /\ IsSelf(c)
    /\ Merge(NO)
    /\ UNCHANGED <<body, memo, asked, answer>>

CallKnown(c) ==
    /\ c \in Fun /\ AtCall(c) /\ memo[c] # NULL /\ ~IsSelf(c)
    /\ Merge(memo[c])
    /\ UNCHANGED <<body, memo, asked, answer>>

\* mutant: the function is not marked
CallNewUnmarked(c) ==
    /\ c \in Fun /\ AtCall(c) /\ memo[c] = NULL
    /\ stack' = Push(Frame(c, c, body[c]))
    /\ UNCHANGED <<body, memo, asked, answer>>

CallNew(c) ==
    /\ c \in Fun /\ AtCall(c) /\ memo[c] = NULL
    /\ memo' = [memo EXCEPT ![c] = PROCESSING]
    /\ stack' = Push(Frame(c, c, body[c]))
    /\ UNCHANGED <<body, asked, answer>>

\* After the calls of a statement: an assignment to a variable of another
\* function or a global is an effect, of one to an array element the code
\* checks the value alone.  The first effect ends the loop over a block, so
\* some of the statements that follow are left out: all of them, or the rest
\* of a block before an else block.
Later(stmts) == {SubSeq(stmts, k, Len(stmts)) : k \in 2..(Len(stmts) + 1)}

StmtEnd ==
    LET effect == IF Head(Top.stmts).write = "outer" THEN YES ELSE Top.effect IN
    /\ Checking /\ Top.call = Len(Head(Top.stmts).calls)
    /\ \E rest \in Later(Top.stmts) :
          /\ effect # YES => rest = Tail(Top.stmts)
          /\ stack' = SetTop([Top EXCEPT
                          !.effect = effect, !.call = 0, !.stmts = rest])
    /\ UNCHANGED <<body, memo, asked, answer>>

\* mutant: a call whose callee was forgotten is checked again
ReturnRetries ==
    /\ stack # <<>> /\ Top.stmts = <<>> /\ Top.fun \in Fun /\ Below # <<>>
    /\ LET open   == Top.effect = PROCESSING
           caller == Below[Len(Below)]
       IN
       /\ memo' = [memo EXCEPT ![Top.fun] = IF open THEN NULL ELSE Top.effect]
       /\ stack' = [Below EXCEPT ![Len(Below)] =
             IF open THEN caller
             ELSE [caller EXCEPT !.effect = Or(@, Top.effect), !.call = @ + 1]]
    /\ UNCHANGED <<body, asked, answer>>

\* The end of check_fun_sideeffect, and what its caller makes of the result:
\* a function found to depend on one that is still being checked is
\* forgotten, and counts as free of effects.
Return ==
    /\ stack # <<>> /\ Top.stmts = <<>> /\ Top.fun \in Fun
    /\ IF Below = <<>>
       THEN /\ answer' = Top.effect
            /\ memo' = [memo EXCEPT ![Top.fun] = Top.effect]
            /\ stack' = Below
       ELSE LET open   == Top.effect = PROCESSING
                caller == Below[Len(Below)]
            IN
            /\ memo' = [memo EXCEPT ![Top.fun] = IF open THEN NULL ELSE Top.effect]
            /\ stack' = [Below EXCEPT ![Len(Below)] =
                  [caller EXCEPT !.effect = Or(@, IF open THEN NO ELSE Top.effect),
                                 !.call = @ + 1]]
            /\ UNCHANGED answer
    /\ UNCHANGED <<body, asked>>

\* The end of a check of a single statement
ReturnStmt ==
    /\ stack # <<>> /\ Top.stmts = <<>> /\ Top.fun = NoFun
    /\ answer' = Top.effect
    /\ stack' = Below
    /\ UNCHANGED <<body, memo, asked>>

Check ==
    \/ \E c \in Fun \cup Extern :
          CallExtern(c) \/ CallSelf(c) \/ CallKnown(c) \/ CallNew(c)
    \/ StmtEnd \/ Return \/ ReturnStmt

Next ==
    \/ \E f \in Fun : AskFun(f) \/ \E i \in DOMAIN body[f] : AskStmt(f, i)
    \/ Check

Spec == Init /\ [][Next]_vars

FairSpec == Spec /\ WF_vars(Check)

-----------------------------------------------------------------------------
(* What it means for a call to matter: it writes outside of the function,  *)
(* or calls, however deep, a function that does or that is extern.         *)

Seen(stmt) == {stmt.calls[k] : k \in DOMAIN stmt.calls}

Callees(stmt) == Seen(stmt) \cup stmt.unseen

Direct(stmt) == stmt.write # "local" \/ Callees(stmt) \cap Extern # {}

\* The functions with effects are the least set closed under calls.
Closed(S) ==
    \A f \in Fun : \A i \in DOMAIN body[f] :
        Direct(body[f][i]) \/ Callees(body[f][i]) \cap S # {} => f \in S

Effectful(f) == \A S \in SUBSET Fun : Closed(S) => f \in S

StmtEffectful(stmt) ==
    Direct(stmt) \/ \E f \in Callees(stmt) \cap Fun : Effectful(f)

AskedEffectful ==
    IF asked[2] = 0 THEN Effectful(asked[1])
                    ELSE StmtEffectful(body[asked[1]][asked[2]])

\* Recursion through more than two functions of program b
Calls(b, f, g) == \E i \in DOMAIN b[f] : g \in Callees(b[f][i])

LongCycle(b) ==
    \E n \in 3..Cardinality(Fun) : \E cycle \in [1..n -> Fun] :
        /\ \A j, k \in 1..n : cycle[j] = cycle[k] => j = k
        /\ \A j \in 1..(n - 1) : Calls(b, cycle[j], cycle[j + 1])
        /\ Calls(b, cycle[n], cycle[1])

\* A statement has an effect that is not looked for, or may have it through a
\* call that is not looked at, and has no other.
Overlooked(stmt) ==
    /\ stmt.write # "outer" /\ Seen(stmt) \cap Extern = {}
    /\ stmt.write = "array" \/ ~(stmt.unseen \subseteq Seen(stmt))

Overlooks(b) == \E f \in Fun : \E i \in DOMAIN b[f] : Overlooked(b[f][i])

-----------------------------------------------------------------------------
(* Properties                                                              *)

Effect == {NO, PROCESSING, YES}

FrameType == [fun : Fun \cup {NoFun}, symbols : Fun, stmts : Seq(Stmt),
              call : Nat, effect : Effect]

TypeOK ==
    /\ body \in [Fun -> Seq(Stmt)]
    /\ memo \in [Fun -> Effect \cup {NULL}]
    /\ stack \in Seq(FrameType)
    /\ asked \in (Fun \cup {NoFun}) \X Nat
    /\ answer \in Effect \cup {NULL}

\* Between two questions nothing is half done: the answer is NO or YES, as
\* the passes assert, and no function is left marked as being checked.
AnswersDefinite ==
    stack = <<>> => /\ answer # PROCESSING
                    /\ \A f \in Fun : memo[f] # PROCESSING

\* A function is marked exactly while its check is open, and is open once.
MarksMatchStack ==
    /\ \A f \in Fun : memo[f] = PROCESSING <=>
                         \E k \in DOMAIN stack : stack[k].fun = f
    /\ \A k, l \in DOMAIN stack :
          stack[k].fun = stack[l].fun /\ stack[k].fun # NoFun => k = l

\* YES is never said of a function without effects: calls that can be
\* dropped are.
YesMeansEffect ==
    /\ \A f \in Fun : memo[f] = YES => Effectful(f)
    /\ stack = <<>> /\ answer = YES => AskedEffectful

\* NO is never said of a function with effects: no call that matters is
\* dropped.
NoMeansNone ==
    /\ \A f \in Fun : memo[f] = NO => ~Effectful(f)
    /\ stack = <<>> /\ answer = NO => ~AskedEffectful

\* Where recursion goes through at most two functions, and the analysis sees
\* what there is, NO is right: all that was assumed of an open function is
\* checked further up (utils.h:424).
NoMeansNoneInShortCycles == NoMeansNone \/ LongCycle(body) \/ Overlooks(body)

\* A verdict in the table is final.
VerdictsFinal ==
    [][\A f \in Fun : memo[f] \in {NO, YES} => memo'[f] = memo[f]]_vars

\* Recursion in the program does not make the check run for ever.
ChecksEnd == (stack # <<>>) ~> (stack = <<>>)
=============================================================================
