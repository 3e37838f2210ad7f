------------------------------- MODULE ForLoop -------------------------------
(***************************************************************************)
(* What a for loop of CiviC means: the body runs with start, start + step, *)
(* and so on, as long as that has not reached stop.                        *)
(***************************************************************************)
EXTENDS LoopHeader

VARIABLES
    loop,   \* the loop
    ran,    \* the values of the loop variable its body has run with
    over    \* whether the loop has ended

loopVars == <<loop, ran, over>>

Value == loop.start + Len(ran) * loop.step

LoopInit == loop \in Loops /\ ran = <<>> /\ over = FALSE

Run ==
    /\ ~over /\ Continues(loop, Value)
    /\ ran' = Append(ran, Value)
    /\ UNCHANGED <<loop, over>>

End ==
    /\ ~over /\ ~Continues(loop, Value)
    /\ over' = TRUE
    /\ UNCHANGED <<loop, ran>>

LoopNext == Run \/ End

\* What may happen, without the promise that the loop ends
LoopSafety == LoopInit /\ [][LoopNext]_loopVars

LoopSpec == LoopSafety /\ WF_loopVars(LoopNext)
=============================================================================
