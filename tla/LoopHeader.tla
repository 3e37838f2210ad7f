----------------------------- MODULE LoopHeader -----------------------------
(***************************************************************************)
(* The head of a for loop: its bounds, and how the program writes them.    *)
(***************************************************************************)
EXTENDS Integers, Sequences

CONSTANT Loops      \* the loops

\* "none" is a loop without a step; "known" says that the optimiser runs and
\* has found numbers for all three bounds.  A step that is a variable puts
\* stop into one too (CGP_AAforloop).
Loop == [start : Int, stop : Int, step : Int \ {0},
         stopForm : {"number", "variable"},
         stepForm : {"none", "number", "variable"},
         known : BOOLEAN]

ASSUME LoopAssumption ==
    /\ Loops \subseteq Loop
    /\ \A l \in Loops : /\ l.stepForm = "none" => l.step = 1
                        /\ l.stepForm = "variable" => l.stopForm = "variable"

\* Whether a loop goes on with this value of its variable
Continues(l, value) == IF l.step > 0 THEN value < l.stop ELSE value > l.stop
=============================================================================
