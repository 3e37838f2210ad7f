---------------------------- MODULE MCForLoopCode ----------------------------
(***************************************************************************)
(* Loops over a few bounds, up and down, that run from never to six times. *)
(***************************************************************************)
EXTENDS ForLoopCode

Bounds == -3..3

NumberSteps == [start : Bounds, stop : Bounds, step : Bounds \ {0},
                stopForm : {"number", "variable"}, stepForm : {"number"},
                known : {FALSE}]

NoSteps == {[l EXCEPT !.stepForm = "none"] : l \in {k \in NumberSteps : k.step = 1}}

VariableSteps ==
    {[l EXCEPT !.stepForm = "variable"] :
        l \in {k \in NumberSteps : k.stopForm = "variable"}}

Known(S) == {[l EXCEPT !.known = TRUE] : l \in S}

\* All numbers as steps, variables that are 1 or -1, and of the loops whose
\* block the optimiser judges those that it keeps or that never run
MCLoops ==
    NumberSteps \cup NoSteps
    \cup {l \in VariableSteps : l.step \in {1, -1}}
    \cup {l \in Known(NumberSteps) : DropsBlock(l) => ~Continues(l, l.start)}

\* All loops the optimiser judges
KnownLoops == Known(NumberSteps \cup NoSteps)

\* All loops with a variable as step
CountedLoops == VariableSteps
=============================================================================
