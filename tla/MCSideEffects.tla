---------------------------- MODULE MCSideEffects ----------------------------
(***************************************************************************)
(* Three functions that call each other in every way, in bodies of up to   *)
(* two statements.                                                         *)
(***************************************************************************)
EXTENDS SideEffects

CONSTANTS f1, f2, f3, putc

MCFun == {f1, f2, f3}
MCExtern == {putc}

C(c)    == [calls |-> <<c>>, unseen |-> {}, write |-> "local"]
W(w)    == [calls |-> <<>>, unseen |-> {}, write |-> w]

Call == {C(f1), C(f2), C(f3)}

\* A statement with more than one call, and a call in an argument
Mixed == [calls |-> <<f2, putc>>, unseen |-> {f3}, write |-> "local"]

\* An assignment with two calls
Assigning == [calls |-> <<f1, f2>>, unseen |-> {}, write |-> "outer"]

SmallBodies ==
    {<<>>, <<W("outer")>>}
    \cup {<<s>> : s \in Call}
    \cup {bd \in Call \X (Call \cup {W("outer")}) : bd[1] # bd[2]}

\* All call graphs, with writes to outer variables.  The functions are alike:
\* statements of several calls are tried in one of them.
AllGraphs ==
    {b \in [MCFun -> SmallBodies \cup {<<Mixed>>, <<Assigning, C(f3)>>}] :
        b[f2] \in SmallBodies /\ b[f3] \in SmallBodies}

\* Functions that write to arrays they do not own
ArrayWriters == [MCFun -> {<<>>, <<W("array")>>, <<C(f1)>>}]
=============================================================================
