---------------------------- MODULE LexicalScope ----------------------------
(***************************************************************************)
(* What the semantic analysis promises of names: whatever the order in     *)
(* which it walks the program, each use gets, once, the declaration the    *)
(* scoping rules of the language give it, or the verdict that there is     *)
(* none.                                                                   *)
(***************************************************************************)
EXTENDS ScopeProgram

VARIABLES prog, answer

lexVars == <<prog, answer>>

LexInit == /\ WellFormed(prog)
           /\ answer = <<>>

Answer(u) == /\ u \notin DOMAIN answer
             /\ answer' = [v \in DOMAIN answer \cup {u} |->
                              IF v = u THEN Meaning(prog, u) ELSE answer[v]]
             /\ UNCHANGED prog

LexNext == \E u \in UseIds(prog) : Answer(u)

LexSafety == LexInit /\ [][LexNext]_lexVars

LexSpec == LexSafety /\ WF_lexVars(LexNext)
=============================================================================
