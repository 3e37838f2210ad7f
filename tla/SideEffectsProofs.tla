-------------------------- MODULE SideEffectsProofs --------------------------
(***************************************************************************)
(* Proofs about SideEffects, for all programs, recursion of every kind     *)
(* included: type correctness, that the passes get a definite answer, that *)
(* YES is only said of what has an effect, and, where no recursion goes    *)
(* through more than two functions and the analysis overlooks nothing,     *)
(* that NO is only said of what has none.                                  *)
(***************************************************************************)
EXTENDS SideEffects, SequenceTheorems, FiniteSetTheorems, TLAPS

\* The stack and the table, as far as answers depend on them: only the first
\* frame may check a statement; a function is looked up in its own table; the
\* functions marked in the table are those of the stack, each once; and the
\* first frame never depends on a function that is still being checked,
\* because the only one is itself.
Shape ==
    /\ \A k \in DOMAIN stack : k > 1 => stack[k].fun \in Fun
    /\ \A k \in DOMAIN stack : stack[k].fun \in Fun => stack[k].symbols = stack[k].fun

Definite ==
    /\ answer # PROCESSING
    /\ 1 \in DOMAIN stack => stack[1].effect # PROCESSING

Inv == TypeOK /\ Shape /\ MarksMatchStack /\ Definite

\* What the operators on the stack do.
LEMMA TopOfStack ==
    ASSUME NEW S, stack \in Seq(S), stack # <<>>
    PROVE  /\ Len(stack) \in Nat \ {0} /\ DOMAIN stack = 1..Len(stack)
           /\ Top \in S /\ Top = stack[Len(stack)]
  BY ElementOfSeq DEF Top

LEMMA Pushed ==
    ASSUME NEW S, stack \in Seq(S), NEW frame \in S
    PROVE  /\ Push(frame) \in Seq(S)
           /\ Len(Push(frame)) = Len(stack) + 1
           /\ Push(frame)[Len(stack) + 1] = frame
           /\ \A k \in 1..Len(stack) : Push(frame)[k] = stack[k]
  BY AppendProperties DEF Push

LEMMA TopSet ==
    ASSUME NEW S, stack \in Seq(S), stack # <<>>, NEW frame \in S
    PROVE  /\ SetTop(frame) \in Seq(S)
           /\ Len(SetTop(frame)) = Len(stack)
           /\ SetTop(frame)[Len(stack)] = frame
           /\ \A k \in 1..Len(stack) : k # Len(stack) => SetTop(frame)[k] = stack[k]
  BY TopOfStack, ExceptSeq DEF SetTop

LEMMA Popped ==
    ASSUME NEW S, stack \in Seq(S), stack # <<>>
    PROVE  /\ Below \in Seq(S)
           /\ Len(Below) = Len(stack) - 1
           /\ Below = <<>> <=> Len(stack) = 1
           /\ \A k \in 1..(Len(stack) - 1) : Below[k] = stack[k]
  <1>1. Len(stack) \in Nat \ {0}
    BY TopOfStack
  <1>2. /\ Below \in Seq(S) /\ Len(Below) = Len(stack) - 1
        /\ \A k \in 1..(Len(stack) - 1) : Below[k] = stack[k]
    <2> DEFINE m == Len(stack) - 1
    <2>1. m \in Nat /\ \A k \in 1..m : stack[k] \in S
      BY <1>1, ElementOfSeq
    <2>2. /\ SubSeq(stack, 1, m) \in Seq(S)
          /\ Len(SubSeq(stack, 1, m)) = IF 1 <= m THEN m - 1 + 1 ELSE 0
          /\ \A k \in 1..(m - 1 + 1) : SubSeq(stack, 1, m)[k] = stack[1 + k - 1]
      <3> HIDE DEF m
      <3> QED
        BY <2>1, SubSeqProperties
    <2>3. /\ Len(SubSeq(stack, 1, m)) = m
          /\ \A k \in 1..m : SubSeq(stack, 1, m)[k] = stack[k]
      <3> HIDE DEF m
      <3> QED
        BY <2>1, <2>2
    <2> QED
      BY <2>2, <2>3 DEF Below
  <1>3. Below = <<>> <=> Len(Below) = 0
    BY <1>2
  <1> QED
    BY <1>1, <1>2, <1>3

LEMMA Effects ==
    /\ \A e1, e2 \in Effect :
          /\ Or(e1, e2) \in Effect
          /\ e1 # PROCESSING /\ e2 # PROCESSING => Or(e1, e2) # PROCESSING
          /\ Or(e1, e2) = YES => e1 = YES \/ e2 = YES
    /\ NULL \notin Effect /\ NO # PROCESSING /\ YES # PROCESSING /\ NO # YES
    /\ YES \in Effect /\ NO \in Effect /\ PROCESSING \in Effect
  BY DEF Effect, Or, NULL, NO, PROCESSING, YES

LEMMA InitInv == Init => Inv
  <1> SUFFICES ASSUME Init PROVE Inv
    OBVIOUS
  <1>1. TypeOK
    BY FunAssumption DEF Init, TypeOK, NULL
  <1>2. Shape /\ MarksMatchStack /\ Definite
    BY DEF Init, Shape, MarksMatchStack, Definite, NULL, PROCESSING
  <1> QED
    BY <1>1, <1>2 DEF Inv

\* A step of the innermost check that calls nothing new: its frame moves on.
LEMMA FrameMoves ==
    ASSUME Inv, stack # <<>>, NEW frame \in FrameType,
           frame.fun = Top.fun, frame.symbols = Top.symbols,
           stack' = SetTop(frame),
           Len(stack) = 1 => frame.effect # PROCESSING,
           UNCHANGED <<body, memo, asked, answer>>
    PROVE  Inv'
  <1>1. stack \in Seq(FrameType)
    BY DEF Inv, TypeOK
  <1>2. /\ Len(stack) \in Nat \ {0} /\ DOMAIN stack = 1..Len(stack)
        /\ Top = stack[Len(stack)]
    BY <1>1, TopOfStack
  <1>3. /\ stack' \in Seq(FrameType) /\ DOMAIN stack' = 1..Len(stack)
        /\ stack'[Len(stack)] = frame
        /\ \A k \in 1..Len(stack) : k # Len(stack) => stack'[k] = stack[k]
    <2>1. /\ SetTop(frame) \in Seq(FrameType)
          /\ Len(SetTop(frame)) = Len(stack)
          /\ SetTop(frame)[Len(stack)] = frame
          /\ \A k \in 1..Len(stack) : k # Len(stack) => SetTop(frame)[k] = stack[k]
      BY <1>1, TopSet
    <2>2. DOMAIN SetTop(frame) = 1..Len(stack)
      BY <2>1, LenProperties
    <2> QED
      BY <2>1, <2>2
  <1>4. \A k \in 1..Len(stack) : /\ stack'[k].fun = stack[k].fun
                                 /\ stack'[k].symbols = stack[k].symbols
    BY <1>2, <1>3
  <1>5. TypeOK'
    BY <1>3 DEF Inv, TypeOK
  <1>6. Shape'
    BY <1>2, <1>3, <1>4 DEF Inv, Shape
  <1>7. MarksMatchStack'
    <2>1. \A f \in Fun : memo'[f] = PROCESSING <=>
                            \E k \in DOMAIN stack' : stack'[k].fun = f
      <3> SUFFICES ASSUME NEW f \in Fun
                   PROVE  memo[f] = PROCESSING <=>
                             \E k \in 1..Len(stack) : stack'[k].fun = f
        BY <1>3
      <3> QED
        BY <1>2, <1>4 DEF Inv, MarksMatchStack
    <2>2. \A k, l \in DOMAIN stack' :
             stack'[k].fun = stack'[l].fun /\ stack'[k].fun # NoFun => k = l
      BY <1>2, <1>3, <1>4, ZenonT(40) DEF Inv, MarksMatchStack
    <2> QED
      BY <2>1, <2>2 DEF MarksMatchStack
  <1>8. Definite'
    BY <1>2, <1>3 DEF Inv, Definite
  <1> QED
    BY <1>5, <1>6, <1>7, <1>8 DEF Inv

\* The check of a function that has no entry in the table is opened.
LEMMA FrameOpens ==
    ASSUME Inv, NEW f \in Fun, memo[f] = NULL,
           memo' = [memo EXCEPT ![f] = PROCESSING],
           stack' = Push(Frame(f, f, body[f])),
           UNCHANGED body, asked' \in (Fun \cup {NoFun}) \X Nat,
           answer' \in Effect \cup {NULL}, answer' # PROCESSING
    PROVE  Inv'
  <1> DEFINE n == Len(stack)
             frame == Frame(f, f, body[f])
  <1>1. stack \in Seq(FrameType) /\ n \in Nat /\ DOMAIN stack = 1..n
    BY DEF Inv, TypeOK
  <1>2. frame \in FrameType /\ frame.fun = f /\ frame.symbols = f /\ frame.effect = NO
    BY Effects DEF Inv, TypeOK, Frame, FrameType
  <1>3. /\ stack' \in Seq(FrameType) /\ DOMAIN stack' = 1..(n + 1)
        /\ stack'[n + 1] = frame
        /\ \A k \in 1..n : stack'[k] = stack[k]
    BY <1>1, <1>2, Pushed
  <1>4. \A k \in 1..n : stack[k].fun # f
    BY <1>1 DEF Inv, MarksMatchStack, NULL, PROCESSING
  <1>5. \A g \in Fun : memo'[g] = IF g = f THEN PROCESSING ELSE memo[g]
    BY DEF Inv, TypeOK
  <1>6. TypeOK'
    BY <1>3, Effects DEF Inv, TypeOK
  <1>7. Shape'
    BY <1>1, <1>2, <1>3, SMTT(30) DEF Inv, Shape
  <1>8. MarksMatchStack'
    <2>1. ASSUME NEW g \in Fun
          PROVE  memo'[g] = PROCESSING <=> \E k \in DOMAIN stack' : stack'[k].fun = g
      <3>1. CASE g = f
        BY <1>2, <1>3, <1>1, <1>5, <3>1
      <3>2. CASE g # f
        BY <1>1, <1>2, <1>3, <1>5, <3>2, SMTT(30) DEF Inv, MarksMatchStack
      <3> QED
        BY <3>1, <3>2
    <2>2. ASSUME NEW k \in DOMAIN stack', NEW l \in DOMAIN stack',
                 stack'[k].fun = stack'[l].fun, stack'[k].fun # NoFun
          PROVE  k = l
      BY <1>1, <1>2, <1>3, <1>4, <2>2 DEF Inv, MarksMatchStack
    <2> QED
      BY <2>1, <2>2 DEF MarksMatchStack
  <1>9. Definite'
    BY <1>1, <1>2, <1>3, Effects DEF Inv, Definite
  <1> QED
    BY <1>6, <1>7, <1>8, <1>9 DEF Inv

\* What is known of the frame on top.
LEMMA TopFrame ==
    ASSUME Inv, stack # <<>>
    PROVE  /\ stack \in Seq(FrameType) /\ Top \in FrameType
           /\ Len(stack) \in Nat \ {0} /\ DOMAIN stack = 1..Len(stack)
           /\ Top = stack[Len(stack)]
           /\ Top.call \in Nat /\ Top.effect \in Effect /\ Top.stmts \in Seq(Stmt)
           /\ Len(stack) = 1 => Top.effect # PROCESSING
  <1>1. stack \in Seq(FrameType)
    BY DEF Inv, TypeOK
  <1>2. /\ Top \in FrameType /\ Len(stack) \in Nat \ {0}
        /\ DOMAIN stack = 1..Len(stack) /\ Top = stack[Len(stack)]
    BY <1>1, TopOfStack
  <1>3. Top.call \in Nat /\ Top.effect \in Effect /\ Top.stmts \in Seq(Stmt)
    BY <1>2 DEF FrameType
  <1>4. Len(stack) = 1 => Top.effect # PROCESSING
    BY <1>2 DEF Inv, Definite
  <1> QED
    BY <1>1, <1>2, <1>3, <1>4

LEMMA FrameMerged ==
    ASSUME NEW old \in FrameType, NEW effect \in Effect
    PROVE  LET new == [old EXCEPT !.effect = Or(@, effect), !.call = @ + 1]
           IN  /\ new \in FrameType /\ new.effect = Or(old.effect, effect)
               /\ new.fun = old.fun /\ new.symbols = old.symbols
               /\ new.stmts = old.stmts
  <1> DEFINE e == Or(old.effect, effect)
             c == old.call + 1
  <1>1. e \in Effect /\ c \in Nat
    BY Effects DEF FrameType
  <1> SUFFICES LET new == [old EXCEPT !.effect = e, !.call = c]
               IN  /\ new \in FrameType /\ new.effect = e
                   /\ new.fun = old.fun /\ new.symbols = old.symbols
                   /\ new.stmts = old.stmts
    OBVIOUS
  <1> HIDE DEF e, c
  <1> QED
    BY <1>1 DEF FrameType

\* The result of a call is merged into the frame on top.
LEMMA Merges ==
    ASSUME Inv, stack # <<>>, NEW effect \in Effect, Merge(effect),
           Len(stack) = 1 => effect # PROCESSING,
           UNCHANGED <<body, memo, asked, answer>>
    PROVE  Inv'
  <1> DEFINE frame == [Top EXCEPT !.effect = Or(@, effect), !.call = @ + 1]
  <1>2. frame \in FrameType /\ frame.effect = Or(Top.effect, effect)
    BY TopFrame, FrameMerged
  <1>3. frame.fun = Top.fun /\ frame.symbols = Top.symbols
    BY TopFrame, FrameMerged
  <1>4. Len(stack) = 1 => frame.effect # PROCESSING
    BY <1>2, TopFrame, Effects
  <1>5. stack' = SetTop(frame)
    BY DEF Merge
  <1> HIDE DEF frame
  <1> QED
    BY <1>2, <1>3, <1>4, <1>5, FrameMoves

\* At the bottom of the stack the only function in progress is the one that
\* is checked, and a call to it is recursion: the table has no open verdict
\* to offer.
LEMMA KnownAtBottom ==
    ASSUME Inv, stack # <<>>, NEW c \in Fun, ~IsSelf(c), Len(stack) = 1
    PROVE  memo[c] # PROCESSING
  <1> SUFFICES ASSUME memo[c] = PROCESSING PROVE FALSE
    OBVIOUS
  <1>1. PICK k \in DOMAIN stack : stack[k].fun = c
    BY DEF Inv, MarksMatchStack
  <1>2. stack[1].fun = c /\ Top = stack[1]
    BY <1>1, TopFrame
  <1>3. stack[1].symbols = c
    BY <1>2, TopFrame DEF Inv, Shape
  <1> QED
    BY <1>2, <1>3 DEF IsSelf

LEMMA StepCall ==
    ASSUME Inv, NEW c \in Fun \cup Extern,
           CallExtern(c) \/ CallSelf(c) \/ CallKnown(c) \/ CallNew(c)
    PROVE  Inv'
  <1>1. stack # <<>>
    BY DEF CallExtern, CallSelf, CallKnown, CallNew, AtCall, Checking
  <1>2. CASE CallExtern(c)
    BY <1>1, <1>2, Merges, Effects DEF CallExtern
  <1>3. CASE CallSelf(c)
    BY <1>1, <1>3, Merges, Effects DEF CallSelf
  <1>4. CASE CallKnown(c)
    <2>1. c \in Fun /\ memo[c] \in Effect
      BY <1>4 DEF CallKnown, Inv, TypeOK
    <2>2. Len(stack) = 1 => memo[c] # PROCESSING
      BY <1>1, <1>4, <2>1, KnownAtBottom DEF CallKnown
    <2> QED
      BY <1>1, <1>4, <2>1, <2>2, Merges DEF CallKnown
  <1>5. CASE CallNew(c)
    BY <1>5, FrameOpens DEF CallNew, Inv, TypeOK, Definite
  <1> QED
    BY <1>2, <1>3, <1>4, <1>5

\* What is left of a sequence of statements is part of it.
LEMMA Suffixes ==
    ASSUME NEW stmts \in Seq(Stmt), NEW rest \in Later(stmts)
    PROVE  /\ rest \in Seq(Stmt)
           /\ \A j \in DOMAIN rest : \E k \in DOMAIN stmts : rest[j] = stmts[k]
  <1> DEFINE n == Len(stmts)
  <1>1. n \in Nat
    OBVIOUS
  <1>2. PICK k \in 2..(n + 1) : rest = SubSeq(stmts, k, n)
    BY DEF Later
  <1>3. k \in Nat /\ k >= 2 /\ \A m \in k..n : stmts[m] \in Stmt
    BY <1>1, <1>2, ElementOfSeq
  <1> HIDE DEF n
  <1>4. /\ rest \in Seq(Stmt)
        /\ Len(rest) = IF k <= n THEN n - k + 1 ELSE 0
        /\ \A m \in 1..(n - k + 1) : rest[m] = stmts[k + m - 1]
    BY <1>1, <1>2, <1>3, SubSeqProperties
  <1>5. DOMAIN stmts = 1..n /\ DOMAIN rest = 1..Len(rest)
    BY <1>4, LenProperties DEF n
  <1>6. \A j \in DOMAIN rest : k + j - 1 \in DOMAIN stmts /\ rest[j] = stmts[k + j - 1]
    BY <1>1, <1>3, <1>4, <1>5
  <1> QED
    BY <1>4, <1>6

LEMMA StepStmtEnd == Inv /\ StmtEnd => Inv'
  <1> SUFFICES ASSUME Inv, StmtEnd PROVE Inv'
    OBVIOUS
  <1> DEFINE effect == IF Head(Top.stmts).write = "outer" THEN YES ELSE Top.effect
  <1>1. stack # <<>> /\ Top.stmts # <<>>
    BY DEF StmtEnd, Checking
  <1>2. effect \in Effect /\ (Len(stack) = 1 => effect # PROCESSING)
    BY <1>1, TopFrame, Effects
  <1>3. PICK rest \in Later(Top.stmts) :
           stack' = SetTop([Top EXCEPT !.effect = effect, !.call = 0, !.stmts = rest])
    BY DEF StmtEnd
  <1>4. rest \in Seq(Stmt)
    BY <1>1, TopFrame, Suffixes
  <1> DEFINE frame == [Top EXCEPT !.effect = effect, !.call = 0, !.stmts = rest]
  <1> HIDE DEF effect
  <1>5. /\ frame \in FrameType /\ frame.effect = effect
        /\ frame.fun = Top.fun /\ frame.symbols = Top.symbols
    BY <1>1, <1>2, <1>4, TopFrame DEF FrameType
  <1>6. stack' = SetTop(frame)
    BY <1>3
  <1> HIDE DEF frame
  <1> QED
    BY <1>1, <1>2, <1>5, <1>6, FrameMoves DEF StmtEnd

\* The stack after a function is done: its caller has merged the result.
LEMMA Returned ==
    ASSUME NEW n \in Nat \ {0, 1}, NEW st \in Seq(FrameType), Len(st) = n - 1,
           NEW new \in FrameType
    PROVE  /\ [st EXCEPT ![Len(st)] = new] \in Seq(FrameType)
           /\ DOMAIN [st EXCEPT ![Len(st)] = new] = 1..(n - 1)
           /\ [st EXCEPT ![Len(st)] = new][n - 1] = new
           /\ \A k \in 1..(n - 1) : k # n - 1 => [st EXCEPT ![Len(st)] = new][k] = st[k]
  <1>1. Len(st) \in 1..Len(st)
    OBVIOUS
  <1>2. /\ [st EXCEPT ![Len(st)] = new] \in Seq(FrameType)
        /\ Len([st EXCEPT ![Len(st)] = new]) = Len(st)
        /\ \A j \in 1..Len(st) :
              [st EXCEPT ![Len(st)] = new][j] = IF j = Len(st) THEN new ELSE st[j]
    BY <1>1, ExceptSeq
  <1> QED
    BY <1>1, <1>2, LenProperties

LEMMA StepReturn == Inv /\ Return => Inv'
  <1> SUFFICES ASSUME Inv, Return PROVE Inv'
    OBVIOUS
  <1> DEFINE n == Len(stack)
             f == Top.fun
  <1>1. stack # <<>> /\ f \in Fun
    BY DEF Return
  <1>2. /\ stack \in Seq(FrameType) /\ n \in Nat \ {0} /\ DOMAIN stack = 1..n
        /\ Top = stack[n] /\ stack[n].fun = f /\ Top.effect \in Effect
        /\ n = 1 => Top.effect # PROCESSING
    BY <1>1, TopFrame
  <1>3. /\ Below \in Seq(FrameType) /\ Len(Below) = n - 1
        /\ Below = <<>> <=> n = 1
        /\ \A k \in 1..(n - 1) : Below[k] = stack[k]
    BY <1>1, <1>2, Popped
  <1> HIDE DEF n, f
  <1>4. \A k \in 1..n : stack[k].fun = f => k = n
    <2> SUFFICES ASSUME NEW k \in 1..n, stack[k].fun = f PROVE k = n
      OBVIOUS
    <2>1. n \in DOMAIN stack /\ k \in DOMAIN stack
      BY <1>2
    <2>2. stack[k].fun = stack[n].fun /\ stack[k].fun # NoFun
      BY <1>1, <1>2, FunAssumption
    <2> QED
      BY <2>1, <2>2 DEF Inv, MarksMatchStack
  <1>5. CASE n = 1
    <2>1. /\ answer' = Top.effect /\ stack' = <<>>
          /\ memo' = [memo EXCEPT ![f] = Top.effect]
          /\ UNCHANGED <<body, asked>>
      BY <1>3, <1>5 DEF Return, f
    <2>2. TypeOK'
      BY <1>1, <1>2, <2>1 DEF Inv, TypeOK
    <2>3. \A g \in Fun : memo'[g] # PROCESSING
      BY <1>1, <1>2, <1>5, <2>1 DEF Inv, TypeOK, MarksMatchStack
    <2>4. Shape' /\ MarksMatchStack'
      BY <2>1, <2>3 DEF Shape, MarksMatchStack
    <2>5. Definite'
      BY <1>2, <1>5, <2>1 DEF Definite
    <2> QED
      BY <2>2, <2>4, <2>5 DEF Inv
  <1>6. CASE n # 1
    <2> DEFINE open   == Top.effect = PROCESSING
               caller == Below[Len(Below)]
               result == IF open THEN NO ELSE Top.effect
               new    == [caller EXCEPT !.effect = Or(@, result), !.call = @ + 1]
    <2>1. /\ memo' = [memo EXCEPT ![f] = IF open THEN NULL ELSE Top.effect]
          /\ stack' = [Below EXCEPT ![Len(Below)] = new]
          /\ UNCHANGED <<answer, body, asked>>
      BY <1>3, <1>6 DEF Return, f
    <2>2. caller \in FrameType /\ caller = stack[n - 1]
      BY <1>2, <1>3, <1>6, ElementOfSeq
    <2>3. result \in Effect /\ result # PROCESSING
      BY <1>2, Effects
    <2>4. /\ new \in FrameType /\ new.effect = Or(caller.effect, result)
          /\ new.fun = caller.fun /\ new.symbols = caller.symbols
      BY <2>2, <2>3, FrameMerged
    <2>5. \A g \in Fun : memo'[g] = IF g = f
                                    THEN IF open THEN NULL ELSE Top.effect
                                    ELSE memo[g]
      BY <2>1 DEF Inv, TypeOK
    <2>open. open <=> Top.effect = PROCESSING
      OBVIOUS
    <2>6. caller.effect \in Effect
      BY <2>2 DEF FrameType
    <2> HIDE DEF new, result, caller, open
    <2>7. /\ stack' \in Seq(FrameType) /\ DOMAIN stack' = 1..(n - 1)
          /\ stack'[n - 1] = new
          /\ \A k \in 1..(n - 1) : k # n - 1 => stack'[k] = stack[k]
      <3>1. n \in Nat \ {0, 1} /\ Len(Below) = n - 1
        BY <1>2, <1>3, <1>6
      <3> QED
        BY <1>3, <2>1, <2>4, <3>1, Returned
    <2>8. \A k \in 1..(n - 1) : /\ stack'[k].fun = stack[k].fun
                                /\ stack'[k].symbols = stack[k].symbols
      BY <2>2, <2>4, <2>7
    <2>9. TypeOK'
      BY <1>1, <1>2, <2>1, <2>7, <2>open DEF Inv, TypeOK
    <2>10. Shape'
      BY <1>2, <2>7, <2>8 DEF Inv, Shape
    <2>11. MarksMatchStack'
      <3>1. ASSUME NEW g \in Fun
            PROVE  memo'[g] = PROCESSING <=> \E k \in DOMAIN stack' : stack'[k].fun = g
        <4>1. CASE g = f
          <5>1. memo'[g] # PROCESSING
            BY <1>2, <2>5, <2>open, <4>1, Effects DEF NULL, PROCESSING
          <5>2. \A k \in DOMAIN stack' : stack'[k].fun # g
            BY <1>2, <1>4, <2>7, <2>8, <4>1
          <5> QED
            BY <5>1, <5>2
        <4>2. CASE g # f
          <5>1. memo'[g] = memo[g]
            BY <2>5, <4>2
          <5>2. (\E k \in 1..n : stack[k].fun = g) <=>
                (\E k \in 1..(n - 1) : stack[k].fun = g)
            BY <1>2, <4>2
          <5> QED
            BY <1>2, <2>7, <2>8, <5>1, <5>2 DEF Inv, MarksMatchStack
        <4> QED
          BY <4>1, <4>2
      <3>2. ASSUME NEW k \in DOMAIN stack', NEW l \in DOMAIN stack',
                   stack'[k].fun = stack'[l].fun, stack'[k].fun # NoFun
            PROVE  k = l
        BY <1>2, <2>7, <2>8, <3>2 DEF Inv, MarksMatchStack
      <3> QED
        BY <3>1, <3>2 DEF MarksMatchStack
    <2>12. Definite'
      <3>1. CASE n = 2
        <4>1. caller.effect # PROCESSING
          BY <1>2, <2>2, <3>1 DEF Inv, Definite
        <4> QED
          BY <2>1, <2>3, <2>4, <2>6, <2>7, <3>1, <4>1, Effects DEF Inv, Definite
      <3>2. CASE n # 2
        BY <1>2, <1>6, <2>1, <2>7, <3>2 DEF Inv, Definite
      <3> QED
        BY <3>1, <3>2
    <2> QED
      BY <2>9, <2>10, <2>11, <2>12 DEF Inv
  <1> QED
    BY <1>5, <1>6

LEMMA StepReturnStmt == Inv /\ ReturnStmt => Inv'
  <1> SUFFICES ASSUME Inv, ReturnStmt PROVE Inv'
    OBVIOUS
  <1>1. stack # <<>> /\ Top.fun = NoFun
    BY DEF ReturnStmt
  <1>2. /\ stack \in Seq(FrameType) /\ DOMAIN stack = 1..Len(stack)
        /\ Len(stack) \in Nat \ {0} /\ Top = stack[Len(stack)]
        /\ Top.effect \in Effect /\ (Len(stack) = 1 => Top.effect # PROCESSING)
    BY <1>1, TopFrame
  <1>3. Len(stack) = 1
    BY <1>1, <1>2, FunAssumption DEF Inv, Shape
  <1>4. stack' = <<>> /\ answer' = Top.effect /\ UNCHANGED <<body, memo, asked>>
    BY <1>1, <1>2, <1>3, Popped DEF ReturnStmt
  <1>5. \A f \in Fun : memo[f] # PROCESSING
    <2>1. DOMAIN stack = {1} /\ stack[1].fun \notin Fun
      BY <1>1, <1>2, <1>3, FunAssumption
    <2> QED
      BY <2>1 DEF Inv, MarksMatchStack
  <1>6. TypeOK'
    BY <1>2, <1>4 DEF Inv, TypeOK
  <1>7. Shape' /\ MarksMatchStack'
    BY <1>4, <1>5 DEF Shape, MarksMatchStack
  <1>8. Definite'
    <2>1. answer' # PROCESSING
      BY <1>2, <1>3, <1>4
    <2>2. stack' = <<>>
      BY <1>4
    <2> QED
      BY <2>1, <2>2 DEF Definite
  <1> QED
    BY <1>6, <1>7, <1>8 DEF Inv

LEMMA StepAskFun ==
    ASSUME Inv, NEW f \in Fun, AskFun(f)
    PROVE  Inv'
  <1>1. <<f, 0>> \in (Fun \cup {NoFun}) \X Nat
    OBVIOUS
  <1>2. CASE memo[f] = NULL
    BY <1>1, <1>2, FrameOpens DEF AskFun, NULL, PROCESSING
  <1>3. CASE memo[f] # NULL
    <2>1. /\ answer' = memo[f] /\ asked' = <<f, 0>>
          /\ UNCHANGED <<memo, stack, body>>
      BY <1>3 DEF AskFun
    <2>2. stack = <<>> /\ memo[f] # PROCESSING
      BY DEF AskFun, Inv, MarksMatchStack
    <2>3. TypeOK'
      BY <1>1, <2>1 DEF Inv, TypeOK
    <2>4. Shape' /\ MarksMatchStack'
      BY <2>1 DEF Inv, Shape, MarksMatchStack
    <2>5. Definite'
      BY <2>1, <2>2 DEF Inv, Definite
    <2> QED
      BY <2>3, <2>4, <2>5 DEF Inv
  <1> QED
    BY <1>2, <1>3

LEMMA StepAskStmt ==
    ASSUME Inv, NEW f \in Fun, NEW i \in DOMAIN body[f], AskStmt(f, i)
    PROVE  Inv'
  <1> DEFINE frame == Frame(NoFun, f, <<body[f][i]>>)
  <1>1. body[f] \in Seq(Stmt) /\ i \in Nat /\ body[f][i] \in Stmt
    BY DEF Inv, TypeOK
  <1>2. /\ frame \in FrameType /\ frame.fun = NoFun /\ frame.effect = NO
    BY <1>1, Effects DEF Frame, FrameType
  <1>3. stack = <<>> /\ stack' = <<frame>>
    BY DEF AskStmt, Push
  <1>4. /\ stack' \in Seq(FrameType) /\ DOMAIN stack' = {1} /\ stack'[1] = frame
    BY <1>2, <1>3
  <1>5. \A g \in Fun : memo[g] # PROCESSING
    BY <1>3 DEF Inv, MarksMatchStack
  <1>6. UNCHANGED <<body, memo>> /\ answer' = NULL /\ asked' = <<f, i>>
    BY DEF AskStmt
  <1>7. TypeOK'
    BY <1>1, <1>4, <1>6 DEF Inv, TypeOK
  <1> HIDE DEF frame
  <1>8. Shape'
    BY <1>2, <1>4, FunAssumption DEF Shape
  <1>9. MarksMatchStack'
    BY <1>2, <1>4, <1>5, <1>6, FunAssumption DEF MarksMatchStack
  <1>10. Definite'
    BY <1>2, <1>4, <1>6 DEF Definite, NULL, NO, PROCESSING
  <1> QED
    BY <1>7, <1>8, <1>9, <1>10 DEF Inv

LEMMA NextInv == Inv /\ [Next]_vars => Inv'
  <1> SUFFICES ASSUME Inv, [Next]_vars PROVE Inv'
    OBVIOUS
  <1>1. CASE UNCHANGED vars
    BY <1>1 DEF vars, Inv, TypeOK, Shape, MarksMatchStack, Definite
  <1>2. ASSUME NEW f \in Fun, AskFun(f) \/ \E i \in DOMAIN body[f] : AskStmt(f, i)
        PROVE  Inv'
    BY <1>2, StepAskFun, StepAskStmt
  <1>3. CASE Check
    BY <1>3, StepCall, StepStmtEnd, StepReturn, StepReturnStmt DEF Check
  <1> QED
    BY <1>1, <1>2, <1>3 DEF Next

LEMMA SpecInv == Spec => []Inv
  BY InitInv, NextInv, PTL DEF Spec

\* The analysis keeps its types on every program.
THEOREM SideEffectTypes == Spec => []TypeOK
  <1>1. Inv => TypeOK
    BY DEF Inv
  <1> QED
    BY <1>1, SpecInv, PTL

\* The asserts of the passes hold on every program: whatever recursion it
\* has, a question is answered NO or YES and leaves no function marked.
THEOREM DefiniteAnswers == Spec => [](AnswersDefinite /\ MarksMatchStack)
  <1>1. Inv => AnswersDefinite /\ MarksMatchStack
    BY DEF Inv, Definite, MarksMatchStack, AnswersDefinite
  <1> QED
    BY <1>1, SpecInv, PTL

\* The marks in the table are those of the open checks, on every program.
THEOREM MarksSound == Spec => []MarksMatchStack
  <1>1. Inv => MarksMatchStack
    BY DEF Inv
  <1> QED
    BY <1>1, SpecInv, PTL

\* A step writes to the table only where it says nothing yet or that the
\* check is open: never over a verdict.
VerdictKept == \A f \in Fun : memo[f] \in {NO, YES} => memo'[f] = memo[f]

LEMMA Written ==
    ASSUME NEW f \in Fun, memo[f] \notin {NO, YES},
           \A g \in Fun \ {f} : memo'[g] = memo[g]
    PROVE  VerdictKept
  BY DEF VerdictKept

LEMMA CheckKeepsVerdicts == Inv /\ Check => VerdictKept
  <1> SUFFICES ASSUME Inv, Check PROVE VerdictKept
    OBVIOUS
  <1>1. ASSUME NEW c \in Fun, CallNew(c)
        PROVE  VerdictKept
    <2>1. memo[c] = NULL /\ memo' = [memo EXCEPT ![c] = PROCESSING]
      BY <1>1 DEF CallNew
    <2>2. \A g \in Fun \ {c} : memo'[g] = memo[g]
      BY <2>1 DEF Inv, TypeOK
    <2>3. memo[c] \notin {NO, YES}
      BY <2>1 DEF NULL, NO, YES
    <2> QED
      BY <2>2, <2>3, Written
  <1>2. CASE Return
    <2>1. stack # <<>> /\ Top.fun \in Fun
      BY <1>2 DEF Return
    <2>2. \A g \in Fun \ {Top.fun} : memo'[g] = memo[g]
      BY <1>2 DEF Return, Inv, TypeOK
    <2>3. memo[Top.fun] = PROCESSING
      BY <2>1, TopFrame DEF Inv, MarksMatchStack
    <2>4. memo[Top.fun] \notin {NO, YES}
      BY <2>3 DEF PROCESSING, NO, YES
    <2> QED
      BY <2>1, <2>2, <2>4, Written
  <1>3. CASE UNCHANGED memo
    BY <1>3 DEF VerdictKept
  <1>4. ASSUME NEW c \in Fun \cup Extern, CallExtern(c) \/ CallSelf(c) \/ CallKnown(c)
        PROVE  VerdictKept
    BY <1>3, <1>4 DEF CallExtern, CallSelf, CallKnown
  <1>5. CASE StmtEnd \/ ReturnStmt
    <2>1. UNCHANGED memo
      BY <1>5, Zenon DEF StmtEnd, ReturnStmt
    <2> QED
      BY <1>3, <2>1
  <1>6. ASSUME NEW c \in Fun \cup Extern, CallNew(c)
        PROVE  VerdictKept
    BY <1>1, <1>6 DEF CallNew
  <1> QED
    BY <1>2, <1>4, <1>5, <1>6 DEF Check

LEMMA NextKeepsVerdicts == Inv /\ [Next]_vars => VerdictKept
  <1> SUFFICES ASSUME Inv, [Next]_vars PROVE VerdictKept
    OBVIOUS
  <1>1. CASE UNCHANGED vars
    BY <1>1 DEF vars, VerdictKept
  <1>2. ASSUME NEW f \in Fun, AskFun(f)
        PROVE  VerdictKept
    <2>1. CASE memo[f] = NULL
      <3>1. \A g \in Fun \ {f} : memo'[g] = memo[g]
        BY <1>2, <2>1 DEF AskFun, Inv, TypeOK
      <3>2. memo[f] \notin {NO, YES}
        BY <2>1 DEF NULL, NO, YES
      <3> QED
        BY <3>1, <3>2, Written
    <2>2. CASE memo[f] # NULL
      BY <1>2, <2>2 DEF AskFun, VerdictKept
    <2> QED
      BY <2>1, <2>2
  <1>3. ASSUME NEW f \in Fun, NEW i \in DOMAIN body[f], AskStmt(f, i)
        PROVE  VerdictKept
    BY <1>3 DEF AskStmt, VerdictKept
  <1> QED
    BY <1>1, <1>2, <1>3, CheckKeepsVerdicts DEF Next

\* A verdict is never revised, on any program: a function whose check is
\* repeated is one that was forgotten, not one that was answered.
THEOREM VerdictsStay == Spec => VerdictsFinal
  <1>1. Inv /\ [Next]_vars =>
          [\A f \in Fun : memo[f] \in {NO, YES} => memo'[f] = memo[f]]_vars
    BY NextKeepsVerdicts DEF VerdictKept
  <1> QED
    BY <1>1, SpecInv, PTL DEF Spec, VerdictsFinal

-----------------------------------------------------------------------------
(* YES is sound.  A frame that has found an effect has found it in a       *)
(* statement it owns, or in what that statement calls.                     *)

Owns(frame, stmt) ==
    IF frame.fun = NoFun
    THEN asked[2] # 0 /\ stmt = body[asked[1]][asked[2]]
    ELSE \E i \in DOMAIN body[frame.fun] : stmt = body[frame.fun][i]

OwnerEffectful(frame) ==
    IF frame.fun = NoFun THEN AskedEffectful ELSE Effectful(frame.fun)

FrameOK(frame) ==
    /\ \A j \in DOMAIN frame.stmts : Owns(frame, frame.stmts[j])
    /\ frame.effect = YES => OwnerEffectful(frame)

\* Each frame but the first is there because of a call in the one below it.
CalledFrom(frame, caller) ==
    /\ caller.stmts # <<>>
    /\ frame.fun \in Callees(Head(caller.stmts))

YesInv ==
    /\ Inv
    /\ \A f \in Fun : memo[f] = YES => Effectful(f)
    /\ \A x \in FrameType : (\E k \in DOMAIN stack : stack[k] = x) => FrameOK(x)
    /\ \A k \in DOMAIN stack : k > 1 => CalledFrom(stack[k], stack[k - 1])
    /\ 1 \in DOMAIN stack /\ stack[1].fun \in Fun => asked = <<stack[1].fun, 0>>
    /\ stack = <<>> /\ answer = YES => AskedEffectful

LEMMA EffectSpreads ==
    ASSUME NEW f \in Fun, NEW i \in DOMAIN body[f],
           \/ Direct(body[f][i])
           \/ \E c \in Callees(body[f][i]) \cap Fun : Effectful(c)
    PROVE  Effectful(f)
  <1> SUFFICES ASSUME NEW S \in SUBSET Fun, Closed(S) PROVE f \in S
    BY DEF Effectful
  <1>1. CASE Direct(body[f][i])
    BY <1>1 DEF Closed
  <1>2. CASE \E c \in Callees(body[f][i]) \cap Fun : Effectful(c)
    <2>1. PICK c \in Callees(body[f][i]) \cap Fun : Effectful(c)
      BY <1>2
    <2>2. c \in S
      BY <2>1 DEF Effectful
    <2> QED
      BY <2>1, <2>2 DEF Closed
  <1> QED
    BY <1>1, <1>2

LEMMA OwnerHasEffect ==
    ASSUME NEW frame \in FrameType, NEW stmt, Owns(frame, stmt),
           \/ Direct(stmt)
           \/ \E c \in Callees(stmt) \cap Fun : Effectful(c)
    PROVE  OwnerEffectful(frame)
  <1>1. CASE frame.fun = NoFun
    BY <1>1 DEF Owns, OwnerEffectful, AskedEffectful, StmtEffectful
  <1>2. CASE frame.fun # NoFun
    <2>1. frame.fun \in Fun
      BY <1>2 DEF FrameType
    <2>2. PICK i \in DOMAIN body[frame.fun] : stmt = body[frame.fun][i]
      BY <1>2 DEF Owns
    <2>3. Effectful(frame.fun)
      BY <2>1, <2>2, EffectSpreads
    <2> QED
      BY <1>2, <2>3 DEF OwnerEffectful
  <1> QED
    BY <1>1, <1>2

\* The program does not change, so neither does what its functions do.
LEMMA SameProgram ==
    ASSUME body' = body
    PROVE  \A f \in Fun : Effectful(f)' <=> Effectful(f)
  BY DEF Effectful, Closed

LEMMA SameQuestion ==
    ASSUME body' = body, asked' = asked
    PROVE  /\ AskedEffectful' <=> AskedEffectful
           /\ \A frame \in FrameType :
                 /\ OwnerEffectful(frame)' <=> OwnerEffectful(frame)
                 /\ FrameOK(frame)' <=> FrameOK(frame)
  <1>1. Effectful(asked[1])' <=> Effectful(asked[1])
    BY DEF Effectful, Closed
  <1>2. AskedEffectful' <=> AskedEffectful
    BY <1>1, SameProgram DEF AskedEffectful, StmtEffectful
  <1>3. ASSUME NEW frame \in FrameType
        PROVE  /\ OwnerEffectful(frame)' <=> OwnerEffectful(frame)
               /\ FrameOK(frame)' <=> FrameOK(frame)
    <2>1. OwnerEffectful(frame)' <=> OwnerEffectful(frame)
      BY <1>2, SameProgram DEF OwnerEffectful, FrameType
    <2> QED
      BY <2>1 DEF FrameOK, Owns
  <1> QED
    BY <1>2, <1>3

LEMMA InitYes == Init => YesInv
  <1> SUFFICES ASSUME Init PROVE YesInv
    OBVIOUS
  <1>1. stack = <<>> /\ answer = NULL /\ \A f \in Fun : memo[f] = NULL
    BY DEF Init
  <1> QED
    BY <1>1, InitInv DEF YesInv, NULL, YES

\* The top frame moves on and stays sound: so does the stack.
LEMMA FrameMovesYes ==
    ASSUME YesInv, Inv', stack # <<>>, NEW frame \in FrameType,
           frame.fun = Top.fun, FrameOK(frame), stack' = SetTop(frame),
           UNCHANGED <<body, memo, asked, answer>>
    PROVE  YesInv'
  <1> DEFINE n == Len(stack)
  <1>1. /\ stack \in Seq(FrameType) /\ n \in Nat \ {0} /\ DOMAIN stack = 1..n
        /\ Top = stack[n]
    BY TopFrame DEF YesInv
  <1>2. /\ DOMAIN stack' = 1..n /\ stack'[n] = frame
        /\ \A k \in 1..n : k # n => stack'[k] = stack[k]
    BY <1>1, TopSet, LenProperties
  <1> HIDE DEF n
  <1>3. ASSUME NEW x \in FrameType, NEW k \in DOMAIN stack', stack'[k] = x
        PROVE  FrameOK(x)'
    <2>1. FrameOK(x)
      BY <1>1, <1>2, <1>3 DEF YesInv
    <2> QED
      BY <2>1, SameQuestion
  <1>4. ASSUME NEW k \in DOMAIN stack', k > 1
        PROVE  CalledFrom(stack'[k], stack'[k - 1])
    <2>1. CalledFrom(stack[k], stack[k - 1])
      BY <1>1, <1>2, <1>4 DEF YesInv
    <2>2. stack'[k].fun = stack[k].fun /\ stack'[k - 1] = stack[k - 1]
      BY <1>1, <1>2, <1>4
    <2> QED
      BY <2>1, <2>2 DEF CalledFrom
  <1>5. stack'[1].fun = stack[1].fun
    BY <1>1, <1>2
  <1>6. \A f \in Fun : memo'[f] = YES => Effectful(f)'
    BY SameProgram DEF YesInv
  <1>7. stack' # <<>>
    BY <1>1, <1>2
  <1> QED
    BY <1>1, <1>2, <1>3, <1>4, <1>5, <1>6, <1>7 DEF YesInv

\* The statement at the head of a frame is owned by it.
LEMMA HeadOwned ==
    ASSUME YesInv, stack # <<>>, Top.stmts # <<>>
    PROVE  Owns(Top, Head(Top.stmts)) /\ FrameOK(Top)
  <1>1. Top \in FrameType /\ Top.stmts \in Seq(Stmt) /\ FrameOK(Top)
    BY TopFrame DEF YesInv
  <1>2. 1 \in DOMAIN Top.stmts /\ Head(Top.stmts) = Top.stmts[1]
    BY <1>1
  <1> QED
    BY <1>1, <1>2 DEF FrameOK

\* Merging the result of a call: an effect of the callee is one of the owner.
LEMMA MergedOK ==
    ASSUME NEW old \in FrameType, FrameOK(old), NEW effect \in Effect,
           effect = YES => OwnerEffectful(old)
    PROVE  FrameOK([old EXCEPT !.effect = Or(@, effect), !.call = @ + 1])
  <1> DEFINE new == [old EXCEPT !.effect = Or(@, effect), !.call = @ + 1]
  <1>1. /\ new.effect = Or(old.effect, effect) /\ new.fun = old.fun
        /\ new.stmts = old.stmts
    BY FrameMerged
  <1>2. old.effect \in Effect
    BY DEF FrameType
  <1> HIDE DEF new
  <1>3. new.effect = YES => OwnerEffectful(old)
    BY <1>1, <1>2, Effects DEF FrameOK
  <1>4. OwnerEffectful(new) <=> OwnerEffectful(old)
    BY <1>1 DEF OwnerEffectful
  <1>5. \A j \in DOMAIN new.stmts : Owns(new, new.stmts[j])
    BY <1>1 DEF FrameOK, Owns
  <1>6. FrameOK(new)
    BY <1>3, <1>4, <1>5 DEF FrameOK
  <1> QED
    BY <1>6 DEF new

LEMMA CalledByHead ==
    ASSUME NEW c, AtCall(c)
    PROVE  stack # <<>> /\ Top.stmts # <<>> /\ (Inv => c \in Callees(Head(Top.stmts)))
  <1>1. stack # <<>> /\ Top.stmts # <<>>
    BY DEF AtCall, Checking
  <1>2. ASSUME Inv PROVE c \in Callees(Head(Top.stmts))
    <2>1. Top.call \in Nat /\ Top.stmts \in Seq(Stmt)
      BY <1>1, <1>2, TopFrame
    <2>2. Head(Top.stmts) \in Stmt
      BY <1>1, <2>1, HeadTailProperties
    <2>3. Head(Top.stmts).calls \in Seq(Fun \cup Extern)
      BY <2>2 DEF Stmt
    <2>4. Top.call + 1 \in DOMAIN Head(Top.stmts).calls
      BY <2>1, <2>3 DEF AtCall
    <2> QED
      BY <2>4 DEF AtCall, Callees, Seen
  <1> QED
    BY <1>1, <1>2

LEMMA MergesYes ==
    ASSUME YesInv, Inv', NEW c, AtCall(c), NEW effect \in Effect, Merge(effect),
           effect = YES => c \in Extern \/ (c \in Fun /\ Effectful(c)),
           UNCHANGED <<body, memo, asked, answer>>
    PROVE  YesInv'
  <1> DEFINE frame == [Top EXCEPT !.effect = Or(@, effect), !.call = @ + 1]
             stmt  == Head(Top.stmts)
  <1>1. stack # <<>> /\ Top.stmts # <<>> /\ c \in Callees(stmt)
    BY CalledByHead DEF YesInv
  <1>2. Top \in FrameType
    BY <1>1, TopFrame DEF YesInv
  <1>3. Owns(Top, stmt) /\ FrameOK(Top)
    BY <1>1, HeadOwned
  <1> HIDE DEF stmt
  <1>4. ASSUME effect = YES PROVE OwnerEffectful(Top)
    <2>1. Direct(stmt) \/ \E d \in Callees(stmt) \cap Fun : Effectful(d)
      BY <1>1, <1>4 DEF Direct
    <2> QED
      BY <1>2, <1>3, <2>1, OwnerHasEffect
  <1>5. FrameOK(frame)
    BY <1>2, <1>3, <1>4, MergedOK
  <1>6. frame \in FrameType /\ frame.fun = Top.fun
    BY <1>2, FrameMerged
  <1>7. stack' = SetTop(frame)
    BY DEF Merge
  <1> HIDE DEF frame
  <1> QED
    BY <1>1, <1>5, <1>6, <1>7, FrameMovesYes

\* A function is opened, by the pass or by a call in the top frame.
LEMMA FrameOpensYes ==
    ASSUME YesInv, Inv', NEW f \in Fun,
           memo' = [memo EXCEPT ![f] = PROCESSING],
           stack' = Push(Frame(f, f, body[f])), UNCHANGED body,
           \/ stack = <<>> /\ asked' = <<f, 0>>
           \/ stack # <<>> /\ CalledFrom(Frame(f, f, body[f]), Top) /\ UNCHANGED asked
    PROVE  YesInv'
  <1> DEFINE n == Len(stack)
             frame == Frame(f, f, body[f])
  <1>1. stack \in Seq(FrameType) /\ n \in Nat /\ DOMAIN stack = 1..n
    BY DEF YesInv, Inv, TypeOK
  <1>2. /\ frame \in FrameType /\ frame.fun = f /\ frame.effect = NO
        /\ frame.stmts = body[f]
    BY Effects DEF YesInv, Inv, TypeOK, Frame, FrameType
  <1>3. /\ DOMAIN stack' = 1..(n + 1) /\ stack'[n + 1] = frame
        /\ \A k \in 1..n : stack'[k] = stack[k]
    <2>1. stack' = Push(frame)
      OBVIOUS
    <2> HIDE DEF frame
    <2>2. /\ stack' \in Seq(FrameType) /\ Len(stack') = n + 1
          /\ stack'[n + 1] = frame /\ \A k \in 1..n : stack'[k] = stack[k]
      BY <1>1, <1>2, <2>1, Pushed
    <2> QED
      BY <2>2, LenProperties
  <1>4. stack # <<>> => n # 0 /\ Top = stack[n]
    BY <1>1 DEF Top
  <1>5. stack = <<>> => n = 0
    BY <1>1
  <1> HIDE DEF n
  <1>6. ASSUME NEW x \in FrameType, x = frame
        PROVE  FrameOK(x)'
    <2>1. x.fun = f /\ x.effect # YES /\ x.stmts = body[f] /\ f # NoFun
      BY <1>2, <1>6, Effects, FunAssumption
    <2>2. x.stmts = body'[f]
      BY <2>1
    <2>3. \A j \in DOMAIN x.stmts : Owns(x, x.stmts[j])'
      BY <2>1, <2>2 DEF Owns
    <2> QED
      BY <2>1, <2>3 DEF FrameOK
  <1> HIDE DEF frame
  <1>7. ASSUME NEW x \in FrameType, NEW k \in DOMAIN stack', stack'[k] = x
        PROVE  FrameOK(x)'
    <2>1. CASE k = n + 1
      BY <1>3, <1>6, <1>7, <2>1
    <2>2. CASE k # n + 1
      <3>1. k \in DOMAIN stack /\ stack[k] = x /\ stack # <<>>
        BY <1>1, <1>3, <1>5, <1>7, <2>2
      <3>2. FrameOK(x) /\ asked' = asked
        BY <3>1 DEF YesInv
      <3> QED
        BY <3>2, SameQuestion
    <2> QED
      BY <2>1, <2>2
  <1>8. ASSUME NEW k \in DOMAIN stack', k > 1
        PROVE  CalledFrom(stack'[k], stack'[k - 1])
    <2>1. CASE k = n + 1
      <3>1. stack # <<>> /\ stack'[k] = frame /\ stack'[k - 1] = stack[n]
        BY <1>1, <1>3, <1>5, <1>8, <2>1
      <3> QED
        BY <1>4, <3>1 DEF frame
    <2>2. CASE k # n + 1
      <3>1. k \in DOMAIN stack /\ stack'[k] = stack[k] /\ stack'[k - 1] = stack[k - 1]
        BY <1>1, <1>3, <1>8, <2>2
      <3> QED
        BY <1>8, <3>1 DEF YesInv
    <2> QED
      BY <2>1, <2>2
  <1>9. stack'[1].fun \in Fun => asked' = <<stack'[1].fun, 0>>
    <2>1. CASE stack = <<>>
      BY <1>2, <1>3, <1>5, <2>1
    <2>2. CASE stack # <<>>
      BY <1>1, <1>3, <1>4, <2>2 DEF YesInv
    <2> QED
      BY <2>1, <2>2
  <1>10. \A g \in Fun : memo'[g] = YES => Effectful(g)'
    <2>1. \A g \in Fun : memo'[g] = YES => memo[g] = YES
      BY DEF YesInv, Inv, TypeOK, PROCESSING, YES
    <2> QED
      BY <2>1, SameProgram DEF YesInv
  <1>11. stack' # <<>>
    BY <1>1, <1>3
  <1> QED
    BY <1>7, <1>8, <1>9, <1>10, <1>11 DEF YesInv

LEMMA CallYes ==
    ASSUME YesInv, Inv', NEW c \in Fun \cup Extern,
           CallExtern(c) \/ CallSelf(c) \/ CallKnown(c) \/ CallNew(c)
    PROVE  YesInv'
  <1>1. CASE CallExtern(c)
    BY <1>1, MergesYes, Effects DEF CallExtern
  <1>2. CASE CallSelf(c)
    BY <1>2, MergesYes, Effects DEF CallSelf
  <1>3. CASE CallKnown(c)
    <2>1. c \in Fun /\ memo[c] \in Effect /\ (memo[c] = YES => Effectful(c))
      BY <1>3 DEF CallKnown, YesInv, Inv, TypeOK
    <2> QED
      BY <1>3, <2>1, MergesYes DEF CallKnown
  <1>4. CASE CallNew(c)
    <2>1. c \in Fun /\ AtCall(c)
      BY <1>4 DEF CallNew
    <2>2. stack # <<>> /\ Top.stmts # <<>> /\ c \in Callees(Head(Top.stmts))
      BY <2>1, CalledByHead DEF YesInv
    <2>3. CalledFrom(Frame(c, c, body[c]), Top)
      BY <2>2 DEF CalledFrom, Frame
    <2> QED
      BY <1>4, <2>1, <2>2, <2>3, FrameOpensYes DEF CallNew
  <1> QED
    BY <1>1, <1>2, <1>3, <1>4

LEMMA StmtEndYes ==
    ASSUME YesInv, Inv', StmtEnd
    PROVE  YesInv'
  <1> DEFINE stmt   == Head(Top.stmts)
             effect == IF stmt.write = "outer" THEN YES ELSE Top.effect
  <1>1. stack # <<>> /\ Top.stmts # <<>>
    BY DEF StmtEnd, Checking
  <1>2. Top \in FrameType /\ Top.effect \in Effect /\ Top.stmts \in Seq(Stmt)
    BY <1>1, TopFrame DEF YesInv
  <1>3. Owns(Top, stmt) /\ FrameOK(Top)
    BY <1>1, HeadOwned
  <1>4. PICK rest \in Later(Top.stmts) :
           stack' = SetTop([Top EXCEPT !.effect = effect, !.call = 0, !.stmts = rest])
    BY DEF StmtEnd
  <1>5. /\ rest \in Seq(Stmt)
        /\ \A j \in DOMAIN rest : \E k \in DOMAIN Top.stmts : rest[j] = Top.stmts[k]
    BY <1>2, Suffixes
  <1> DEFINE frame == [Top EXCEPT !.effect = effect, !.call = 0, !.stmts = rest]
  <1>6. effect \in Effect
    BY <1>2, Effects
  <1>7. stmt.write = "outer" => OwnerEffectful(Top)
    <2> HIDE DEF stmt
    <2> QED
      BY <1>2, <1>3, OwnerHasEffect DEF Direct
  <1>8. effect = YES => OwnerEffectful(Top)
    BY <1>3, <1>7 DEF FrameOK
  <1>9. stack' = SetTop(frame)
    BY <1>4
  <1> HIDE DEF effect, stmt
  <1>10. /\ frame \in FrameType /\ frame.effect = effect /\ frame.stmts = rest
        /\ frame.fun = Top.fun
    BY <1>2, <1>5, <1>6 DEF FrameType
  <1> HIDE DEF frame
  <1>11. OwnerEffectful(frame) <=> OwnerEffectful(Top)
    BY <1>10 DEF OwnerEffectful
  <1>12. \A j \in DOMAIN frame.stmts : Owns(frame, frame.stmts[j])
    BY <1>3, <1>5, <1>10 DEF FrameOK, Owns
  <1>13. FrameOK(frame)
    BY <1>8, <1>10, <1>11, <1>12 DEF FrameOK
  <1>14. UNCHANGED <<body, memo, asked, answer>>
    BY DEF StmtEnd
  <1> QED
    BY <1>1, <1>9, <1>10, <1>13, <1>14, FrameMovesYes

\* A function is done: an effect of its frame is its own, and one of the
\* function that called it.
LEMMA ReturnYes ==
    ASSUME YesInv, Inv', Return
    PROVE  YesInv'
  <1> DEFINE n == Len(stack)
             f == Top.fun
  <1>1. stack # <<>> /\ f \in Fun
    BY DEF Return
  <1>2. /\ stack \in Seq(FrameType) /\ n \in Nat \ {0} /\ DOMAIN stack = 1..n
        /\ Top = stack[n] /\ Top.effect \in Effect /\ Top \in FrameType
    BY <1>1, TopFrame DEF YesInv
  <1>3. /\ Below \in Seq(FrameType) /\ Len(Below) = n - 1
        /\ Below = <<>> <=> n = 1
        /\ \A k \in 1..(n - 1) : Below[k] = stack[k]
    BY <1>1, <1>2, Popped
  <1>4. Top.effect = YES => Effectful(f)
    <2>1. FrameOK(Top)
      BY <1>2 DEF YesInv
    <2> QED
      BY <1>1, <2>1, FunAssumption DEF FrameOK, OwnerEffectful
  <1>5. UNCHANGED <<body, asked>>
    BY DEF Return
  <1> HIDE DEF n, f
  <1>6. CASE n = 1
    <2>1. /\ answer' = Top.effect /\ stack' = <<>>
          /\ memo' = [memo EXCEPT ![f] = Top.effect]
      BY <1>3, <1>6 DEF Return, f
    <2>2. asked = <<f, 0>>
      <3>1. stack[1].fun = f /\ 1 \in DOMAIN stack
        BY <1>2, <1>6 DEF f
      <3> QED
        BY <1>1, <3>1 DEF YesInv
    <2>3. answer' = YES => AskedEffectful
      BY <1>4, <2>1, <2>2 DEF AskedEffectful
    <2>4. answer' = YES => AskedEffectful'
      BY <1>5, <2>3, SameQuestion
    <2>5. \A g \in Fun : memo'[g] = YES => Effectful(g)'
      <3>1. \A g \in Fun : memo'[g] = YES => Effectful(g)
        BY <1>4, <2>1 DEF YesInv, Inv, TypeOK
      <3> QED
        BY <1>5, <3>1, SameProgram
    <2> QED
      BY <2>1, <2>4, <2>5 DEF YesInv
  <1>7. CASE n # 1
    <2> DEFINE open   == Top.effect = PROCESSING
               caller == Below[Len(Below)]
               result == IF open THEN NO ELSE Top.effect
               new    == [caller EXCEPT !.effect = Or(@, result), !.call = @ + 1]
    <2>1. /\ memo' = [memo EXCEPT ![f] = IF open THEN NULL ELSE Top.effect]
          /\ stack' = [Below EXCEPT ![Len(Below)] = new]
      BY <1>3, <1>7 DEF Return, f
    <2>2. caller \in FrameType /\ caller = stack[n - 1]
      BY <1>2, <1>3, <1>7, ElementOfSeq
    <2>3. result \in Effect /\ (result = YES => Effectful(f))
      BY <1>2, <1>4, Effects
    <2>4. FrameOK(caller) /\ CalledFrom(Top, caller)
      <3>1. n - 1 \in DOMAIN stack /\ n \in DOMAIN stack /\ n > 1
        BY <1>2, <1>7
      <3> QED
        BY <1>2, <2>2, <3>1 DEF YesInv
    <2>5. result = YES => OwnerEffectful(caller)
      <3> DEFINE stmt == Head(caller.stmts)
      <3>1. caller.stmts # <<>> /\ f \in Callees(stmt)
        BY <2>4 DEF CalledFrom, f
      <3>2. Owns(caller, stmt)
        <4>1. caller.stmts \in Seq(Stmt)
          BY <2>2 DEF FrameType
        <4>2. 1 \in DOMAIN caller.stmts /\ stmt = caller.stmts[1]
          BY <3>1, <4>1
        <4> QED
          BY <2>4, <4>2 DEF FrameOK
      <3> HIDE DEF stmt, caller
      <3> QED
        BY <1>1, <2>2, <2>3, <3>1, <3>2, OwnerHasEffect
    <2>6. FrameOK(new)
      <3> HIDE DEF caller, result
      <3> QED
        BY <2>2, <2>3, <2>4, <2>5, MergedOK
    <2>7. new \in FrameType /\ new.fun = caller.fun
      <3> HIDE DEF caller, result
      <3> QED
        BY <2>2, <2>3, FrameMerged
    <2>8. \A g \in Fun : memo'[g] = YES => Effectful(g)'
      <3>1. \A g \in Fun : memo'[g] = YES => Effectful(g)
        BY <1>4, <2>1, Effects DEF YesInv, Inv, TypeOK, NULL, YES
      <3> QED
        BY <1>5, <3>1, SameProgram
    <2> HIDE DEF new, result, caller, open
    <2>9. /\ DOMAIN stack' = 1..(n - 1) /\ stack'[n - 1] = new
          /\ \A k \in 1..(n - 1) : k # n - 1 => stack'[k] = stack[k]
      <3>1. n \in Nat \ {0, 1} /\ Len(Below) = n - 1
        BY <1>2, <1>3, <1>7
      <3> QED
        BY <1>3, <2>1, <2>7, <3>1, Returned
    <2>10. \A k \in 1..(n - 1) : stack'[k].fun = stack[k].fun
      BY <2>2, <2>7, <2>9
    <2>11. ASSUME NEW x \in FrameType, NEW k \in DOMAIN stack', stack'[k] = x
           PROVE  FrameOK(x)'
      <3>1. FrameOK(x)
        BY <1>2, <2>6, <2>9, <2>11 DEF YesInv
      <3> QED
        BY <1>5, <3>1, SameQuestion
    <2>12. ASSUME NEW k \in DOMAIN stack', k > 1
           PROVE  CalledFrom(stack'[k], stack'[k - 1])
      <3>1. k \in 1..(n - 1) /\ k - 1 \in 1..(n - 1) /\ k - 1 # n - 1
        BY <1>2, <2>9, <2>12
      <3>2. CalledFrom(stack[k], stack[k - 1])
        BY <1>2, <2>12, <3>1 DEF YesInv
      <3> QED
        BY <2>9, <2>10, <3>1, <3>2 DEF CalledFrom
    <2>13. stack'[1].fun \in Fun => asked' = <<stack'[1].fun, 0>>
      <3>1. 1 \in 1..(n - 1) /\ 1 \in DOMAIN stack
        BY <1>2, <1>7
      <3> QED
        BY <1>5, <2>10, <3>1 DEF YesInv
    <2>14. stack' # <<>>
      BY <1>2, <1>7, <2>9
    <2> QED
      BY <2>8, <2>11, <2>12, <2>13, <2>14 DEF YesInv
  <1> QED
    BY <1>6, <1>7

LEMMA ReturnStmtYes ==
    ASSUME YesInv, Inv', ReturnStmt
    PROVE  YesInv'
  <1>1. stack # <<>> /\ Top.fun = NoFun
    BY DEF ReturnStmt
  <1>2. /\ stack \in Seq(FrameType) /\ DOMAIN stack = 1..Len(stack)
        /\ Len(stack) \in Nat \ {0} /\ Top = stack[Len(stack)] /\ Top \in FrameType
    BY <1>1, TopFrame DEF YesInv
  <1>3. Len(stack) = 1
    BY <1>1, <1>2, FunAssumption DEF YesInv, Inv, Shape
  <1>4. stack' = <<>> /\ answer' = Top.effect /\ UNCHANGED <<body, memo, asked>>
    BY <1>1, <1>2, <1>3, Popped DEF ReturnStmt
  <1>5. FrameOK(Top)
    BY <1>2 DEF YesInv
  <1>6. answer' = YES => AskedEffectful'
    BY <1>1, <1>4, <1>5, SameQuestion DEF FrameOK, OwnerEffectful
  <1>7. \A g \in Fun : memo'[g] = YES => Effectful(g)'
    BY <1>4, SameProgram DEF YesInv
  <1> QED
    BY <1>4, <1>6, <1>7 DEF YesInv

LEMMA AskFunYes ==
    ASSUME YesInv, Inv', NEW f \in Fun, AskFun(f)
    PROVE  YesInv'
  <1>1. CASE memo[f] = NULL
    BY <1>1, FrameOpensYes DEF AskFun
  <1>2. CASE memo[f] # NULL
    <2>1. /\ answer' = memo[f] /\ asked' = <<f, 0>> /\ stack' = <<>>
          /\ UNCHANGED <<memo, body>>
      BY <1>2 DEF AskFun
    <2>2. \A g \in Fun : memo'[g] = YES => Effectful(g)'
      BY <2>1, SameProgram DEF YesInv
    <2>3. answer' = YES => AskedEffectful'
      BY <2>1, <2>2 DEF AskedEffectful
    <2> QED
      BY <2>1, <2>2, <2>3 DEF YesInv
  <1> QED
    BY <1>1, <1>2

LEMMA AskStmtYes ==
    ASSUME YesInv, Inv', NEW f \in Fun, NEW i \in DOMAIN body[f], AskStmt(f, i)
    PROVE  YesInv'
  <1> DEFINE frame == Frame(NoFun, f, <<body[f][i]>>)
  <1>1. body[f] \in Seq(Stmt) /\ i \in Nat \ {0} /\ body[f][i] \in Stmt
    BY DEF YesInv, Inv, TypeOK
  <1>2. /\ frame.fun = NoFun /\ frame.effect = NO /\ frame.stmts = <<body[f][i]>>
    BY DEF Frame
  <1>3. stack' = <<frame>>
    BY DEF AskStmt, Push
  <1>4. UNCHANGED <<body, memo>> /\ answer' = NULL /\ asked' = <<f, i>>
    BY DEF AskStmt
  <1> HIDE DEF frame
  <1>5. DOMAIN stack' = {1} /\ stack'[1] = frame
    BY <1>3
  <1>6. ASSUME NEW x \in FrameType, x = frame
        PROVE  FrameOK(x)'
    <2>1. \A j \in DOMAIN x.stmts : x.stmts[j] = body[f][i]
      BY <1>2, <1>6
    <2>2. \A j \in DOMAIN x.stmts : Owns(x, x.stmts[j])'
      BY <1>1, <1>2, <1>4, <1>6, <2>1 DEF Owns
    <2> QED
      BY <1>2, <1>6, <2>2, Effects DEF FrameOK
  <1>7. \A g \in Fun : memo'[g] = YES => Effectful(g)'
    BY <1>4, SameProgram DEF YesInv
  <1>8. stack' # <<>> /\ stack'[1].fun \notin Fun
    BY <1>2, <1>3, <1>5, FunAssumption
  <1> QED
    BY <1>5, <1>6, <1>7, <1>8 DEF YesInv

LEMMA NextYes == YesInv /\ [Next]_vars => YesInv'
  <1> SUFFICES ASSUME YesInv, [Next]_vars PROVE YesInv'
    OBVIOUS
  <1>1. Inv'
    BY NextInv DEF YesInv
  <1>2. CASE UNCHANGED vars
    <2>1. UNCHANGED <<body, memo, stack, asked, answer>>
      BY <1>2 DEF vars
    <2>2. ASSUME NEW x \in FrameType, NEW k \in DOMAIN stack', stack'[k] = x
          PROVE  FrameOK(x)'
      <3>1. FrameOK(x)
        BY <2>1, <2>2 DEF YesInv
      <3> QED
        BY <2>1, <3>1, SameQuestion
    <2>3. \A f \in Fun : memo'[f] = YES => Effectful(f)'
      BY <2>1, SameProgram DEF YesInv
    <2>4. stack' = <<>> /\ answer' = YES => AskedEffectful'
      BY <2>1, SameQuestion DEF YesInv
    <2>5. \A k \in DOMAIN stack' : k > 1 => CalledFrom(stack'[k], stack'[k - 1])
      BY <2>1 DEF YesInv
    <2>6. 1 \in DOMAIN stack' /\ stack'[1].fun \in Fun => asked' = <<stack'[1].fun, 0>>
      BY <2>1 DEF YesInv
    <2> QED
      BY <1>1, <2>2, <2>3, <2>4, <2>5, <2>6 DEF YesInv
  <1>3. ASSUME NEW f \in Fun, AskFun(f) \/ \E i \in DOMAIN body[f] : AskStmt(f, i)
        PROVE  YesInv'
    BY <1>1, <1>3, AskFunYes, AskStmtYes
  <1>4. CASE Check
    BY <1>1, <1>4, CallYes, StmtEndYes, ReturnYes, ReturnStmtYes DEF Check
  <1> QED
    BY <1>2, <1>3, <1>4 DEF Next

\* No call that could be dropped is kept: YES, as an answer or in the table,
\* is only said of what writes outside of a function or calls extern code.
THEOREM YesSound == Spec => []YesMeansEffect
  <1>1. YesInv => YesMeansEffect
    BY DEF YesInv, YesMeansEffect
  <1> QED
    BY <1>1, InitYes, NextYes, PTL DEF Spec

-----------------------------------------------------------------------------
(* What NO is said of.                                                     *)

\* A statement that does nothing but call functions of S
Harmless(stmt, S) == stmt.write = "local" /\ Callees(stmt) \subseteq S

\* The functions of program b that have no effect unless one of A has
Quiet(b, A) ==
    UNION {S \in SUBSET Fun : \A f \in S \ A : \A i \in DOMAIN b[f] : Harmless(b[f][i], S)}

\* The programs of the theorem
Regular(b) == ~LongCycle(b) /\ ~Overlooks(b)

\* The statements that a frame is there for, in program b, after question q
Work(x, b, q) == IF x.fun = NoFun THEN <<b[q[1]][q[2]]>> ELSE b[x.fun]

\* What has been assumed to have no effect when frame x, called from g, has
\* found none: its own function, and g if x has met an open function.
Assumed(x, g) == {x.fun} \cup (IF x.effect = PROCESSING THEN {g} ELSE {})

\* As long as a frame has found no effect, what is behind it has none, but
\* for what was assumed.
FrameNone(x, g, b, q) ==
    x.effect # YES =>
        LET work  == Work(x, b, q)
            done  == Len(work) - Len(x.stmts)
            quiet == Quiet(b, Assumed(x, g))
        IN
        /\ Len(x.stmts) <= Len(work)
        /\ \A j \in 1..Len(x.stmts) : x.stmts[j] = work[done + j]
        /\ \A j \in 1..done : Harmless(work[j], quiet)
        /\ x.stmts # <<>> => \A k \in 1..x.call : Head(x.stmts).calls[k] \in quiet

CallerOf(st, k) == IF k = 1 THEN NoFun ELSE st[k - 1].fun

\* The call that the frame below waits for
Waits(x, caller) ==
    /\ caller.stmts # <<>>
    /\ caller.call + 1 \in DOMAIN Head(caller.stmts).calls
    /\ x.fun = Head(caller.stmts).calls[caller.call + 1]

NoneInv ==
    /\ \A f \in Fun : memo[f] = NO => f \in Quiet(body, {})
    /\ \A k \in DOMAIN stack : FrameNone(stack[k], CallerOf(stack, k), body, asked)
    /\ \A k \in DOMAIN stack : k > 1 => Waits(stack[k], stack[k - 1])
    /\ 1 \in DOMAIN stack /\ stack[1].fun = NoFun => asked[2] # 0
    /\ asked[2] # 0 => asked[1] \in Fun /\ asked[2] \in DOMAIN body[asked[1]]
    /\ stack = <<>> /\ answer = NO =>
          IF asked[2] = 0 THEN asked[1] \in Quiet(body, {})
          ELSE Harmless(body[asked[1]][asked[2]], Quiet(body, {}))

NoInv == YesInv /\ (Regular(body) => NoneInv)

-----------------------------------------------------------------------------
(* Quiet functions.                                                        *)

LEMMA QuietLargest ==
    ASSUME NEW b, NEW A, NEW S \in SUBSET Fun,
           \A f \in S \ A : \A i \in DOMAIN b[f] : Harmless(b[f][i], S)
    PROVE  S \subseteq Quiet(b, A)
  BY DEF Quiet

LEMMA QuietHarmless ==
    ASSUME NEW b, NEW A
    PROVE  /\ Quiet(b, A) \subseteq Fun
           /\ \A f \in Quiet(b, A) \ A : \A i \in DOMAIN b[f] :
                 Harmless(b[f][i], Quiet(b, A))
  <1>1. Quiet(b, A) \subseteq Fun
    BY DEF Quiet
  <1>2. ASSUME NEW f \in Quiet(b, A) \ A, NEW i \in DOMAIN b[f]
        PROVE  Harmless(b[f][i], Quiet(b, A))
    <2>1. PICK S \in SUBSET Fun :
             /\ f \in S
             /\ \A h \in S \ A : \A j \in DOMAIN b[h] : Harmless(b[h][j], S)
      BY DEF Quiet
    <2>2. S \subseteq Quiet(b, A)
      BY <2>1, QuietLargest
    <2>3. Harmless(b[f][i], S)
      BY <2>1
    <2> QED
      BY <2>2, <2>3 DEF Harmless
  <1> QED
    BY <1>1, <1>2

\* More is quiet under more assumptions.
LEMMA QuietGrows ==
    ASSUME NEW b, NEW A, NEW B, A \cap Fun \subseteq B
    PROVE  Quiet(b, A) \subseteq Quiet(b, B)
  <1> DEFINE S == Quiet(b, A)
  <1>1. S \in SUBSET Fun
    BY QuietHarmless
  <1>2. \A f \in S \ A : \A i \in DOMAIN b[f] : Harmless(b[f][i], S)
    BY QuietHarmless
  <1> HIDE DEF S
  <1>3. \A f \in S \ B : \A i \in DOMAIN b[f] : Harmless(b[f][i], S)
    BY <1>1, <1>2
  <1>4. S \subseteq Quiet(b, B)
    BY <1>1, <1>3, QuietLargest
  <1> QED
    BY <1>4 DEF S

\* What is assumed quiet is.
LEMMA QuietAssumed ==
    ASSUME NEW b, NEW A, NEW f \in Fun, f \in A
    PROVE  f \in Quiet(b, A)
  <1>1. {f} \subseteq Quiet(b, A)
    BY QuietLargest
  <1> QED
    BY <1>1

\* A function that is quiet if it is assumed to be is quiet: recursion does
\* no harm.
LEMMA QuietCloses ==
    ASSUME NEW b, NEW A, NEW f \in Fun,
           \A i \in DOMAIN b[f] : Harmless(b[f][i], Quiet(b, {f} \cup A))
    PROVE  f \in Quiet(b, A)
  <1> DEFINE S == Quiet(b, {f} \cup A)
  <1>1. S \in SUBSET Fun /\ f \in S
    BY QuietHarmless, QuietAssumed
  <1>2. \A h \in S \ ({f} \cup A) : \A i \in DOMAIN b[h] : Harmless(b[h][i], S)
    BY QuietHarmless
  <1>3. \A i \in DOMAIN b[f] : Harmless(b[f][i], S)
    OBVIOUS
  <1> HIDE DEF S
  <1>4. \A h \in S \ A : \A i \in DOMAIN b[h] : Harmless(b[h][i], S)
    BY <1>2, <1>3
  <1>5. S \subseteq Quiet(b, A)
    BY <1>1, <1>4, QuietLargest
  <1> QED
    BY <1>1, <1>5

\* Quiet without assumptions: no effect, as the functions that are not quiet
\* are closed under what makes an effect.
LEMMA QuietMeansNone ==
    /\ \A f \in Quiet(body, {}) : ~Effectful(f)
    /\ \A stmt : Harmless(stmt, Quiet(body, {})) => ~StmtEffectful(stmt)
  <1> DEFINE S == Quiet(body, {})
  <1>1. S \subseteq Fun /\ \A f \in S : \A i \in DOMAIN body[f] : Harmless(body[f][i], S)
    BY QuietHarmless
  <1> HIDE DEF S
  <1>2. \A stmt : Harmless(stmt, S) => ~Direct(stmt) /\ Callees(stmt) \subseteq S
    BY <1>1, FunAssumption DEF Harmless, Direct
  <1>3. Closed(Fun \ S)
    <2> SUFFICES ASSUME NEW f \in Fun, NEW i \in DOMAIN body[f],
                        Direct(body[f][i]) \/ Callees(body[f][i]) \cap (Fun \ S) # {}
                 PROVE  f \notin S
      BY DEF Closed
    <2> QED
      BY <1>1, <1>2
  <1>4. \A f \in S : ~Effectful(f)
    BY <1>3 DEF Effectful
  <1>5. \A stmt : Harmless(stmt, S) => ~StmtEffectful(stmt)
    BY <1>2, <1>4 DEF StmtEffectful
  <1> QED
    BY <1>4, <1>5 DEF S

LEMMA OrNone ==
    \A e1, e2 \in Effect : Or(e1, e2) # YES =>
        /\ e1 # YES /\ e2 # YES
        /\ e1 = PROCESSING \/ e2 = PROCESSING => Or(e1, e2) = PROCESSING
  BY DEF Effect, Or, NO, PROCESSING, YES

-----------------------------------------------------------------------------
(* Frames.                                                                 *)

\* The next call of a frame is done, and its callee is quiet.
LEMMA MergedNone ==
    ASSUME NEW old \in FrameType, NEW g, NEW b, NEW q, FrameNone(old, g, b, q),
           NEW effect \in Effect, old.stmts # <<>>,
           effect # YES => Head(old.stmts).calls[old.call + 1] \in
                Quiet(b, {old.fun} \cup (IF effect = PROCESSING THEN {g} ELSE {}))
    PROVE  FrameNone([old EXCEPT !.effect = Or(@, effect), !.call = @ + 1], g, b, q)
  <1> DEFINE new == [old EXCEPT !.effect = Or(@, effect), !.call = @ + 1]
  <1>1. /\ new.effect = Or(old.effect, effect) /\ new.fun = old.fun
        /\ new.stmts = old.stmts /\ new.call = old.call + 1
        /\ old.effect \in Effect /\ old.call \in Nat
    BY FrameMerged DEF FrameType
  <1> HIDE DEF new
  <1> SUFFICES ASSUME new.effect # YES PROVE FrameNone(new, g, b, q)
    BY DEF FrameNone, new
  <1>2. old.effect # YES /\ effect # YES
    BY <1>1, OrNone
  <1>3. /\ Assumed(old, g) \subseteq Assumed(new, g)
        /\ {old.fun} \cup (IF effect = PROCESSING THEN {g} ELSE {}) \subseteq Assumed(new, g)
    BY <1>1, OrNone DEF Assumed
  <1>4. Quiet(b, Assumed(old, g)) \subseteq Quiet(b, Assumed(new, g))
    BY <1>3, QuietGrows
  <1>5. Head(old.stmts).calls[old.call + 1] \in Quiet(b, Assumed(new, g))
    BY <1>2, <1>3, QuietGrows
  <1>6. Work(new, b, q) = Work(old, b, q)
    BY <1>1 DEF Work
  <1> DEFINE work == Work(old, b, q)
             done == Len(work) - Len(old.stmts)
             S    == Quiet(b, Assumed(old, g))
             T    == Quiet(b, Assumed(new, g))
  <1>7. /\ Len(old.stmts) <= Len(work)
        /\ \A j \in 1..Len(old.stmts) : old.stmts[j] = work[done + j]
        /\ \A j \in 1..done : Harmless(work[j], S)
        /\ \A k \in 1..old.call : Head(old.stmts).calls[k] \in S
    BY <1>2 DEF FrameNone
  <1> HIDE DEF work, done, S, T
  <1>8. \A j \in 1..done : Harmless(work[j], T)
    BY <1>4, <1>7 DEF Harmless, S, T
  <1>9. \A k \in 1..(old.call + 1) : Head(old.stmts).calls[k] \in T
    BY <1>1, <1>4, <1>5, <1>7 DEF S, T
  <1> QED
    BY <1>1, <1>6, <1>7, <1>8, <1>9 DEF FrameNone, work, done, T

\* A statement is done, and has no effect.
LEMMA AdvancedNone ==
    ASSUME NEW old \in FrameType, NEW g, NEW b, NEW q, FrameNone(old, g, b, q),
           NEW new \in FrameType, new.fun = old.fun, new.effect = old.effect,
           new.call = 0, new.stmts = Tail(old.stmts), old.stmts # <<>>,
           old.effect # YES => Harmless(Head(old.stmts), Quiet(b, Assumed(old, g))),
           Len(Work(old, b, q)) \in Nat
    PROVE  FrameNone(new, g, b, q)
  <1> DEFINE work == Work(old, b, q)
             n    == Len(old.stmts)
             m    == Len(new.stmts)
             w    == Len(work)
             done == w - n
             S    == Quiet(b, Assumed(old, g))
  <1> SUFFICES ASSUME old.effect # YES PROVE FrameNone(new, g, b, q)
    BY DEF FrameNone
  <1>1. /\ n <= w
        /\ \A j \in 1..n : old.stmts[j] = work[done + j]
        /\ \A j \in 1..done : Harmless(work[j], S)
    BY DEF FrameNone
  <1>2. Work(new, b, q) = work /\ Assumed(new, g) = Assumed(old, g)
    BY DEF Work, Assumed
  <1>3. /\ n \in Nat \ {0} /\ m = n - 1
        /\ \A j \in 1..m : new.stmts[j] = old.stmts[j + 1]
        /\ Head(old.stmts) = old.stmts[1]
    <2>1. old.stmts \in Seq(Stmt)
      BY DEF FrameType
    <2> QED
      BY <2>1, HeadTailProperties, ElementOfSeq
  <1>4. w \in Nat /\ Harmless(Head(old.stmts), S)
    OBVIOUS
  <1> HIDE DEF w, n, m, S, work
  <1>5. done \in Nat
    BY <1>1, <1>3, <1>4
  <1>6. \A j \in 1..(done + 1) : Harmless(work[j], S)
    <2>1. Head(old.stmts) = work[done + 1]
      BY <1>1, <1>3
    <2>2. \A j \in 1..(done + 1) : j = done + 1 \/ j \in 1..done
      BY <1>5
    <2> QED
      BY <1>1, <1>4, <2>1, <2>2
  <1>7. w - m = done + 1 /\ m <= w
    BY <1>1, <1>3, <1>4
  <1>8. ASSUME NEW j \in 1..m PROVE new.stmts[j] = work[w - m + j]
    <2>1. j + 1 \in 1..n /\ done + (j + 1) = w - m + j
      BY <1>3, <1>4
    <2>2. new.stmts[j] = work[done + (j + 1)]
      BY <1>1, <1>3, <2>1
    <2> QED
      BY <2>1, <2>2
  <1> HIDE DEF done
  <1>9. \A k \in 1..new.call : FALSE
    OBVIOUS
  <1>10. \A j \in 1..(w - m) : Harmless(work[j], S)
    BY <1>6, <1>7
  <1> QED
    BY <1>2, <1>7, <1>8, <1>9, <1>10 DEF FrameNone, S, w, m

\* A frame is opened.
LEMMA OpenedNone ==
    ASSUME NEW x \in FrameType, NEW g, NEW b, NEW q,
           x.stmts = Work(x, b, q), x.call = 0
    PROVE  FrameNone(x, g, b, q)
  <1>1. Len(x.stmts) \in Nat /\ Len(x.stmts) - Len(x.stmts) = 0
    BY DEF FrameType
  <1>2. \A j \in 1..Len(x.stmts) : 0 + j = j
    BY <1>1
  <1> QED
    BY <1>1, <1>2 DEF FrameNone

\* A frame is at its end: a function that it is there for is quiet, but for
\* what was assumed of its caller.
LEMMA EndedNone ==
    ASSUME NEW x \in FrameType, NEW g, NEW b \in [Fun -> Seq(Stmt)], NEW q,
           FrameNone(x, g, b, q), x.stmts = <<>>, x.effect # YES
    PROVE  /\ x.fun \in Fun => x.fun \in
                   Quiet(b, IF x.effect = PROCESSING THEN {g} ELSE {})
           /\ x.fun = NoFun => Harmless(b[q[1]][q[2]], Quiet(b, Assumed(x, g)))
  <1> DEFINE work == Work(x, b, q)
             S    == Quiet(b, Assumed(x, g))
  <1>1. \A j \in 1..(Len(work) - 0) : Harmless(work[j], S)
    BY DEF FrameNone
  <1>2. ASSUME x.fun \in Fun
        PROVE  x.fun \in Quiet(b, IF x.effect = PROCESSING THEN {g} ELSE {})
    <2>1. work = b[x.fun] /\ work \in Seq(Stmt)
      BY <1>2, FunAssumption DEF Work
    <2>2. \A i \in DOMAIN b[x.fun] : Harmless(b[x.fun][i], S)
      <3> HIDE DEF work, S
      <3> QED
        BY <1>1, <2>1
    <2> QED
      BY <1>2, <2>2, QuietCloses DEF Assumed
  <1>3. ASSUME x.fun = NoFun
        PROVE  Harmless(b[q[1]][q[2]], S)
    <2>1. work = <<b[q[1]][q[2]]>>
      BY <1>3 DEF Work
    <2>2. Len(work) = 1 /\ work[1] = b[q[1]][q[2]]
      BY <2>1
    <2> HIDE DEF work, S
    <2> QED
      BY <1>1, <2>2
  <1> QED
    BY <1>2, <1>3

-----------------------------------------------------------------------------
(* Recursion.                                                              *)

\* The call that the frame on top is at.
LEMMA NextCall ==
    ASSUME Inv, NEW c, AtCall(c)
    PROVE  /\ stack # <<>> /\ Top.stmts # <<>>
           /\ Head(Top.stmts) \in Stmt
           /\ Top.call + 1 \in DOMAIN Head(Top.stmts).calls
           /\ c = Head(Top.stmts).calls[Top.call + 1]
  <1>1. stack # <<>> /\ Top.stmts # <<>>
    BY DEF AtCall, Checking
  <1>2. Top.call \in Nat /\ Top.stmts \in Seq(Stmt)
    BY <1>1, TopFrame
  <1>3. Head(Top.stmts) \in Stmt
    BY <1>1, <1>2, HeadTailProperties
  <1>4. Head(Top.stmts).calls \in Seq(Fun \cup Extern)
    BY <1>3 DEF Stmt
  <1>5. Top.call + 1 \in DOMAIN Head(Top.stmts).calls
    BY <1>2, <1>4 DEF AtCall
  <1> QED
    BY <1>1, <1>3, <1>5 DEF AtCall

\* A function calls what is called in the statement its frame is at.
LEMMA FrameCalls ==
    ASSUME YesInv, NEW k \in DOMAIN stack, stack[k].fun \in Fun,
           stack[k].stmts # <<>>, NEW c \in Callees(Head(stack[k].stmts))
    PROVE  Calls(body, stack[k].fun, c)
  <1>1. stack[k] \in FrameType
    BY ElementOfSeq DEF YesInv, Inv, TypeOK
  <1>2. FrameOK(stack[k]) /\ stack[k].stmts \in Seq(Stmt)
    BY <1>1 DEF YesInv, FrameType
  <1>3. 1 \in DOMAIN stack[k].stmts /\ Head(stack[k].stmts) = stack[k].stmts[1]
    BY <1>2
  <1>4. Owns(stack[k], Head(stack[k].stmts))
    BY <1>2, <1>3 DEF FrameOK
  <1> QED
    BY <1>4, FunAssumption DEF Owns, Calls

\* The only open function that is called, other than by itself, is the one
\* that the frame on top was opened for: any other would close a long cycle.
LEMMA OnlyCaller ==
    ASSUME YesInv, ~LongCycle(body), NEW c \in Fun, AtCall(c),
           memo[c] = PROCESSING, ~IsSelf(c)
    PROVE  Len(stack) # 1 /\ c = stack[Len(stack) - 1].fun
  <1> DEFINE n == Len(stack)
  <1>1. /\ stack # <<>> /\ Top.stmts # <<>> /\ c \in Callees(Head(Top.stmts))
        /\ n \in Nat \ {0} /\ DOMAIN stack = 1..n /\ Top = stack[n]
    BY CalledByHead, TopFrame DEF YesInv
  <1>2. PICK k \in 1..n : stack[k].fun = c
    BY <1>1 DEF YesInv, Inv, MarksMatchStack
  <1> HIDE DEF n
  <1>3. k # n
    BY <1>1, <1>2 DEF YesInv, Inv, Shape, IsSelf
  <1>4. k < n /\ k \in Nat /\ k >= 1
    BY <1>1, <1>2, <1>3
  <1>5. \A i \in k..n : i \in 1..n /\ stack[i].fun \in Fun
    BY <1>1, <1>2, <1>4 DEF YesInv, Inv, Shape
  <1> DEFINE m     == n - k + 1
             cycle == [i \in 1..m |-> stack[k + i - 1].fun]
  <1>6. m \in Nat /\ m >= 2 /\ \A i \in 1..m : k + i - 1 \in k..n
    BY <1>1, <1>4
  <1>7. cycle \in [1..m -> Fun]
    BY <1>5, <1>6
  <1>8. ASSUME NEW i \in 1..m, NEW j \in 1..m, cycle[i] = cycle[j]
        PROVE  i = j
    <2>1. k + i - 1 \in 1..n /\ k + j - 1 \in 1..n
      BY <1>5, <1>6
    <2>2. stack[k + i - 1].fun = stack[k + j - 1].fun /\ stack[k + i - 1].fun # NoFun
      BY <1>5, <1>6, <1>8, FunAssumption
    <2>3. k + i - 1 = k + j - 1
      BY <1>1, <2>1, <2>2 DEF YesInv, Inv, MarksMatchStack
    <2> QED
      BY <1>4, <2>3
  <1>9. ASSUME NEW i \in 1..(m - 1)
        PROVE  Calls(body, cycle[i], cycle[i + 1])
    <2> DEFINE p == k + i - 1
    <2>1. /\ p \in k..n /\ p + 1 \in k..n /\ p + 1 > 1 /\ p + 1 - 1 = p
          /\ cycle[i] = stack[p].fun /\ cycle[i + 1] = stack[p + 1].fun
      <3>1. i \in 1..m /\ i + 1 \in 1..m /\ k + (i + 1) - 1 = p + 1
        BY <1>4, <1>6
      <3>2. cycle[i] = stack[p].fun /\ cycle[i + 1] = stack[p + 1].fun
        <4>1. cycle[i] = stack[k + i - 1].fun /\ cycle[i + 1] = stack[k + (i + 1) - 1].fun
          <5> HIDE DEF m
          <5> QED
            BY <3>1
        <4> QED
          BY <3>1, <4>1
      <3>3. p \in k..n /\ p + 1 \in k..n /\ p + 1 > 1 /\ p + 1 - 1 = p
        BY <1>1, <1>4
      <3> QED
        BY <3>2, <3>3
    <2> HIDE DEF p, cycle
    <2>2. p \in DOMAIN stack /\ p + 1 \in DOMAIN stack /\ stack[p].fun \in Fun
      BY <1>1, <1>5, <2>1
    <2>3. CalledFrom(stack[p + 1], stack[p])
      BY <2>1, <2>2 DEF YesInv
    <2>4. stack[p].stmts # <<>> /\ stack[p + 1].fun \in Callees(Head(stack[p].stmts))
      BY <2>3 DEF CalledFrom
    <2>5. Calls(body, stack[p].fun, stack[p + 1].fun)
      BY <2>2, <2>4, FrameCalls
    <2> QED
      BY <2>1, <2>5
  <1>10. Calls(body, cycle[m], cycle[1])
    <2>1. n \in DOMAIN stack /\ stack[n].fun \in Fun
      BY <1>1, <1>4, <1>5
    <2>2. Calls(body, stack[n].fun, c)
      BY <1>1, <2>1, FrameCalls
    <2>3. cycle[m] = stack[n].fun /\ cycle[1] = c
      BY <1>1, <1>2, <1>4, <1>6
    <2> QED
      BY <2>2, <2>3
  <1>11. m <= Cardinality(Fun) /\ Cardinality(Fun) \in Nat
    <2>1. Cardinality(Fun) \in Nat
      BY FS_CardinalityType, FunAssumption
    <2>2. Cardinality(1..m) = m /\ 1 \in Int /\ m \in Int
      BY <1>6, FS_Interval
    <2>3. cycle \in Injection(1..m, Fun)
      <3> HIDE DEF cycle, m
      <3> QED
        BY <1>7, <1>8 DEF Injection, IsInjective
    <2> HIDE DEF cycle, m
    <2>4. Cardinality(1..m) <= Cardinality(Fun)
      BY <2>3, FS_Injection, FunAssumption
    <2> QED
      BY <2>1, <2>2, <2>4
  <1>12. m < 3
    <2> SUFFICES ASSUME m >= 3 PROVE FALSE
      BY <1>6
    <2> HIDE DEF cycle, m
    <2>1. m \in 3..Cardinality(Fun)
      BY <1>6, <1>11
    <2> QED
      BY <1>7, <1>8, <1>9, <1>10, <2>1 DEF LongCycle
  <1>13. k = n - 1
    BY <1>1, <1>4, <1>12
  <1> QED
    BY <1>1, <1>2, <1>4, <1>13 DEF n

-----------------------------------------------------------------------------
(* The steps.                                                              *)

\* What a frame is there for is a sequence of statements.
LEMMA WorkLength ==
    ASSUME YesInv, NoneInv, NEW x \in FrameType
    PROVE  Len(Work(x, body, asked)) \in Nat
  <1>1. CASE x.fun = NoFun
    BY <1>1 DEF Work
  <1>2. CASE x.fun # NoFun
    <2>1. x.fun \in Fun /\ body \in [Fun -> Seq(Stmt)]
      BY <1>2 DEF FrameType, YesInv, Inv, TypeOK
    <2> QED
      BY <1>2, <2>1 DEF Work
  <1> QED
    BY <1>1, <1>2

\* The frame on top moves on.
LEMMA TopMovesNone ==
    ASSUME YesInv, NoneInv, stack # <<>>, NEW frame \in FrameType,
           frame.fun = Top.fun, stack' = SetTop(frame),
           FrameNone(frame, CallerOf(stack, Len(stack)), body, asked),
           UNCHANGED <<body, memo, asked, answer>>
    PROVE  NoneInv'
  <1> DEFINE n == Len(stack)
  <1>1. /\ stack \in Seq(FrameType) /\ n \in Nat \ {0} /\ DOMAIN stack = 1..n
        /\ Top = stack[n]
    BY TopFrame DEF YesInv
  <1>2. /\ DOMAIN stack' = 1..n /\ stack'[n] = frame
        /\ \A k \in 1..n : k # n => stack'[k] = stack[k]
    BY <1>1, TopSet, LenProperties
  <1>3. FrameNone(frame, CallerOf(stack, n), body, asked)
    OBVIOUS
  <1> HIDE DEF n
  <1>4. \A k \in 1..n : stack'[k].fun = stack[k].fun /\ CallerOf(stack', k) = CallerOf(stack, k)
    BY <1>1, <1>2 DEF CallerOf
  <1>5. ASSUME NEW k \in DOMAIN stack'
        PROVE  FrameNone(stack'[k], CallerOf(stack', k), body', asked')
    <2>1. FrameNone(stack'[k], CallerOf(stack, k), body, asked)
      BY <1>1, <1>2, <1>3, <1>5 DEF NoneInv
    <2> QED
      BY <1>2, <1>4, <2>1
  <1>6. ASSUME NEW k \in DOMAIN stack', k > 1
        PROVE  Waits(stack'[k], stack'[k - 1])
    <2>1. k \in 1..n /\ k - 1 \in 1..n /\ k - 1 # n
      BY <1>1, <1>2, <1>6
    <2>2. Waits(stack[k], stack[k - 1])
      BY <1>1, <1>6, <2>1 DEF NoneInv
    <2> QED
      BY <1>2, <1>4, <2>1, <2>2 DEF Waits
  <1>7. 1 \in DOMAIN stack' /\ stack'[1].fun = NoFun => asked'[2] # 0
    BY <1>1, <1>2, <1>4 DEF NoneInv
  <1>8. stack' # <<>>
    BY <1>1, <1>2
  <1>9. \A f \in Fun : memo'[f] = NO => f \in Quiet(body', {})
    BY DEF NoneInv
  <1>10. asked'[2] # 0 => asked'[1] \in Fun /\ asked'[2] \in DOMAIN body'[asked'[1]]
    BY DEF NoneInv
  <1> QED
    BY <1>5, <1>6, <1>7, <1>8, <1>9, <1>10 DEF NoneInv

\* A call is merged whose callee is quiet, as far as its result says.
LEMMA MergesNone ==
    ASSUME YesInv, NoneInv, NEW c, AtCall(c), NEW effect \in Effect, Merge(effect),
           effect # YES => c \in Quiet(body, {Top.fun} \cup
               (IF effect = PROCESSING THEN {CallerOf(stack, Len(stack))} ELSE {})),
           UNCHANGED <<body, memo, asked, answer>>
    PROVE  NoneInv'
  <1> DEFINE frame == [Top EXCEPT !.effect = Or(@, effect), !.call = @ + 1]
             g     == CallerOf(stack, Len(stack))
  <1>1. /\ stack # <<>> /\ Top.stmts # <<>>
        /\ c = Head(Top.stmts).calls[Top.call + 1]
    BY NextCall DEF YesInv
  <1>2. /\ Top \in FrameType /\ Top = stack[Len(stack)]
        /\ Len(stack) \in DOMAIN stack
    BY <1>1, TopFrame DEF YesInv
  <1>3. FrameNone(Top, g, body, asked)
    BY <1>2 DEF NoneInv
  <1> HIDE DEF g
  <1>4. FrameNone(frame, g, body, asked)
    BY <1>1, <1>2, <1>3, MergedNone DEF g
  <1>5. frame \in FrameType /\ frame.fun = Top.fun
    <2>1. Top \in FrameType
      BY <1>2
    <2> QED
      BY <2>1, FrameMerged
  <1>6. stack' = SetTop(frame)
    BY DEF Merge
  <1> HIDE DEF frame
  <1> QED
    BY <1>1, <1>4, <1>5, <1>6, TopMovesNone DEF g

\* A check is opened, by a pass or for the next call of the frame on top.
LEMMA OpensNone ==
    ASSUME YesInv, NoneInv, NEW frame \in FrameType, stack' = Push(frame),
           UNCHANGED body, frame.call = 0, frame.stmts = Work(frame, body, asked'),
           \A f \in Fun : memo'[f] = NO => memo[f] = NO,
           \/ /\ stack = <<>>
              /\ frame.fun = NoFun => asked'[2] # 0
              /\ asked'[2] # 0 => asked'[1] \in Fun /\ asked'[2] \in DOMAIN body[asked'[1]]
           \/ stack # <<>> /\ Waits(frame, Top) /\ UNCHANGED asked
    PROVE  NoneInv'
  <1> DEFINE n == Len(stack)
  <1>1. stack \in Seq(FrameType) /\ n \in Nat /\ DOMAIN stack = 1..n
    BY DEF YesInv, Inv, TypeOK
  <1>2. /\ DOMAIN stack' = 1..(n + 1) /\ stack'[n + 1] = frame
        /\ \A k \in 1..n : stack'[k] = stack[k]
    <2>1. /\ stack' \in Seq(FrameType) /\ Len(stack') = n + 1
          /\ stack'[n + 1] = frame /\ \A k \in 1..n : stack'[k] = stack[k]
      BY <1>1, Pushed
    <2> QED
      BY <2>1, LenProperties
  <1>3. stack # <<>> => n # 0 /\ Top = stack[n]
    BY <1>1 DEF Top
  <1>4. stack = <<>> => n = 0
    BY <1>1
  <1> HIDE DEF n
  <1>5. ASSUME NEW k \in DOMAIN stack'
        PROVE  FrameNone(stack'[k], CallerOf(stack', k), body', asked')
    <2>1. CASE k = n + 1
      <3>1. FrameNone(frame, CallerOf(stack', k), body, asked')
        BY OpenedNone
      <3> QED
        BY <1>2, <2>1, <3>1
    <2>2. CASE k # n + 1
      <3>1. /\ k \in DOMAIN stack /\ stack'[k] = stack[k] /\ stack # <<>>
            /\ CallerOf(stack', k) = CallerOf(stack, k)
        BY <1>1, <1>2, <1>4, <1>5, <2>2 DEF CallerOf
      <3>2. FrameNone(stack[k], CallerOf(stack, k), body, asked)
        BY <3>1 DEF NoneInv
      <3> QED
        BY <3>1, <3>2
    <2> QED
      BY <2>1, <2>2
  <1>6. ASSUME NEW k \in DOMAIN stack', k > 1
        PROVE  Waits(stack'[k], stack'[k - 1])
    <2>1. CASE k = n + 1
      <3>1. stack # <<>> /\ stack'[k] = frame /\ stack'[k - 1] = stack[n]
        BY <1>1, <1>2, <1>4, <1>6, <2>1
      <3> QED
        BY <1>3, <3>1
    <2>2. CASE k # n + 1
      <3>1. k \in DOMAIN stack /\ stack'[k] = stack[k] /\ stack'[k - 1] = stack[k - 1]
        BY <1>1, <1>2, <1>6, <2>2
      <3> QED
        BY <1>6, <3>1 DEF NoneInv
    <2> QED
      BY <2>1, <2>2
  <1>7. 1 \in DOMAIN stack' /\ stack'[1].fun = NoFun => asked'[2] # 0
    BY <1>1, <1>2, <1>3, <1>4 DEF NoneInv
  <1>8. stack' # <<>>
    BY <1>1, <1>2
  <1>9. \A f \in Fun : memo'[f] = NO => f \in Quiet(body', {})
    BY DEF NoneInv
  <1>10. asked'[2] # 0 => asked'[1] \in Fun /\ asked'[2] \in DOMAIN body'[asked'[1]]
    BY DEF NoneInv
  <1> QED
    BY <1>5, <1>6, <1>7, <1>8, <1>9, <1>10 DEF NoneInv

\* The frame of a check of function f.
LEMMA FunFrame ==
    ASSUME Inv, NEW f \in Fun
    PROVE  /\ Frame(f, f, body[f]) \in FrameType
           /\ Frame(f, f, body[f]).fun = f /\ Frame(f, f, body[f]).call = 0
           /\ f # NoFun
           /\ \A q : Frame(f, f, body[f]).stmts = Work(Frame(f, f, body[f]), body, q)
  BY Effects, FunAssumption DEF Inv, TypeOK, Frame, FrameType, Work

LEMMA CallNone ==
    ASSUME YesInv, NoneInv, Regular(body), NEW c \in Fun \cup Extern,
           CallExtern(c) \/ CallSelf(c) \/ CallKnown(c) \/ CallNew(c)
    PROVE  NoneInv'
  <1> DEFINE g == CallerOf(stack, Len(stack))
  <1>1. CASE CallExtern(c)
    BY <1>1, MergesNone, Effects DEF CallExtern
  <1>2. CASE CallSelf(c)
    <2>1. c \in Fun /\ AtCall(c) /\ memo[c] = PROCESSING /\ c = Top.symbols
      BY <1>2 DEF CallSelf, IsSelf
    <2>2. Top \in FrameType /\ DOMAIN stack = 1..Len(stack) /\ Top = stack[Len(stack)]
          /\ Len(stack) \in Nat \ {0}
      BY <2>1, NextCall, TopFrame DEF YesInv
    <2>3. c = Top.fun
      <3>1. CASE Top.fun \in Fun
        BY <2>1, <2>2, <3>1 DEF YesInv, Inv, Shape
      <3>2. CASE Top.fun \notin Fun
        <4>1. Len(stack) = 1
          BY <2>2, <3>2 DEF YesInv, Inv, Shape
        <4>2. \E k \in DOMAIN stack : stack[k].fun = c
          BY <2>1 DEF YesInv, Inv, MarksMatchStack
        <4> QED
          BY <2>1, <2>2, <3>2, <4>1, <4>2
      <3> QED
        BY <3>1, <3>2
    <2>4. c \in Quiet(body, {Top.fun} \cup {})
      BY <2>1, <2>3, QuietAssumed
    <2> QED
      BY <1>2, <2>1, <2>4, MergesNone, Effects DEF CallSelf
  <1>3. CASE CallKnown(c)
    <2>1. /\ c \in Fun /\ AtCall(c) /\ memo[c] \in Effect /\ ~IsSelf(c)
          /\ Merge(memo[c]) /\ UNCHANGED <<body, memo, asked, answer>>
      BY <1>3 DEF CallKnown, YesInv, Inv, TypeOK
    <2>2. CASE memo[c] = PROCESSING
      <3>1. c = g
        <4>1. Len(stack) # 1 /\ c = stack[Len(stack) - 1].fun
          BY <2>1, <2>2, OnlyCaller DEF Regular
        <4> QED
          BY <4>1 DEF CallerOf
      <3> HIDE DEF g
      <3>2. c \in Quiet(body, {Top.fun} \cup {g})
        BY <2>1, <3>1, QuietAssumed
      <3> QED
        BY <2>1, <2>2, <3>2, MergesNone DEF g
    <2>3. CASE memo[c] = NO
      <3>1. c \in Quiet(body, {})
        BY <2>1, <2>3 DEF NoneInv
      <3>2. c \in Quiet(body, {Top.fun} \cup {})
        BY <3>1, QuietGrows
      <3> QED
        BY <2>1, <2>3, <3>2, MergesNone, Effects
    <2>4. CASE memo[c] = YES
      BY <2>1, <2>4, MergesNone
    <2> QED
      BY <2>1, <2>2, <2>3, <2>4 DEF Effect
  <1>4. CASE CallNew(c)
    <2>1. c \in Fun /\ AtCall(c) /\ stack' = Push(Frame(c, c, body[c]))
          /\ memo' = [memo EXCEPT ![c] = PROCESSING] /\ UNCHANGED <<body, asked>>
      BY <1>4 DEF CallNew
    <2>2. \A f \in Fun : memo'[f] = NO => memo[f] = NO
      BY <2>1, Effects DEF YesInv, Inv, TypeOK
    <2> DEFINE frame == Frame(c, c, body[c])
    <2>3. /\ frame \in FrameType /\ frame.fun = c /\ frame.call = 0
          /\ frame.stmts = Work(frame, body, asked')
      BY <2>1, FunFrame DEF YesInv
    <2>4. stack' = Push(frame)
      BY <2>1
    <2> HIDE DEF frame
    <2>5. stack # <<>> /\ Waits(frame, Top)
      BY <2>1, <2>3, NextCall DEF YesInv, Waits
    <2> QED
      BY <2>1, <2>2, <2>3, <2>4, <2>5, OpensNone
  <1> QED
    BY <1>1, <1>2, <1>3, <1>4

\* The statement that a frame is at does no harm, once its calls are known to
\* be quiet and unless it writes to outer variables.
LEMMA HeadHarmless ==
    ASSUME YesInv, NoneInv, Regular(body), stack # <<>>, Top.stmts # <<>>,
           Top.call = Len(Head(Top.stmts).calls), Head(Top.stmts).write # "outer",
           NEW S \in SUBSET Fun,
           \A k \in 1..Top.call : Head(Top.stmts).calls[k] \in S
    PROVE  Harmless(Head(Top.stmts), S)
  <1> DEFINE stmt == Head(Top.stmts)
  <1>1. /\ Top \in FrameType /\ Top.stmts \in Seq(Stmt)
        /\ Top = stack[Len(stack)] /\ DOMAIN stack = 1..Len(stack)
        /\ Len(stack) \in Nat \ {0}
    BY TopFrame DEF YesInv
  <1>2. stmt \in Stmt
    BY <1>1, HeadTailProperties
  <1>3. Owns(Top, stmt)
    BY HeadOwned
  <1> HIDE DEF stmt
  <1>4. ~Overlooked(stmt)
    <2>1. CASE Top.fun = NoFun
      <3>1. stmt = body[asked[1]][asked[2]] /\ asked[2] # 0
        BY <1>3, <2>1 DEF Owns
      <3>2. asked[1] \in Fun /\ asked[2] \in DOMAIN body[asked[1]]
        BY <3>1 DEF NoneInv
      <3> QED
        BY <3>1, <3>2 DEF Regular, Overlooks
    <2>2. CASE Top.fun # NoFun
      <3>1. Top.fun \in Fun /\ \E i \in DOMAIN body[Top.fun] : stmt = body[Top.fun][i]
        BY <1>1, <1>3, <2>2 DEF Owns, FrameType
      <3> QED
        BY <3>1 DEF Regular, Overlooks
    <2> QED
      BY <2>1, <2>2
  <1>5. Seen(stmt) \subseteq S
    <2>1. stmt.calls \in Seq(Fun \cup Extern)
      BY <1>2 DEF Stmt
    <2>2. DOMAIN stmt.calls = 1..Top.call
      BY <2>1 DEF stmt
    <2>3. \A k \in 1..Top.call : stmt.calls[k] \in S
      BY DEF stmt
    <2> QED
      BY <2>2, <2>3 DEF Seen
  <1>6. Seen(stmt) \cap Extern = {}
    BY <1>5, FunAssumption
  <1>7. stmt.write \in Write /\ stmt.write # "outer"
    BY <1>2 DEF Stmt, stmt
  <1>8. stmt.write # "array" /\ stmt.unseen \subseteq Seen(stmt)
    BY <1>4, <1>6, <1>7 DEF Overlooked
  <1>9. stmt.write = "local" /\ Callees(stmt) \subseteq S
    BY <1>5, <1>7, <1>8 DEF Write, Callees
  <1> QED
    BY <1>9 DEF Harmless, stmt

LEMMA StmtEndNone ==
    ASSUME YesInv, NoneInv, Regular(body), StmtEnd
    PROVE  NoneInv'
  <1> DEFINE stmt   == Head(Top.stmts)
             effect == IF stmt.write = "outer" THEN YES ELSE Top.effect
             g      == CallerOf(stack, Len(stack))
  <1>1. /\ stack # <<>> /\ Top.stmts # <<>> /\ Top.call = Len(stmt.calls)
        /\ UNCHANGED <<body, memo, asked, answer>>
    BY DEF StmtEnd, Checking
  <1>2. /\ Top \in FrameType /\ Top.effect \in Effect /\ Top.stmts \in Seq(Stmt)
        /\ Top = stack[Len(stack)] /\ Len(stack) \in DOMAIN stack
    BY <1>1, TopFrame DEF YesInv
  <1>3. PICK rest \in Later(Top.stmts) :
           /\ effect # YES => rest = Tail(Top.stmts)
           /\ stack' = SetTop([Top EXCEPT !.effect = effect, !.call = 0, !.stmts = rest])
    BY DEF StmtEnd
  <1>4. rest \in Seq(Stmt)
    BY <1>2, Suffixes
  <1>5. effect \in Effect
    BY <1>2, Effects
  <1> DEFINE frame == [Top EXCEPT !.effect = effect, !.call = 0, !.stmts = rest]
  <1>6. stack' = SetTop(frame)
    BY <1>3
  <1>7. effect # YES => effect = Top.effect /\ stmt.write # "outer"
    OBVIOUS
  <1> HIDE DEF effect
  <1>8. /\ frame \in FrameType /\ frame.effect = effect /\ frame.stmts = rest
        /\ frame.fun = Top.fun /\ frame.call = 0
    BY <1>2, <1>4, <1>5 DEF FrameType
  <1> HIDE DEF frame, stmt, g
  <1>9. FrameNone(Top, g, body, asked)
    BY <1>2 DEF NoneInv, g
  <1>10. CASE effect = YES
    <2>1. FrameNone(frame, g, body, asked)
      BY <1>8, <1>10 DEF FrameNone
    <2> QED
      BY <1>1, <1>6, <1>8, <2>1, TopMovesNone DEF g
  <1>11. CASE effect # YES
    <2> DEFINE S == Quiet(body, Assumed(Top, g))
    <2>1. \A k \in 1..Top.call : Head(Top.stmts).calls[k] \in S
      BY <1>1, <1>7, <1>9, <1>11 DEF FrameNone
    <2>2. S \in SUBSET Fun
      BY QuietHarmless
    <2> HIDE DEF S
    <2>3. Harmless(Head(Top.stmts), S)
      BY <1>1, <1>7, <1>11, <2>1, <2>2, HeadHarmless DEF stmt
    <2>4. Len(Work(Top, body, asked)) \in Nat
      BY <1>2, WorkLength
    <2>5. frame.effect = Top.effect /\ frame.stmts = Tail(Top.stmts)
      BY <1>3, <1>7, <1>8, <1>11
    <2>6. FrameNone(frame, g, body, asked)
      BY <1>1, <1>2, <1>8, <1>9, <2>3, <2>4, <2>5, AdvancedNone DEF S
    <2> QED
      BY <1>1, <1>6, <1>8, <2>6, TopMovesNone DEF g
  <1> QED
    BY <1>10, <1>11

\* A function is done.  Found free of effects it is quiet, and if that is only
\* so as long as the function below it is, it is forgotten, and the frame of
\* that function, which assumes no less, takes it as quiet.
LEMMA ReturnNone ==
    ASSUME YesInv, NoneInv, Return
    PROVE  NoneInv'
  <1> DEFINE n == Len(stack)
             f == Top.fun
             g == CallerOf(stack, n)
  <1>1. stack # <<>> /\ f \in Fun /\ Top.stmts = <<>> /\ UNCHANGED <<body, asked>>
    BY DEF Return
  <1>2. /\ stack \in Seq(FrameType) /\ n \in Nat \ {0} /\ DOMAIN stack = 1..n
        /\ Top = stack[n] /\ Top.effect \in Effect /\ Top \in FrameType
        /\ n = 1 => Top.effect # PROCESSING
    BY <1>1, TopFrame DEF YesInv
  <1>3. /\ Below \in Seq(FrameType) /\ Len(Below) = n - 1
        /\ Below = <<>> <=> n = 1
        /\ \A k \in 1..(n - 1) : Below[k] = stack[k]
    BY <1>1, <1>2, Popped
  <1>4. Top.effect # YES => f \in Quiet(body, IF Top.effect = PROCESSING THEN {g} ELSE {})
    <2>1. FrameNone(Top, g, body, asked)
      BY <1>2 DEF NoneInv
    <2>2. body \in [Fun -> Seq(Stmt)]
      BY DEF YesInv, Inv, TypeOK
    <2> HIDE DEF g
    <2> QED
      BY <1>1, <1>2, <2>1, <2>2, EndedNone
  <1>5. Top.effect = NO => f \in Quiet(body, {})
    BY <1>4, Effects
  <1>6. asked'[2] # 0 => asked'[1] \in Fun /\ asked'[2] \in DOMAIN body'[asked'[1]]
    BY <1>1 DEF NoneInv
  <1> HIDE DEF n, f, g
  <1>7. CASE n = 1
    <2>1. /\ answer' = Top.effect /\ stack' = <<>>
          /\ memo' = [memo EXCEPT ![f] = Top.effect]
      BY <1>3, <1>7 DEF Return, f
    <2>2. asked = <<f, 0>>
      <3>1. stack[1].fun = f /\ 1 \in DOMAIN stack
        BY <1>2, <1>7 DEF f
      <3> QED
        BY <1>1, <3>1 DEF YesInv
    <2>3. answer' = NO => asked'[2] = 0 /\ asked'[1] \in Quiet(body', {})
      BY <1>1, <1>5, <2>1, <2>2
    <2>4. \A h \in Fun : memo'[h] = NO => h \in Quiet(body', {})
      BY <1>1, <1>5, <2>1 DEF NoneInv, YesInv, Inv, TypeOK
    <2> QED
      BY <1>6, <2>1, <2>3, <2>4 DEF NoneInv
  <1>8. CASE n # 1
    <2> DEFINE open   == Top.effect = PROCESSING
               caller == Below[Len(Below)]
               result == IF open THEN NO ELSE Top.effect
               new    == [caller EXCEPT !.effect = Or(@, result), !.call = @ + 1]
               h      == CallerOf(stack, n - 1)
    <2>1. /\ memo' = [memo EXCEPT ![f] = IF open THEN NULL ELSE Top.effect]
          /\ stack' = [Below EXCEPT ![Len(Below)] = new]
      BY <1>3, <1>8 DEF Return, f
    <2>2. caller \in FrameType /\ caller = stack[n - 1]
      BY <1>2, <1>3, <1>8, ElementOfSeq
    <2>3. result \in Effect /\ result # PROCESSING /\ (result = YES <=> Top.effect = YES)
      BY <1>2, Effects
    <2>4. n - 1 \in DOMAIN stack /\ n \in DOMAIN stack /\ n > 1
      BY <1>2, <1>8
    <2>5. FrameNone(caller, h, body, asked) /\ Waits(Top, caller)
      BY <1>2, <2>2, <2>4 DEF NoneInv
    <2>6. g = caller.fun
      BY <1>8, <2>2 DEF g, CallerOf
    <2>7. result # YES => f \in Quiet(body, {caller.fun})
      <3>1. CASE Top.effect = PROCESSING
        BY <1>4, <2>6, <3>1, Effects
      <3>2. CASE Top.effect = NO
        BY <1>5, <3>2, QuietGrows
      <3> QED
        BY <1>2, <2>3, <3>1, <3>2 DEF Effect
    <2>8. \A d \in Fun : memo'[d] = NO => d \in Quiet(body', {})
      BY <1>1, <1>5, <2>1, Effects DEF NoneInv, YesInv, Inv, TypeOK, NULL, NO
    <2> HIDE DEF caller, result, h, open
    <2>9. /\ caller.stmts # <<>>
          /\ f = Head(caller.stmts).calls[caller.call + 1]
      BY <2>5 DEF Waits, f
    <2>10. result # YES => Head(caller.stmts).calls[caller.call + 1] \in
               Quiet(body, {caller.fun} \cup (IF result = PROCESSING THEN {h} ELSE {}))
      <3>1. {caller.fun} \cup (IF result = PROCESSING THEN {h} ELSE {}) = {caller.fun}
        BY <2>3
      <3> QED
        BY <2>7, <2>9, <3>1
    <2>11. FrameNone(new, h, body, asked)
      BY <2>2, <2>3, <2>5, <2>9, <2>10, MergedNone
    <2>12. new \in FrameType /\ new.fun = caller.fun
      BY <2>2, <2>3, FrameMerged
    <2> HIDE DEF new
    <2>13. /\ DOMAIN stack' = 1..(n - 1) /\ stack'[n - 1] = new
           /\ \A k \in 1..(n - 1) : k # n - 1 => stack'[k] = stack[k]
      <3>1. n \in Nat \ {0, 1} /\ Len(Below) = n - 1
        BY <1>2, <1>3, <1>8
      <3>2. \A k \in 1..(n - 1) : k # n - 1 =>
               [Below EXCEPT ![Len(Below)] = new][k] = Below[k]
        BY <1>3, <2>12, <3>1, Returned
      <3> QED
        BY <1>3, <2>1, <2>12, <3>1, <3>2, Returned
    <2>14. \A k \in 1..(n - 1) : /\ stack'[k].fun = stack[k].fun
                                 /\ CallerOf(stack', k) = CallerOf(stack, k)
      <3>1. \A k \in 1..(n - 1) : stack'[k].fun = stack[k].fun
        BY <2>2, <2>12, <2>13
      <3> QED
        BY <1>2, <3>1 DEF CallerOf
    <2>15. ASSUME NEW k \in DOMAIN stack'
           PROVE  FrameNone(stack'[k], CallerOf(stack', k), body', asked')
      <3>1. CASE k = n - 1
        BY <1>1, <2>11, <2>13, <2>14, <2>15, <3>1 DEF h
      <3>2. CASE k # n - 1
        <4>1. k \in DOMAIN stack /\ k \in 1..(n - 1) /\ stack'[k] = stack[k]
          BY <1>2, <2>13, <2>15, <3>2
        <4>2. FrameNone(stack[k], CallerOf(stack, k), body, asked)
          BY <4>1 DEF NoneInv
        <4> QED
          BY <1>1, <2>14, <4>1, <4>2
      <3> QED
        BY <3>1, <3>2
    <2>16. ASSUME NEW k \in DOMAIN stack', k > 1
           PROVE  Waits(stack'[k], stack'[k - 1])
      <3>1. /\ k \in 1..(n - 1) /\ k - 1 \in 1..(n - 1) /\ k - 1 # n - 1
            /\ k \in DOMAIN stack
        BY <1>2, <2>13, <2>16
      <3>2. Waits(stack[k], stack[k - 1])
        BY <2>16, <3>1 DEF NoneInv
      <3> QED
        BY <2>13, <2>14, <3>1, <3>2 DEF Waits
    <2>17. 1 \in DOMAIN stack' /\ stack'[1].fun = NoFun => asked'[2] # 0
      <3>1. 1 \in 1..(n - 1) /\ 1 \in DOMAIN stack
        BY <1>2, <1>8
      <3> QED
        BY <1>1, <2>14, <3>1 DEF NoneInv
    <2>18. stack' # <<>>
      BY <1>2, <1>8, <2>13
    <2> QED
      BY <1>6, <2>8, <2>15, <2>16, <2>17, <2>18 DEF NoneInv
  <1> QED
    BY <1>7, <1>8

LEMMA ReturnStmtNone ==
    ASSUME YesInv, NoneInv, ReturnStmt
    PROVE  NoneInv'
  <1> DEFINE g == CallerOf(stack, Len(stack))
  <1>1. stack # <<>> /\ Top.fun = NoFun /\ Top.stmts = <<>>
    BY DEF ReturnStmt
  <1>2. /\ DOMAIN stack = 1..Len(stack) /\ Len(stack) \in Nat \ {0}
        /\ Top = stack[Len(stack)] /\ Top \in FrameType
    BY <1>1, TopFrame DEF YesInv
  <1>3. Len(stack) = 1
    BY <1>1, <1>2, FunAssumption DEF YesInv, Inv, Shape
  <1>4. stack' = <<>> /\ answer' = Top.effect /\ UNCHANGED <<body, memo, asked>>
    <2>1. stack \in Seq(FrameType)
      BY DEF YesInv, Inv, TypeOK
    <2> QED
      BY <1>1, <1>3, <2>1, Popped DEF ReturnStmt
  <1>5. g = NoFun
    BY <1>3 DEF CallerOf
  <1>6. FrameNone(Top, g, body, asked)
    BY <1>2 DEF NoneInv
  <1> HIDE DEF g
  <1>7. ASSUME Top.effect = NO
        PROVE  Harmless(body[asked[1]][asked[2]], Quiet(body, {}))
    <2>1. body \in [Fun -> Seq(Stmt)]
      BY DEF YesInv, Inv, TypeOK
    <2>2. Harmless(body[asked[1]][asked[2]], Quiet(body, Assumed(Top, g)))
      BY <1>1, <1>2, <1>6, <1>7, <2>1, EndedNone, Effects
    <2>3. Assumed(Top, g) \cap Fun \subseteq {}
      BY <1>1, <1>5, FunAssumption DEF Assumed
    <2>4. Quiet(body, Assumed(Top, g)) \subseteq Quiet(body, {})
      BY <2>3, QuietGrows
    <2> QED
      BY <2>2, <2>4 DEF Harmless
  <1>8. asked[2] # 0
    BY <1>1, <1>2, <1>3 DEF NoneInv
  <1>9. answer' = NO => Harmless(body'[asked'[1]][asked'[2]], Quiet(body', {}))
    BY <1>4, <1>7
  <1>10. \A f \in Fun : memo'[f] = NO => f \in Quiet(body', {})
    BY <1>4 DEF NoneInv
  <1>11. asked'[2] # 0 => asked'[1] \in Fun /\ asked'[2] \in DOMAIN body'[asked'[1]]
    BY <1>4 DEF NoneInv
  <1> QED
    BY <1>4, <1>8, <1>9, <1>10, <1>11 DEF NoneInv

LEMMA AskFunNone ==
    ASSUME YesInv, NoneInv, NEW f \in Fun, AskFun(f)
    PROVE  NoneInv'
  <1>1. stack = <<>> /\ asked' = <<f, 0>> /\ UNCHANGED body
    BY DEF AskFun
  <1>2. CASE memo[f] = NULL
    <2>1. stack' = Push(Frame(f, f, body[f])) /\ memo' = [memo EXCEPT ![f] = PROCESSING]
      BY <1>2 DEF AskFun
    <2>2. \A h \in Fun : memo'[h] = NO => memo[h] = NO
      BY <2>1, Effects DEF YesInv, Inv, TypeOK
    <2> DEFINE frame == Frame(f, f, body[f])
    <2>3. /\ frame \in FrameType /\ frame.fun = f /\ frame.call = 0 /\ f # NoFun
          /\ frame.stmts = Work(frame, body, asked')
      BY FunFrame DEF YesInv
    <2>4. stack' = Push(frame) /\ asked'[2] = 0
      BY <1>1, <2>1
    <2> HIDE DEF frame
    <2> QED
      BY <1>1, <2>2, <2>3, <2>4, OpensNone
  <1>3. CASE memo[f] # NULL
    <2>1. answer' = memo[f] /\ stack' = <<>> /\ memo' = memo
      BY <1>1, <1>3 DEF AskFun
    <2>2. \A h \in Fun : memo'[h] = NO => h \in Quiet(body', {})
      BY <1>1, <2>1 DEF NoneInv
    <2>3. answer' = NO => f \in Quiet(body', {})
      BY <2>1, <2>2
    <2> QED
      BY <1>1, <2>1, <2>2, <2>3 DEF NoneInv
  <1> QED
    BY <1>2, <1>3

LEMMA AskStmtNone ==
    ASSUME YesInv, NoneInv, NEW f \in Fun, NEW i \in DOMAIN body[f], AskStmt(f, i)
    PROVE  NoneInv'
  <1> DEFINE frame == Frame(NoFun, f, <<body[f][i]>>)
  <1>1. body[f] \in Seq(Stmt) /\ i \in Nat \ {0} /\ body[f][i] \in Stmt
    BY DEF YesInv, Inv, TypeOK
  <1>2. /\ stack = <<>> /\ asked' = <<f, i>> /\ UNCHANGED <<body, memo>>
        /\ stack' = Push(frame)
    BY DEF AskStmt
  <1>3. /\ frame \in FrameType /\ frame.fun = NoFun /\ frame.call = 0
        /\ frame.stmts = <<body[f][i]>>
    BY <1>1, Effects DEF Frame, FrameType
  <1> HIDE DEF frame
  <1>4. asked'[1] = f /\ asked'[2] = i
    BY <1>2
  <1>5. frame.stmts = Work(frame, body, asked')
    BY <1>3, <1>4 DEF Work
  <1>6. asked'[2] # 0 /\ asked'[1] \in Fun /\ asked'[2] \in DOMAIN body[asked'[1]]
    BY <1>1, <1>4
  <1> QED
    BY <1>2, <1>3, <1>5, <1>6, OpensNone

LEMMA InitNone == Init => NoInv
  <1> SUFFICES ASSUME Init PROVE NoInv
    OBVIOUS
  <1>1. /\ stack = <<>> /\ asked = <<NoFun, 0>> /\ answer = NULL
        /\ \A f \in Fun : memo[f] = NULL
    BY DEF Init
  <1> QED
    BY <1>1, InitYes DEF NoInv, NoneInv, NULL, NO

LEMMA NextNone == NoInv /\ [Next]_vars => NoInv'
  <1> SUFFICES ASSUME NoInv, [Next]_vars PROVE NoInv'
    OBVIOUS
  <1>1. YesInv /\ YesInv'
    BY NextYes DEF NoInv
  <1>2. body' = body
    BY DEF Next, Check, vars, AskFun, AskStmt, CallExtern, CallSelf, CallKnown,
           CallNew, StmtEnd, Return, ReturnStmt
  <1> SUFFICES ASSUME Regular(body) PROVE NoneInv'
    BY <1>1, <1>2 DEF NoInv
  <1>3. NoneInv
    BY DEF NoInv
  <1>4. CASE UNCHANGED vars
    BY <1>3, <1>4 DEF NoneInv, vars
  <1>5. ASSUME NEW f \in Fun, AskFun(f) \/ \E i \in DOMAIN body[f] : AskStmt(f, i)
        PROVE  NoneInv'
    BY <1>1, <1>3, <1>5, AskFunNone, AskStmtNone
  <1>6. CASE Check
    BY <1>1, <1>3, <1>6, CallNone, StmtEndNone, ReturnNone, ReturnStmtNone DEF Check
  <1> QED
    BY <1>4, <1>5, <1>6 DEF Next

\* No call that matters is dropped, of any program whose recursion goes
\* through at most two functions and in which the analysis overlooks nothing:
\* NO, as an answer or in the table, is only said of what has no effect.
THEOREM NoSound == Spec => []NoMeansNoneInShortCycles
  <1>1. NoInv => NoMeansNoneInShortCycles
    <2> SUFFICES ASSUME NoInv, Regular(body) PROVE NoMeansNone
      BY DEF NoMeansNoneInShortCycles, Regular
    <2>1. NoneInv
      BY DEF NoInv
    <2>2. \A f \in Fun : memo[f] = NO => ~Effectful(f)
      BY <2>1, QuietMeansNone DEF NoneInv
    <2>3. stack = <<>> /\ answer = NO => ~AskedEffectful
      BY <2>1, QuietMeansNone DEF NoneInv, AskedEffectful
    <2> QED
      BY <2>2, <2>3 DEF NoMeansNone
  <1> QED
    BY <1>1, InitNone, NextNone, PTL DEF Spec
=============================================================================
